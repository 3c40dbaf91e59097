------------------------------ MODULE CpuProofs ------------------------------
(***************************************************************************)
(* The protocol between the kernel and the CPU, for every number of        *)
(* processes, every program and every width: at any moment the context of  *)
(* a burst is in one place, and a request that gets no answer is that of a *)
(* process the user ended.  Then the data, for every width, page size and  *)
(* page table: the MMU gives the bytes of an access in order, the          *)
(* registers go and come unchanged, and memory, registers and orders hold  *)
(* what their types allow.                                                 *)
(***************************************************************************)
EXTENDS Cpu, TLAPS, FiniteSetTheorems

USE ProcesosFinitos

-----------------------------------------------------------------------------
(* The inductive invariant *)

Motivos == {"FINALIZAR_PROCESO", "FIN_QUANTUM"}

Fases == {"libre", "ejecuta", "chequea", "pide", "desfasada", "caida"}

\* What the control of the CPU and of the kernel is made of; the registers and
\* the bytes are left out.
TiposDeControl ==
  /\ DOMAIN pcb = Procesos
  /\ \A p \in Procesos :
       /\ DOMAIN pcb[p] = {"estado", "registros", "pedido"}
       /\ pcb[p].estado \in EstadosPcb /\ pcb[p].pedido \in BOOLEAN
  /\ DOMAIN ordenes = Procesos
  /\ kernel \in Procesos \cup {Nadie} /\ quantum \in BOOLEAN
  /\ quantum => kernel # Nadie
  /\ interrupt \in Seq(Procesos \X Motivos)
  /\ interrupciones \in SUBSET (Procesos \X Motivos)
  /\ DOMAIN cpu = {"fase", "pid", "registros", "desalojo"}
  /\ cpu.fase \in Fases /\ cpu.pid \in Procesos \cup {Nadie} /\ cpu.desalojo \in BOOLEAN

\* monitor_READY holds each process in READY at most once and no other one.
ListosEnReady ==
  /\ listos \in Seq(Procesos)
  /\ \A i \in DOMAIN listos : pcb[listos[i]].estado = "READY"
  /\ \A i, j \in DOMAIN listos : i # j => listos[i] # listos[j]

\* The process the kernel waits for is the one in EXEC.
EjecutaElDelKernel == \A p \in Procesos : pcb[p].estado = "EXEC" <=> p = kernel

CInv == TiposDeControl /\ ListosEnReady /\ EjecutaElDelKernel /\ Protocolo

-----------------------------------------------------------------------------
(* Messages and the ready queue *)

\* The sockets hold at most two messages.
LEMMA Mensajes ==
  ASSUME NEW m, NEW n
  PROVE  /\ Append(<<>>, m) = <<m>> /\ Append(<<m>>, n) = <<m, n>>
         /\ Head(<<m>>) = m /\ Tail(<<m>>) = <<>>
         /\ Head(<<m, n>>) = m /\ Tail(<<m, n>>) = <<n>>
         /\ <<m>> # <<>> /\ <<m, n>> # <<>> /\ Len(<<m>>) = 1 /\ Len(<<m, n>>) = 2
         /\ <<m>>[1] = m /\ <<m, n>>[1] = m /\ <<m, n>>[2] = n /\ Len(<<>>) = 0
<1> DEFINE S == {m, n}
<1>1. <<>> \in Seq(S) /\ <<m>> \in Seq(S) /\ <<m, n>> \in Seq(S) OBVIOUS
<1>2. <<m>> # <<>> /\ <<m, n>> # <<>> /\ Len(<<m>>) = 1 /\ Len(<<m, n>>) = 2 /\ Len(<<>>) = 0
      /\ <<m>>[1] = m /\ <<m, n>>[1] = m /\ <<m, n>>[2] = n
  OBVIOUS
<1>3. Append(<<>>, m) = <<m>> OBVIOUS
<1>4. Append(<<m>>, n) = <<m, n>>
  <2> DEFINE t == Append(<<m>>, n)
  <2>1. t \in Seq(S) /\ Len(t) = 2 /\ t[1] = m /\ t[2] = n BY <1>1, <1>2
  <2> HIDE DEF t
  <2>2. DOMAIN t = 1 .. 2 /\ t = [i \in 1 .. 2 |-> t[i]] BY <2>1
  <2>4. <<m, n>> = [i \in 1 .. 2 |-> <<m, n>>[i]] BY <1>1, <1>2
  <2>5. \A i \in 1 .. 2 : t[i] = <<m, n>>[i] BY <1>2, <2>1
  <2>6. t = <<m, n>> BY <2>2, <2>4, <2>5
  <2>3. QED BY <2>6 DEF t
<1>5. Head(<<m>>) = m /\ Head(<<m, n>>) = m OBVIOUS
<1>6. Tail(<<m>>) = <<>> OBVIOUS
<1>7. Tail(<<m, n>>) = <<n>> OBVIOUS
<1>8. QED BY <1>2, <1>3, <1>4, <1>5, <1>6, <1>7

\* A queue of processes in READY, each at most once.
EsCola(s, estado) ==
  /\ s \in Seq(Procesos)
  /\ \A i \in DOMAIN s : estado[s[i]] = "READY"
  /\ \A i, j \in DOMAIN s : i # j => s[i] # s[j]

\* A process that was not there goes to the end.
LEMMA ColaMas ==
  ASSUME NEW s \in Seq(Procesos), NEW e, EsCola(s, e), NEW p \in Procesos, e[p] # "READY",
         NEW f, f[p] = "READY", \A q \in Procesos : q # p => f[q] = e[q]
  PROVE  EsCola(Append(s, p), f)
<1> DEFINE t == Append(s, p)
<1>1. /\ t \in Seq(Procesos) /\ DOMAIN t = 1 .. Len(s) + 1 /\ DOMAIN s = 1 .. Len(s)
      /\ Len(s) \in Nat
      /\ \A i \in 1 .. Len(s) : t[i] = s[i]
      /\ t[Len(s) + 1] = p
  OBVIOUS
<1> HIDE DEF t
<1>2. \A i \in DOMAIN s : s[i] # p /\ s[i] \in Procesos BY DEF EsCola
<1>3. \A i \in DOMAIN t : i \in DOMAIN s \/ i = Len(s) + 1 BY <1>1
<1>4. \A i \in DOMAIN t : f[t[i]] = "READY" BY <1>1, <1>2, <1>3 DEF EsCola
<1>5. \A i, j \in DOMAIN t : i # j => t[i] # t[j] BY <1>1, <1>2, <1>3 DEF EsCola
<1>6. QED BY <1>1, <1>4, <1>5 DEF EsCola, t

\* The first one leaves.
LEMMA ColaPrimero ==
  ASSUME NEW s \in Seq(Procesos), s # <<>>, NEW e, EsCola(s, e),
         NEW f, \A q \in Procesos : q # Head(s) => f[q] = e[q]
  PROVE  EsCola(Tail(s), f) /\ Head(s) \in Procesos /\ e[Head(s)] = "READY"
<1> DEFINE t == Tail(s)
<1>1. /\ t \in Seq(Procesos) /\ DOMAIN s = 1 .. Len(s) /\ Len(s) \in Nat /\ Len(s) >= 1
      /\ DOMAIN t = 1 .. Len(s) - 1
      /\ \A i \in 1 .. Len(s) - 1 : t[i] = s[i + 1]
      /\ Head(s) = s[1]
  OBVIOUS
<1> HIDE DEF t
<1>2. \A i \in DOMAIN t : i + 1 \in DOMAIN s /\ i + 1 # 1 /\ t[i] = s[i + 1] BY <1>1
<1>3. \A i \in DOMAIN t : t[i] \in Procesos /\ t[i] # s[1] /\ e[t[i]] = "READY"
  <2> TAKE i \in DOMAIN t
  <2>1. i + 1 \in DOMAIN s /\ i + 1 # 1 /\ t[i] = s[i + 1] /\ 1 \in DOMAIN s BY <1>1, <1>2
  <2>2. PICK k \in DOMAIN s : k = i + 1 BY <2>1
  <2>3. QED BY <2>1, <2>2 DEF EsCola
<1>4. \A i, j \in DOMAIN t : i # j => t[i] # t[j]
  <2> TAKE i, j \in DOMAIN t
  <2> HAVE i # j
  <2>1. i \in Nat /\ j \in Nat BY <1>1
  <2>2. i + 1 # j + 1 BY <2>1
  <2>3. QED BY <1>2, <2>2 DEF EsCola
<1>5. 1 \in DOMAIN s BY <1>1
<1>6. QED BY <1>1, <1>3, <1>4, <1>5 DEF EsCola, t

\* Wherever a process is, it is taken out and nobody else is.
LEMMA ColaMenos ==
  ASSUME NEW s \in Seq(Procesos), NEW e, EsCola(s, e), NEW p \in Procesos,
         NEW f, \A q \in Procesos : q # p => f[q] = e[q]
  PROVE  EsCola(Extraer(s, p), f)
<1>1. CASE ~Contains(s, p)
  <2>1. Extraer(s, p) = s BY <1>1 DEF Extraer
  <2>2. \A i \in DOMAIN s : s[i] # p /\ s[i] \in Procesos BY <1>1 DEF Contains
  <2>3. QED BY <2>1, <2>2 DEF EsCola
<1>2. CASE Contains(s, p)
  <2> DEFINE k == CHOOSE n \in 1 .. Len(s) : s[n] = p
             n == Len(s)
             t == Extraer(s, p)
             a == SubSeq(s, 1, k - 1)
             b == SubSeq(s, k + 1, Len(s))
  <2>1. k \in 1 .. n /\ s[k] = p BY <1>2 DEF Contains
  <2>2. t = a \o b BY <1>2 DEF Extraer, RemoveAt
  <2>3. n \in Nat /\ DOMAIN s = 1 .. n OBVIOUS
  <2> HIDE DEF k
  <2>5. /\ a \in Seq(Procesos) /\ Len(a) = k - 1
        /\ \A i \in 1 .. k - 1 : a[i] = s[i]
    BY <2>1
  <2>6. /\ b \in Seq(Procesos) /\ Len(b) = n - k
        /\ \A i \in 1 .. n - k : b[i] = s[k + i]
    BY <2>1
  <2> HIDE DEF a, b, n, t
  <2>4. /\ t \in Seq(Procesos) /\ DOMAIN t = 1 .. n - 1
    <3>0. a \in Seq(Procesos) /\ b \in Seq(Procesos) BY <2>5, <2>6
    <3>4. a \o b \in Seq(Procesos) BY <3>0
    <3>5. Len(a \o b) = Len(a) + Len(b) BY <3>0
    <3>1. /\ a \o b \in Seq(Procesos) /\ Len(a \o b) = Len(a) + Len(b)
          /\ DOMAIN (a \o b) = 1 .. Len(a \o b)
      BY <3>4, <3>5
    <3>2. (k - 1) + (n - k) = n - 1 BY <2>1, <2>3
    <3>3. QED BY <2>2, <2>5, <2>6, <3>1, <3>2
  <2>7. \A i \in 1 .. n - 1 : t[i] = IF i < k THEN s[i] ELSE s[i + 1]
    <3> TAKE i \in 1 .. n - 1
    <3>1. t[i] = IF i <= Len(a) THEN a[i] ELSE b[i - Len(a)]
      <4>1. i \in 1 .. Len(a) + Len(b) BY <2>1, <2>3, <2>5, <2>6
      <4>2. QED BY <2>2, <2>5, <2>6, <4>1
    <3>2. CASE i < k
      <4>1. i \in 1 .. k - 1 /\ i <= Len(a) BY <2>1, <2>3, <2>5, <3>2
      <4>2. QED BY <2>5, <3>1, <3>2, <4>1
    <3>3. CASE ~(i < k)
      <4>1. ~(i <= Len(a)) /\ i - Len(a) \in 1 .. n - k /\ k + (i - Len(a)) = i + 1
        BY <2>1, <2>3, <2>5, <3>3
      <4>2. b[i - Len(a)] = s[i + 1] BY <2>6, <4>1
      <4>3. QED BY <3>1, <3>3, <4>1, <4>2
    <3>4. QED BY <3>2, <3>3
  <2> DEFINE g(i) == IF i < k THEN i ELSE i + 1
  <2>8. \A i \in DOMAIN t : g(i) \in DOMAIN s /\ g(i) # k /\ t[i] = s[g(i)]
    BY <2>1, <2>3, <2>4, <2>7
  <2>9. \A i, j \in DOMAIN t : i # j => g(i) # g(j)
    BY <2>1, <2>3, <2>4
  <2> HIDE DEF g
  <2>10. \A i \in DOMAIN t : t[i] \in Procesos /\ t[i] # p /\ f[t[i]] = "READY"
    <3> TAKE i \in DOMAIN t
    <3>1. PICK l \in DOMAIN s : l = g(i) BY <2>8
    <3>2. t[i] = s[l] /\ l # k /\ k \in DOMAIN s BY <2>1, <2>3, <2>8, <3>1
    <3>3. QED BY <2>1, <3>2 DEF EsCola
  <2>11. \A i, j \in DOMAIN t : i # j => t[i] # t[j]
    BY <2>8, <2>9 DEF EsCola
  <2>12. QED BY <2>4, <2>10, <2>11 DEF EsCola, t
<1>3. QED BY <1>1, <1>2

-----------------------------------------------------------------------------
(* The invariant holds at the start *)

\* SetToSeq lists every process once.
LEMMA ListosAlEmpezar ==
  /\ SetToSeq(Procesos) \in Seq(Procesos)
  /\ \A i, j \in DOMAIN SetToSeq(Procesos) : i # j => SetToSeq(Procesos)[i] # SetToSeq(Procesos)[j]
<1> DEFINE n == Cardinality(Procesos)
<1>1. ExistsBijection(1 .. n, Procesos) /\ n \in Nat BY FS_CardinalityType
<1>2. PICK f \in [1 .. n -> Procesos] : \A i, j \in 1 .. n : f[i] = f[j] => i = j
  BY <1>1 DEF ExistsBijection, Bijection, Injection, IsInjective
<1>3. IsInjective(f) BY <1>2 DEF IsInjective
<1>4. SetToSeq(Procesos) \in [1 .. n -> Procesos] /\ IsInjective(SetToSeq(Procesos))
  BY <1>3 DEF SetToSeq
<1>5. QED BY <1>1, <1>4 DEF IsInjective

\* The control invariant holds at the start.
LEMMA CInvInicial == ASSUME Init PROVE CInv
<1> USE DEF Init
<1>1. TiposDeControl
  <2>1. /\ DOMAIN pcb = Procesos
        /\ \A p \in Procesos :
             /\ DOMAIN pcb[p] = {"estado", "registros", "pedido"}
             /\ pcb[p].estado = "READY" /\ pcb[p].pedido = FALSE
    OBVIOUS
  <2>2. DOMAIN ordenes = Procesos OBVIOUS
  <2>3. /\ DOMAIN cpu = {"fase", "pid", "registros", "desalojo"}
        /\ cpu.fase = "libre" /\ cpu.pid = Nadie /\ cpu.desalojo = FALSE
    OBVIOUS
  <2>4. interrupt \in Seq(Procesos \X Motivos) OBVIOUS
  <2>5. interrupciones \in SUBSET (Procesos \X Motivos) OBVIOUS
  <2>6. kernel = Nadie /\ quantum = FALSE OBVIOUS
  <2> QED BY ONLY <2>1, <2>2, <2>3, <2>4, <2>5, <2>6 DEF TiposDeControl, EstadosPcb, Fases
<1>2. ListosEnReady BY ListosAlEmpezar DEF ListosEnReady
<1>3. EjecutaElDelKernel BY DEF EjecutaElDelKernel
<1>4. Protocolo BY DEF Protocolo, SinRafaga, Nada, CpuLibera
<1>5. QED BY <1>1, <1>2, <1>3, <1>4 DEF CInv

-----------------------------------------------------------------------------
(* What steps leave alone *)

\* The ready queue is right according to the states alone.
LEMMA ListosPorEstado ==
  ListosEnReady <=> EsCola(listos, [p \in Procesos |-> pcb[p].estado])
<1> DEFINE e == [p \in Procesos |-> pcb[p].estado]
<1>1. CASE listos \in Seq(Procesos)
  <2>1. \A i \in DOMAIN listos : e[listos[i]] = pcb[listos[i]].estado BY <1>1
  <2> HIDE DEF e
  <2>2. QED BY <1>1, <2>1 DEF ListosEnReady, EsCola, e
<1>2. CASE listos \notin Seq(Procesos) BY <1>2 DEF ListosEnReady, EsCola
<1>3. QED BY <1>1, <1>2

\* The same, after a step.
LEMMA ListosPorEstadoDespues ==
  ListosEnReady' <=> EsCola(listos', [p \in Procesos |-> pcb'[p].estado])
<1> DEFINE e == [p \in Procesos |-> pcb'[p].estado]
<1>1. CASE listos' \in Seq(Procesos)
  <2>1. \A i \in DOMAIN listos' : e[listos'[i]] = pcb'[listos'[i]].estado BY <1>1
  <2> HIDE DEF e
  <2>2. QED BY <1>1, <2>1 DEF ListosEnReady, EsCola, e
<1>2. CASE listos' \notin Seq(Procesos) BY <1>2 DEF ListosEnReady, EsCola
<1>3. QED BY <1>1, <1>2

\* The queue and the states of the PCBs stay: so do two of the four parts.
LEMMA MismosEstados ==
  ASSUME CInv, UNCHANGED <<listos, kernel>>, \A p \in Procesos : pcb'[p].estado = pcb[p].estado
  PROVE  ListosEnReady' /\ EjecutaElDelKernel'
<1>1. ListosEnReady'
  <2>1. \A i \in DOMAIN listos : listos[i] \in Procesos BY DEF CInv, ListosEnReady
  <2>2. QED BY <2>1 DEF CInv, ListosEnReady
<1>2. EjecutaElDelKernel' BY DEF CInv, EjecutaElDelKernel
<1>3. QED BY <1>1, <1>2

\* The places of a message: nothing there, one or two.
LEMMA Sockets ==
  ASSUME NEW m
  PROVE  /\ dispatch = <<>> => /\ Append(dispatch, m) = <<m>>
                               /\ Len(dispatch) = 0
         /\ dispatch = <<dispatch[1]>> =>
              /\ Append(dispatch, m) = <<dispatch[1], m>>
              /\ Head(dispatch) = dispatch[1] /\ Tail(dispatch) = <<>> /\ dispatch # <<>>
         /\ dispatch = <<dispatch[1], dispatch[2]>> =>
              /\ Head(dispatch) = dispatch[1] /\ Tail(dispatch) = <<dispatch[2]>> /\ dispatch # <<>>
         /\ desalojos = <<>> => Append(desalojos, m) = <<m>>
         /\ desalojos = <<desalojos[1]>> =>
              /\ Head(desalojos) = desalojos[1] /\ Tail(desalojos) = <<>> /\ desalojos # <<>>
         /\ <<m>> # <<>> /\ Len(<<m>>) = 1 /\ <<m>>[1] = m
<1> DEFINE a == dispatch[1]
           b == dispatch[2]
           c == desalojos[1]
<1>1. dispatch = <<>> => Append(dispatch, m) = <<m>> /\ Len(dispatch) = 0 BY Mensajes
<1>2. dispatch = <<a>> => /\ Append(dispatch, m) = <<a, m>> /\ Head(dispatch) = a
                          /\ Tail(dispatch) = <<>> /\ dispatch # <<>>
  <2> HIDE DEF a
  <2>1. /\ Append(<<a>>, m) = <<a, m>> /\ Head(<<a>>) = a /\ Tail(<<a>>) = <<>>
        /\ <<a>> # <<>>
    BY Mensajes
  <2>2. QED BY <2>1
<1>3. dispatch = <<a, b>> => Head(dispatch) = a /\ Tail(dispatch) = <<b>> /\ dispatch # <<>>
  <2> HIDE DEF a, b
  <2>1. QED BY Mensajes
<1>4. desalojos = <<>> => Append(desalojos, m) = <<m>> BY Mensajes
<1>5. desalojos = <<c>> => Head(desalojos) = c /\ Tail(desalojos) = <<>> /\ desalojos # <<>>
  <2> HIDE DEF c
  <2>1. QED BY Mensajes
<1>6. <<m>> # <<>> /\ Len(<<m>>) = 1 /\ <<m>>[1] = m BY Mensajes
<1>7. QED BY <1>1, <1>2, <1>3, <1>4, <1>5, <1>6

\* A message after another one
LEMMA Detras ==
  ASSUME NEW m, NEW n
  PROVE  Len(<<m, n>>) = 2 /\ <<m, n>>[1] = m /\ <<m, n>>[2] = n
BY Mensajes

-----------------------------------------------------------------------------
(* The kernel *)

\* Sending the first ready process to the CPU keeps the control invariant.
LEMMA PasoPlanificar == ASSUME CInv, Planificar PROVE CInv'
<1> DEFINE p == Head(listos)
           e == [q \in Procesos |-> pcb[q].estado]
           m == [op |-> "EJECUTAR_PROCESO", pid |-> p, registros |-> AgregarRegistros(pcb[p].registros)]
<1>1. /\ kernel = Nadie /\ listos # <<>> /\ kernel' = p /\ pcb' = [pcb EXCEPT ![p].estado = "EXEC"]
      /\ dispatch' = Append(dispatch, m) /\ listos' = Tail(listos) /\ quantum' = TRUE
      /\ UNCHANGED <<ordenes, desalojos, interrupt, interrupciones, cpu>>
  BY DEF Planificar, senales
<1>2. listos \in Seq(Procesos) /\ EsCola(listos, e) BY ListosPorEstado DEF CInv, ListosEnReady
<1>3. /\ DOMAIN pcb = Procesos /\ \A q \in Procesos : DOMAIN pcb[q] = {"estado", "registros", "pedido"}
  BY DEF CInv, TiposDeControl
<1>4. p \in Procesos /\ pcb[p].estado = "READY"
  BY <1>1, <1>2, ColaPrimero
<1>5. /\ DOMAIN pcb' = Procesos
      /\ \A q \in Procesos : DOMAIN pcb'[q] = {"estado", "registros", "pedido"}
      /\ \A q \in Procesos : q # p => pcb'[q] = pcb[q]
      /\ pcb'[p].estado = "EXEC" /\ pcb'[p].pedido = pcb[p].pedido
  BY <1>1, <1>3, <1>4
<1>6. EsCola(Tail(listos), [q \in Procesos |-> pcb'[q].estado])
  <2>1. \A q \in Procesos : q # p => [r \in Procesos |-> pcb'[r].estado][q] = e[q] BY <1>5
  <2>2. QED BY <1>1, <1>2, <2>1, ColaPrimero
<1>7. m.op = "EJECUTAR_PROCESO" /\ m.pid = p OBVIOUS
<1> HIDE DEF m, p, e
<1>8. TiposDeControl' BY <1>1, <1>4, <1>5 DEF CInv, TiposDeControl, EstadosPcb
<1>9. ListosEnReady' BY <1>1, <1>6, ListosPorEstadoDespues
<1>10. EjecutaElDelKernel' BY <1>1, <1>4, <1>5 DEF CInv, EjecutaElDelKernel
<1>11. Protocolo'
  <2>1. SinRafaga BY <1>1 DEF CInv, Protocolo, Enviada, EnMarcha, Devuelta
  <2>2. kernel' # Nadie /\ desalojos' = <<>> BY <1>1, <1>4, <2>1 DEF SinRafaga
  <2>3. CASE Nada /\ (CpuLibera \/ CpuColgada)
    <3>1. dispatch' = <<m>> BY <1>1, <2>3, Sockets DEF Nada
    <3>2. EnCamino' BY <1>1, <1>7, <3>1, Sockets DEF EnCamino, Manda
    <3>3. CpuColgada => CpuColgada' BY <1>1, <1>4, <1>5 DEF CpuColgada, CpuPide
    <3>4. CpuLibera => CpuLibera' BY <1>1 DEF CpuLibera
    <3>5. QED BY <2>2, <2>3, <3>2, <3>3, <3>4 DEF Protocolo, Enviada
  <2>4. CASE Uno("DESALOJAR") /\ CpuPide
    <3>1. dispatch' = <<dispatch[1], m>> /\ dispatch[1].op = "DESALOJAR" BY <1>1, <2>4, Sockets DEF Uno
    <3>2. EnCaminoDetras' BY <1>1, <1>7, <3>1, Detras DEF EnCaminoDetras, Manda
    <3>3. CpuPide' BY <1>1, <2>4 DEF CpuPide
    <3>4. QED BY <2>2, <3>2, <3>3 DEF Protocolo, Enviada
  <2>5. QED BY <2>1, <2>3, <2>4 DEF SinRafaga
<1>12. QED BY <1>8, <1>9, <1>10, <1>11 DEF CInv

\* The PCB of p, and only that one, goes to a state.
Cambia(p, estado) ==
  /\ DOMAIN pcb' = Procesos
  /\ DOMAIN pcb'[p] = {"estado", "registros", "pedido"}
  /\ \A q \in Procesos : q # p => pcb'[q] = pcb[q]
  /\ pcb'[p].estado = estado

\* Saving the context changes the state of that PCB and no request.
LEMMA GuardaCambia ==
  ASSUME CInv, kernel \in Procesos, NEW estado, Guarda(estado)
  PROVE  Cambia(kernel, estado) /\ pcb'[kernel].pedido = pcb[kernel].pedido
<1>1. /\ DOMAIN pcb = Procesos /\ \A q \in Procesos : DOMAIN pcb[q] = {"estado", "registros", "pedido"}
  BY DEF CInv, TiposDeControl
<1> DEFINE r == LeerRegistros(Head(desalojos).registros)
<1>2. pcb' = [pcb EXCEPT ![kernel].estado = estado, ![kernel].registros = r] BY DEF Guarda
<1> HIDE DEF r
<1>3. QED BY <1>1, <1>2 DEF Cambia

\* A process that ends changes its state and its request only.
LEMMA TerminadoCambia ==
  ASSUME CInv, NEW p \in Procesos, NEW pedido, Terminado(p, pedido)
  PROVE  Cambia(p, "EXIT") /\ pcb'[p].pedido = pedido
BY DEF CInv, TiposDeControl, Terminado, Cambia

\* The process that changes was not in the queue: the queue stays right.
LEMMA ListosQuieta ==
  ASSUME CInv, NEW p \in Procesos, pcb[p].estado # "READY", NEW estado, Cambia(p, estado),
         listos' = listos
  PROVE  ListosEnReady'
<1>1. \A i \in DOMAIN listos : listos[i] \in Procesos /\ listos[i] # p BY DEF CInv, ListosEnReady
<1>2. QED BY <1>1 DEF CInv, ListosEnReady, Cambia

\* It was not in the queue and goes to the end of it.
LEMMA ListosCrece ==
  ASSUME CInv, NEW p \in Procesos, pcb[p].estado # "READY", Cambia(p, "READY"),
         listos' = Append(listos, p)
  PROVE  ListosEnReady'
<1> DEFINE e == [q \in Procesos |-> pcb[q].estado]
           f == [q \in Procesos |-> pcb'[q].estado]
<1>1. listos \in Seq(Procesos) /\ EsCola(listos, e) BY ListosPorEstado DEF CInv, ListosEnReady
<1>2. e[p] # "READY" /\ f[p] = "READY" /\ \A q \in Procesos : q # p => f[q] = e[q] BY DEF Cambia
<1> HIDE DEF e, f
<1>3. EsCola(Append(listos, p), f) BY <1>1, <1>2, ColaMas
<1>4. QED BY <1>3, ListosPorEstadoDespues DEF f

\* When the kernel waits for somebody and there is a message, it is his.
LEMMA HayMensaje ==
  ASSUME CInv, kernel # Nadie, desalojos # <<>>
  PROVE  /\ Devuelta /\ kernel \in Procesos /\ pcb[kernel].estado = "EXEC"
         /\ Head(desalojos) = desalojos[1] /\ Tail(desalojos) = <<>> /\ dispatch = <<>>
         /\ pcb[kernel].pedido \in BOOLEAN
<1>1. Devuelta BY DEF CInv, Protocolo, SinRafaga, Enviada, EnMarcha
<1>2. kernel \in Procesos /\ pcb[kernel].estado = "EXEC" /\ pcb[kernel].pedido \in BOOLEAN
  BY DEF CInv, TiposDeControl, EjecutaElDelKernel
<1>3. QED BY <1>1, <1>2, Sockets DEF Devuelta, Nada

\* The burst is over: the process leaves EXEC and nobody is waited for.
LEMMA RafagaTermina ==
  ASSUME CInv, kernel \in Procesos, FinRafaga,
         NEW estado \in {"READY", "BLOCKED", "EXIT"}, Cambia(kernel, estado),
         pcb'[kernel].pedido = pcb[kernel].pedido,
         DOMAIN ordenes' = DOMAIN ordenes,
         UNCHANGED <<interrupt, interrupciones, cpu>>
  PROVE  TiposDeControl' /\ EjecutaElDelKernel'
<1>1. kernel' = Nadie /\ quantum' = FALSE BY DEF FinRafaga
<1>2. TiposDeControl'
  <2>1. \A p \in Procesos : /\ DOMAIN pcb'[p] = {"estado", "registros", "pedido"}
                            /\ pcb'[p].estado \in EstadosPcb /\ pcb'[p].pedido \in BOOLEAN
    BY DEF CInv, TiposDeControl, Cambia, EstadosPcb
  <2>2. DOMAIN pcb' = Procesos BY DEF Cambia
  <2>3. QED BY <1>1, <2>1, <2>2 DEF CInv, TiposDeControl
<1>3. EjecutaElDelKernel' BY <1>1 DEF CInv, EjecutaElDelKernel, Cambia
<1>4. QED BY <1>2, <1>3

\* Changing an order keeps whose orders there are.
LEMMA OrdenesDominio ==
  ASSUME NEW p, NEW o, ordenes' = [ordenes EXCEPT ![p] = o] PROVE DOMAIN ordenes' = DOMAIN ordenes
OBVIOUS

\* The end of a process keeps the control invariant.
LEMMA PasoRecibeFin == ASSUME CInv, RecibeFin PROVE CInv'
<1>1. /\ kernel # Nadie /\ desalojos # <<>> /\ desalojos' = Tail(desalojos) /\ FinRafaga /\ Acaba
      /\ UNCHANGED <<interrupt, interrupciones, cpu, listos, dispatch>>
      /\ pcb[kernel].pedido \/ Head(desalojos).op \in {"EXIT_PROCESO", "FINALIZAR_PROCESO"}
  BY DEF RecibeFin, Recibe, senales
<1>2. /\ Devuelta /\ kernel \in Procesos /\ pcb[kernel].estado = "EXEC"
      /\ Head(desalojos) = desalojos[1] /\ desalojos' = <<>> /\ dispatch' = <<>>
      /\ pcb[kernel].pedido \in BOOLEAN
  BY <1>1, HayMensaje
<1>3. Cambia(kernel, "EXIT") /\ pcb'[kernel].pedido = pcb[kernel].pedido /\ ordenes' = ordenes
  BY <1>1, <1>2, TerminadoCambia DEF Acaba
<1>4. TiposDeControl' /\ EjecutaElDelKernel' BY <1>1, <1>2, <1>3, RafagaTermina
<1>5. ListosEnReady' BY <1>1, <1>2, <1>3, ListosQuieta
<1>6. Protocolo'
  <2>1. kernel' = Nadie BY <1>1 DEF FinRafaga
  <2>2. CASE CpuLibera
    <3>1. CpuLibera' BY <1>1, <2>2 DEF CpuLibera
    <3>2. QED BY <1>2, <2>1, <3>1 DEF Protocolo, SinRafaga, Nada
  <2>3. CASE CpuPide /\ cpu.pid = kernel /\ pcb[kernel].pedido
    <3>1. CpuColgada' BY <1>1, <1>2, <1>3, <2>3 DEF CpuColgada, CpuPide, Cambia
    <3>2. QED BY <1>2, <2>1, <3>1 DEF Protocolo, SinRafaga, Nada
  <2>4. QED BY <1>1, <1>2, <2>2, <2>3 DEF Devuelta, InstruccionesRecurso
<1>7. QED BY <1>4, <1>5, <1>6 DEF CInv

\* The end of a quantum keeps it: the process goes back to the queue, once.
LEMMA PasoRecibeFinQuantum == ASSUME CInv, RecibeFinQuantum PROVE CInv'
<1>1. /\ kernel # Nadie /\ desalojos # <<>> /\ desalojos' = Tail(desalojos) /\ FinRafaga
      /\ Guarda("READY") /\ listos' = Append(listos, kernel)
      /\ UNCHANGED <<interrupt, interrupciones, cpu, ordenes, dispatch>>
      /\ Head(desalojos).op = "FIN_QUANTUM"
  BY DEF RecibeFinQuantum, Recibe, senales
<1>2. /\ Devuelta /\ kernel \in Procesos /\ pcb[kernel].estado = "EXEC"
      /\ Head(desalojos) = desalojos[1] /\ desalojos' = <<>> /\ dispatch' = <<>>
  BY <1>1, HayMensaje
<1>3. Cambia(kernel, "READY") /\ pcb'[kernel].pedido = pcb[kernel].pedido
  BY <1>1, <1>2, GuardaCambia
<1>4. TiposDeControl' /\ EjecutaElDelKernel' BY <1>1, <1>2, <1>3, RafagaTermina
<1>5. ListosEnReady' BY <1>1, <1>2, <1>3, ListosCrece
<1>6. CpuLibera' BY <1>1, <1>2 DEF Devuelta, InstruccionesRecurso, CpuLibera
<1>7. Protocolo' BY <1>1, <1>2, <1>6 DEF FinRafaga, Protocolo, SinRafaga, Nada
<1>8. QED BY <1>4, <1>5, <1>7 DEF CInv

\* A request of I/O keeps it.
LEMMA PasoRecibeIO == ASSUME CInv, RecibeIO PROVE CInv'
<1> DEFINE o == [op |-> Head(desalojos).op, piezas |-> Head(desalojos).piezas]
<1>1. /\ kernel # Nadie /\ desalojos # <<>> /\ desalojos' = Tail(desalojos) /\ FinRafaga
      /\ Bloquea(o) \/ Acaba
      /\ UNCHANGED <<interrupt, interrupciones, cpu, listos, dispatch>>
      /\ Head(desalojos).op \in InstruccionesIO
  BY DEF RecibeIO, Recibe, senales, InstruccionesIO
<1> HIDE DEF o
<1>2. /\ Devuelta /\ kernel \in Procesos /\ pcb[kernel].estado = "EXEC"
      /\ Head(desalojos) = desalojos[1] /\ desalojos' = <<>> /\ dispatch' = <<>>
  BY <1>1, HayMensaje
<1>3. PICK estado \in {"BLOCKED", "EXIT"} :
        Cambia(kernel, estado) /\ pcb'[kernel].pedido = pcb[kernel].pedido
  BY <1>1, <1>2, GuardaCambia, TerminadoCambia DEF Bloquea, Acaba
<1>4. DOMAIN ordenes' = DOMAIN ordenes BY <1>1, OrdenesDominio DEF Bloquea, Acaba
<1>5. TiposDeControl' /\ EjecutaElDelKernel'
  BY <1>1, <1>2, <1>3, <1>4, RafagaTermina
<1>6. ListosEnReady' BY <1>1, <1>2, <1>3, ListosQuieta
<1>7. CpuLibera'
  BY <1>1, <1>2 DEF Devuelta, InstruccionesRecurso, InstruccionesIO, CpuLibera
<1>8. Protocolo' BY <1>1, <1>2, <1>7 DEF FinRafaga, Protocolo, SinRafaga, Nada
<1>9. QED BY <1>5, <1>6, <1>8 DEF CInv

\* The answer CONTINUAR keeps it: the burst goes on.
LEMMA PasoRecibeRecursoContinua == ASSUME CInv, RecibeRecursoContinua PROVE CInv'
<1> DEFINE m == [op |-> "CONTINUAR", pid |-> Nadie, registros |-> <<>>]
<1>1. /\ kernel # Nadie /\ desalojos # <<>> /\ desalojos' = Tail(desalojos)
      /\ dispatch' = Append(dispatch, m)
      /\ UNCHANGED <<pcb, ordenes, listos, kernel, quantum, interrupt, interrupciones, cpu>>
      /\ Head(desalojos).op \in InstruccionesRecurso
  BY DEF RecibeRecursoContinua, Recibe, senales, nucleo, Responde, InstruccionesRecurso
<1>2. m.op = "CONTINUAR" OBVIOUS
<1> HIDE DEF m
<1>3. /\ Devuelta /\ Head(desalojos) = desalojos[1] /\ desalojos' = <<>> /\ dispatch = <<>>
  BY <1>1, HayMensaje
<1>4. TiposDeControl' BY <1>1 DEF CInv, TiposDeControl
<1>5. ListosEnReady' /\ EjecutaElDelKernel' BY <1>1, MismosEstados
<1>6. dispatch' = <<m>> BY <1>1, <1>3, Sockets
<1>7. Uno("CONTINUAR")' BY <1>2, <1>6, Sockets DEF Uno
<1>8. CpuPide' /\ cpu'.pid = kernel'
  BY <1>1, <1>3 DEF Devuelta, CpuPide
<1>9. Protocolo' BY <1>1, <1>3, <1>7, <1>8 DEF Protocolo, EnMarcha
<1>10. QED BY <1>4, <1>5, <1>9 DEF CInv

\* The answer DESALOJAR keeps it: the CPU will read it before the next process.
LEMMA PasoRecibeRecursoDesaloja == ASSUME CInv, RecibeRecursoDesaloja PROVE CInv'
<1> DEFINE m == [op |-> "DESALOJAR", pid |-> Nadie, registros |-> <<>>]
           o == [SinOrden EXCEPT !.op = "WAIT"]
<1>1. /\ kernel # Nadie /\ desalojos # <<>> /\ desalojos' = Tail(desalojos) /\ FinRafaga
      /\ dispatch' = Append(dispatch, m)
      /\ Bloquea(o) \/ Acaba
      /\ UNCHANGED <<interrupt, interrupciones, cpu, listos>>
      /\ Head(desalojos).op \in InstruccionesRecurso
  BY DEF RecibeRecursoDesaloja, Recibe, senales, Responde, InstruccionesRecurso
<1>2. m.op = "DESALOJAR" OBVIOUS
<1> HIDE DEF m, o
<1>3. /\ Devuelta /\ kernel \in Procesos /\ pcb[kernel].estado = "EXEC"
      /\ Head(desalojos) = desalojos[1] /\ desalojos' = <<>> /\ dispatch = <<>>
  BY <1>1, HayMensaje
<1>4. PICK estado \in {"BLOCKED", "EXIT"} :
        Cambia(kernel, estado) /\ pcb'[kernel].pedido = pcb[kernel].pedido
  BY <1>1, <1>3, GuardaCambia, TerminadoCambia DEF Bloquea, Acaba
<1>5. DOMAIN ordenes' = DOMAIN ordenes BY <1>1, OrdenesDominio DEF Bloquea, Acaba
<1>6. TiposDeControl' /\ EjecutaElDelKernel' BY <1>1, <1>3, <1>4, <1>5, RafagaTermina
<1>7. ListosEnReady' BY <1>1, <1>3, <1>4, ListosQuieta
<1>8. dispatch' = <<m>> BY <1>1, <1>3, Sockets
<1>9. Uno("DESALOJAR")' BY <1>2, <1>8, Sockets DEF Uno
<1>10. CpuPide' BY <1>1, <1>3 DEF Devuelta, CpuPide
<1>11. Protocolo' BY <1>1, <1>3, <1>9, <1>10 DEF FinRafaga, Protocolo, SinRafaga
<1>12. QED BY <1>6, <1>7, <1>11 DEF CInv

\* What is not part of the conversation moves neither its messages nor the CPU.
LEMMA ProtocoloQuieto ==
  ASSUME CInv, UNCHANGED <<kernel, dispatch, desalojos, cpu>>,
         \A q \in Procesos : pcb[q].estado = "EXIT" /\ pcb[q].pedido
                             => pcb'[q].estado = "EXIT" /\ pcb'[q].pedido
  PROVE  Protocolo'
<1>1. CpuLibera => CpuLibera' BY DEF CpuLibera
<1>2. CpuPide => CpuPide' BY DEF CpuPide
<1>3. CpuColgada => CpuColgada' BY <1>2 DEF CpuColgada, CpuPide
<1>4. SinRafaga => SinRafaga' BY <1>1, <1>2, <1>3 DEF SinRafaga, Nada, Uno
<1>5. Enviada => Enviada' BY <1>1, <1>2, <1>3 DEF Enviada, EnCamino, EnCaminoDetras, Manda
<1>6. EnMarcha => EnMarcha' BY <1>2 DEF EnMarcha, Nada, Uno, Trabada
<1>7. Devuelta => Devuelta' BY <1>1, <1>2 DEF Devuelta, Nada
<1>8. QED BY <1>4, <1>5, <1>6, <1>7 DEF CInv, Protocolo

\* Unblocking a process keeps it.
LEMMA PasoDesbloquear == ASSUME CInv, NEW p \in Procesos, Desbloquear(p) PROVE CInv'
<1>1. /\ pcb[p].estado = "BLOCKED" /\ pcb' = [pcb EXCEPT ![p].estado = "READY"]
      /\ ordenes' = [ordenes EXCEPT ![p] = SinOrden] /\ listos' = Append(listos, p)
      /\ UNCHANGED <<kernel, quantum, dispatch, desalojos, interrupt, interrupciones, cpu>>
  BY DEF Desbloquear, senales
<1>2. /\ DOMAIN pcb = Procesos /\ \A q \in Procesos : DOMAIN pcb[q] = {"estado", "registros", "pedido"}
  BY DEF CInv, TiposDeControl
<1>3. Cambia(p, "READY") /\ pcb'[p].pedido = pcb[p].pedido BY <1>1, <1>2 DEF Cambia
<1>4. TiposDeControl'
  <2>1. \A q \in Procesos : /\ DOMAIN pcb'[q] = {"estado", "registros", "pedido"}
                            /\ pcb'[q].estado \in EstadosPcb /\ pcb'[q].pedido \in BOOLEAN
    <3> TAKE q \in Procesos
    <3>1. CASE q = p BY <1>3, <3>1 DEF CInv, TiposDeControl, Cambia, EstadosPcb
    <3>2. CASE q # p BY <1>3, <3>2 DEF CInv, TiposDeControl, Cambia
    <3>3. QED BY <3>1, <3>2
  <2>2. DOMAIN ordenes' = DOMAIN ordenes BY <1>1, OrdenesDominio
  <2>3. QED BY <1>1, <1>3, <2>1, <2>2 DEF CInv, TiposDeControl, Cambia
<1>5. ListosEnReady' BY <1>1, <1>3, ListosCrece
<1>6. EjecutaElDelKernel' BY <1>1, <1>3 DEF CInv, EjecutaElDelKernel, Cambia
<1>7. Protocolo' BY <1>1, <1>3, ProtocoloQuieto DEF Cambia
<1>8. QED BY <1>4, <1>5, <1>6, <1>7 DEF CInv

\* One more interrupt in the socket.
LEMMA InterruptMas ==
  ASSUME CInv, NEW p \in Procesos, NEW motivo \in Motivos, interrupt' = Append(interrupt, <<p, motivo>>)
  PROVE  interrupt' \in Seq(Procesos \X Motivos)
<1>1. <<p, motivo>> \in Procesos \X Motivos OBVIOUS
<1>2. interrupt \in Seq(Procesos \X Motivos) BY DEF CInv, TiposDeControl
<1>3. QED BY <1>1, <1>2

\* The timer keeps it: it interrupts the process of the burst.
LEMMA PasoControlQuantum == ASSUME CInv, ControlQuantum PROVE CInv'
<1>1. /\ quantum /\ quantum' = FALSE /\ interrupt' = Append(interrupt, <<kernel, "FIN_QUANTUM">>)
      /\ UNCHANGED <<pcb, ordenes, listos, kernel, dispatch, desalojos, interrupciones, cpu>>
  BY DEF ControlQuantum
<1>2. kernel \in Procesos /\ "FIN_QUANTUM" \in Motivos BY <1>1 DEF CInv, TiposDeControl, Motivos
<1>3. interrupt' \in Seq(Procesos \X Motivos) BY <1>1, <1>2, InterruptMas
<1>4. TiposDeControl' BY <1>1, <1>3 DEF CInv, TiposDeControl
<1>5. ListosEnReady' /\ EjecutaElDelKernel' BY <1>1, MismosEstados
<1>6. Protocolo' BY <1>1, ProtocoloQuieto
<1>7. QED BY <1>4, <1>5, <1>6 DEF CInv

\* The request to end the process in EXEC keeps it.
LEMMA PasoFinalizarEnEjecucion ==
  ASSUME CInv, NEW p \in Procesos, FinalizarEnEjecucion(p)
  PROVE  CInv'
<1>1. /\ pcb[p].estado = "EXEC" /\ pcb' = [pcb EXCEPT ![p].pedido = TRUE]
      /\ interrupt' = Append(interrupt, <<p, "FINALIZAR_PROCESO">>)
      /\ UNCHANGED <<ordenes, listos, kernel, quantum, dispatch, desalojos, interrupciones, cpu>>
  BY DEF FinalizarEnEjecucion
<1>2. /\ DOMAIN pcb = Procesos /\ \A q \in Procesos : DOMAIN pcb[q] = {"estado", "registros", "pedido"}
  BY DEF CInv, TiposDeControl
<1>3. /\ Cambia(p, "EXEC") /\ pcb'[p].pedido = TRUE BY <1>1, <1>2 DEF Cambia
<1>4. TiposDeControl'
  <2>1. \A q \in Procesos : /\ DOMAIN pcb'[q] = {"estado", "registros", "pedido"}
                            /\ pcb'[q].estado \in EstadosPcb /\ pcb'[q].pedido \in BOOLEAN
    <3> TAKE q \in Procesos
    <3>1. CASE q = p BY <1>3, <3>1 DEF Cambia, EstadosPcb
    <3>2. CASE q # p BY <1>3, <3>2 DEF CInv, TiposDeControl, Cambia
    <3>3. QED BY <3>1, <3>2
  <2>2. interrupt' \in Seq(Procesos \X Motivos) BY <1>1, InterruptMas DEF Motivos
  <2>3. QED BY <1>1, <1>3, <2>1, <2>2 DEF CInv, TiposDeControl, Cambia
<1>5. ListosEnReady' /\ EjecutaElDelKernel' BY <1>1, <1>3, MismosEstados DEF Cambia
<1>6. Protocolo' BY <1>1, <1>3, ProtocoloQuieto DEF Cambia
<1>7. QED BY <1>4, <1>5, <1>6 DEF CInv

\* Ending a process that is not in EXEC keeps it: it leaves the queue.
LEMMA PasoFinalizarFuera ==
  ASSUME CInv, NEW p \in Procesos, FinalizarFuera(p)
  PROVE  CInv'
<1>1. /\ pcb[p].estado \in {"READY", "BLOCKED"} /\ Terminado(p, TRUE)
      /\ listos' = Extraer(listos, p)
      /\ ordenes' = [ordenes EXCEPT ![p] = SinOrden] \/ UNCHANGED ordenes
      /\ UNCHANGED <<kernel, quantum, dispatch, desalojos, interrupt, interrupciones, cpu>>
  BY DEF FinalizarFuera, senales
<1>2. Cambia(p, "EXIT") /\ pcb'[p].pedido = TRUE BY <1>1, TerminadoCambia
<1>3. TiposDeControl'
  <2>1. \A q \in Procesos : /\ DOMAIN pcb'[q] = {"estado", "registros", "pedido"}
                            /\ pcb'[q].estado \in EstadosPcb /\ pcb'[q].pedido \in BOOLEAN
    <3> TAKE q \in Procesos
    <3>1. CASE q = p BY <1>2, <3>1 DEF Cambia, EstadosPcb
    <3>2. CASE q # p BY <1>2, <3>2 DEF CInv, TiposDeControl, Cambia
    <3>3. QED BY <3>1, <3>2
  <2>2. DOMAIN ordenes' = DOMAIN ordenes BY <1>1, OrdenesDominio
  <2>3. QED BY <1>1, <1>2, <2>1, <2>2 DEF CInv, TiposDeControl, Cambia
<1>4. ListosEnReady'
  <2> DEFINE e == [q \in Procesos |-> pcb[q].estado]
             f == [q \in Procesos |-> pcb'[q].estado]
  <2>1. listos \in Seq(Procesos) /\ EsCola(listos, e) BY ListosPorEstado DEF CInv, ListosEnReady
  <2>2. \A q \in Procesos : q # p => f[q] = e[q] BY <1>2 DEF Cambia
  <2> HIDE DEF e, f
  <2>3. EsCola(Extraer(listos, p), f) BY <2>1, <2>2, ColaMenos
  <2>4. QED BY <1>1, <2>3, ListosPorEstadoDespues DEF f
<1>5. EjecutaElDelKernel' BY <1>1, <1>2 DEF CInv, EjecutaElDelKernel, Cambia
<1>6. Protocolo' BY <1>1, <1>2, ProtocoloQuieto DEF Cambia
<1>7. QED BY <1>3, <1>4, <1>5, <1>6 DEF CInv

\* The devices keep it.
LEMMA PasoDispositivo == ASSUME CInv, NEW p \in Procesos, Dispositivo(p) PROVE CInv'
<1>1. \E op : Orden(p, op) BY DEF Dispositivo, IoStdinRead, IoStdoutWrite, IoGenSleep
<1>2. /\ ordenes' = [ordenes EXCEPT ![p].op = "HECHA"]
      /\ UNCHANGED <<pcb, listos, kernel, quantum, dispatch, desalojos, interrupt, interrupciones, cpu>>
  BY <1>1 DEF Orden, senales
<1>3. TiposDeControl' BY <1>2 DEF CInv, TiposDeControl
<1>4. ListosEnReady' /\ EjecutaElDelKernel' BY <1>2, MismosEstados
<1>5. Protocolo' BY <1>2, ProtocoloQuieto
<1>6. QED BY <1>3, <1>4, <1>5 DEF CInv

\* The thread of the interrupts keeps it.
LEMMA PasoRecibirInterrupcion == ASSUME CInv, RecibirInterrupcion PROVE CInv'
<1>1. /\ interrupt # <<>> /\ interrupt' = Tail(interrupt)
      /\ interrupciones' = interrupciones \cup {Head(interrupt)}
      /\ UNCHANGED <<pcb, ordenes, listos, kernel, quantum, dispatch, desalojos, cpu>>
  BY DEF RecibirInterrupcion, nucleo
<1>2. interrupt \in Seq(Procesos \X Motivos) /\ interrupciones \in SUBSET (Procesos \X Motivos)
  BY DEF CInv, TiposDeControl
<1>3. interrupt' \in Seq(Procesos \X Motivos) /\ Head(interrupt) \in Procesos \X Motivos
  BY <1>1, <1>2
<1>4. interrupciones' \in SUBSET (Procesos \X Motivos) BY <1>1, <1>2, <1>3
<1>5. TiposDeControl' BY <1>1, <1>3, <1>4 DEF CInv, TiposDeControl
<1>6. ListosEnReady' /\ EjecutaElDelKernel' BY <1>1, MismosEstados
<1>7. Protocolo' BY <1>1, ProtocoloQuieto
<1>8. QED BY <1>5, <1>6, <1>7 DEF CInv

-----------------------------------------------------------------------------
(* The CPU *)

CpuConTipo ==
  /\ DOMAIN cpu = {"fase", "pid", "registros", "desalojo"}
  /\ cpu.fase \in Fases /\ cpu.pid \in Procesos \cup {Nadie} /\ cpu.desalojo \in BOOLEAN

\* A step of the dispatch loop that keeps the protocol keeps the invariant.
LEMMA PasoDeLaCpu ==
  ASSUME CInv, UNCHANGED <<pcb, ordenes, listos, kernel, quantum, interrupt>>,
         interrupciones' \subseteq interrupciones, CpuConTipo', Protocolo'
  PROVE  CInv'
<1>1. TiposDeControl' BY DEF CInv, TiposDeControl, CpuConTipo
<1>2. ListosEnReady' /\ EjecutaElDelKernel' BY MismosEstados
<1>3. QED BY <1>1, <1>2 DEF CInv

\* The CPU that executes has the process of the burst, and nothing is on its way.
LEMMA CpuEjecuta ==
  ASSUME CInv, cpu.fase = "ejecuta" \/ (cpu.fase = "chequea" /\ ~cpu.desalojo)
  PROVE  /\ kernel # Nadie /\ kernel \in Procesos /\ desalojos = <<>> /\ dispatch = <<>>
         /\ cpu.pid = kernel /\ cpu.desalojo = FALSE
<1>1. kernel \in Procesos \cup {Nadie} /\ cpu.desalojo \in BOOLEAN BY DEF CInv, TiposDeControl
<1>2. kernel # Nadie /\ desalojos = <<>> /\ dispatch = <<>> /\ cpu.pid = kernel /\ ~cpu.desalojo
  BY DEF CInv, Protocolo, SinRafaga, Enviada, EnMarcha, Devuelta, CpuLibera, CpuColgada, CpuPide,
    Trabada, Nada
<1>3. QED BY <1>1, <1>2

\* The control invariant gives the type of what the CPU holds.
LEMMA CpuTipo == ASSUME CInv PROVE CpuConTipo
BY DEF CInv, TiposDeControl, CpuConTipo

\* Receiving a process keeps it: the burst is now in the CPU.
LEMMA PasoRecibirProceso == ASSUME CInv, RecibirProceso PROVE CInv'
<1>1. /\ cpu.fase = "libre" /\ dispatch # <<>> /\ dispatch' = Tail(dispatch)
      /\ cpu' = [fase |-> "ejecuta", pid |-> Head(dispatch).pid,
                 registros |-> LeerRegistros(Head(dispatch).registros), desalojo |-> FALSE]
      /\ UNCHANGED <<pcb, ordenes, listos, kernel, quantum, desalojos, interrupt, interrupciones>>
  BY DEF RecibirProceso, FaseInicial, nucleo, senales
<1>2. kernel # Nadie /\ desalojos = <<>> /\ EnCamino
  BY <1>1 DEF CInv, Protocolo, SinRafaga, Enviada, EnMarcha, Devuelta, CpuPide, Trabada, Nada
<1>3. Head(dispatch) = dispatch[1] /\ dispatch' = <<>> /\ dispatch[1].pid = kernel
  BY <1>1, <1>2, Sockets DEF EnCamino, Manda
<1>4. kernel \in Procesos BY <1>2 DEF CInv, TiposDeControl
<1> DEFINE r == LeerRegistros(Head(dispatch).registros)
<1>5. cpu' = [fase |-> "ejecuta", pid |-> kernel, registros |-> r, desalojo |-> FALSE] BY <1>1, <1>3
<1> HIDE DEF r
<1>6. CpuConTipo' BY <1>4, <1>5 DEF CpuConTipo, Fases
<1>7. Protocolo' BY <1>1, <1>2, <1>3, <1>5 DEF Protocolo, EnMarcha, Nada
<1>8. QED BY <1>1, <1>6, <1>7, PasoDeLaCpu

\* An instruction that needs nobody goes on to the interrupts.
LEMMA PasoSigue ==
  ASSUME CInv, cpu.fase = "ejecuta", NEW fase \in {"chequea", "caida"}, NEW r,
         cpu' = [cpu EXCEPT !.fase = fase, !.registros = r],
         UNCHANGED <<pcb, ordenes, listos, kernel, quantum, dispatch, desalojos, interrupt, interrupciones>>
  PROVE  CInv'
<1>1. CpuConTipo BY CpuTipo
<1>2. /\ CpuConTipo' /\ cpu'.fase = fase /\ cpu'.pid = cpu.pid /\ cpu'.desalojo = cpu.desalojo
  BY <1>1 DEF CpuConTipo, Fases
<1>3. Protocolo' BY <1>2, CpuEjecuta DEF Protocolo, EnMarcha, Nada, Trabada
<1>4. QED BY <1>2, <1>3, PasoDeLaCpu

\* The instructions that send a message: the burst ends or an answer is due.
LEMMA PasoManda ==
  ASSUME CInv, cpu.fase = "ejecuta", NEW m, desalojos' = Append(desalojos, m), CpuConTipo',
         cpu'.pid = cpu.pid,
         \/ m.op \in InstruccionesRecurso /\ cpu'.fase = "pide" /\ cpu'.desalojo = cpu.desalojo
         \/ m.op \notin InstruccionesRecurso /\ cpu'.fase = "chequea" /\ cpu'.desalojo = TRUE,
         UNCHANGED <<pcb, ordenes, listos, kernel, quantum, dispatch, interrupt, interrupciones>>
  PROVE  CInv'
<1>1. desalojos' = <<m>> BY CpuEjecuta, Sockets
<1>2. Len(desalojos') = 1 /\ desalojos'[1] = m /\ desalojos' = <<desalojos'[1]>> BY <1>1, Sockets
<1>3. Protocolo' BY <1>2, CpuEjecuta DEF Protocolo, Devuelta, Nada, CpuPide, CpuLibera
<1>4. QED BY <1>3, PasoDeLaCpu

\* After an instruction that evicts, the CPU keeps the process until it checks the
\* interrupts.
LEMMA SaleConTipo ==
  ASSUME CInv, Sale
  PROVE  CpuConTipo' /\ cpu'.pid = cpu.pid /\ cpu'.fase = "chequea" /\ cpu'.desalojo = TRUE
<1>1. CpuConTipo BY CpuTipo
<1> DEFINE r == RMas
<1>2. cpu' = [cpu EXCEPT !.fase = "chequea", !.registros = r, !.desalojo = TRUE] BY DEF Sale
<1> HIDE DEF r
<1>3. QED BY <1>1, <1>2 DEF CpuConTipo, Fases

\* Every instruction keeps the control invariant.
LEMMA PasoInstruccion == ASSUME CInv, Instruccion PROVE CInv'
<1>0. ASSUME NEW ops, Ejecuta(ops)
      PROVE  /\ cpu.fase = "ejecuta" /\ I.op \in ops
             /\ UNCHANGED <<pcb, ordenes, listos, kernel, quantum, dispatch, interrupt, interrupciones>>
  BY <1>0 DEF Ejecuta, nucleo, senales
<1>1. ASSUME NEW ops, Ejecuta(ops), NEW r, Sigue(r) PROVE CInv'
  BY <1>0, <1>1, PasoSigue DEF Sigue
<1>2. CASE EjecutaSet BY <1>1, <1>2 DEF EjecutaSet
<1>3. CASE EjecutaAritmetica BY <1>1, <1>3 DEF EjecutaAritmetica
<1>4. CASE Cae
  <2>1. CpuConTipo BY CpuTipo
  <2>2. cpu.fase = "ejecuta" /\ cpu' = [cpu EXCEPT !.fase = "caida"] /\ desalojos' = desalojos
        /\ UNCHANGED <<pcb, ordenes, listos, kernel, quantum, dispatch, interrupt, interrupciones>>
    BY <1>0, <1>4 DEF Cae
  <2>3. cpu' = [cpu EXCEPT !.fase = "caida", !.registros = cpu.registros]
    BY <2>1, <2>2 DEF CpuConTipo
  <2>4. QED BY <2>2, <2>3, PasoSigue
<1>5. CASE EjecutaJnz BY <1>1, <1>5 DEF EjecutaJnz
<1>6. CASE MovIn BY <1>1, <1>6 DEF MovIn
<1>7. CASE MovOut BY <1>1, <1>7 DEF MovOut
<1>8. CASE CopyString BY <1>1, <1>8 DEF CopyString
<1>9. CASE EjecutaExit
  <2> DEFINE m == [op |-> "EXIT_PROCESO", registros |-> AgregarRegistros(RMas), piezas |-> <<>>]
  <2>1. Ejecuta({"EXIT"}) /\ desalojos' = Append(desalojos, m) /\ Sale
    BY <1>9 DEF EjecutaExit, Mensaje
  <2>2. m.op \notin InstruccionesRecurso BY DEF InstruccionesRecurso
  <2> HIDE DEF m
  <2>3. QED BY <1>0, <2>1, <2>2, SaleConTipo, PasoManda
<1>10. CASE EjecutaIO
  <2> DEFINE z == IF I.op = "IO_GEN_SLEEP" THEN <<>> ELSE Mmu(cpu.pid, RMas[I.r], RMas[I.s])
             m == [op |-> I.op, registros |-> AgregarRegistros(RMas), piezas |-> z]
  <2>1. Ejecuta(InstruccionesIO) /\ desalojos' = Append(desalojos, m) /\ Sale
    BY <1>10 DEF EjecutaIO, Mensaje
  <2>2. m.op = I.op OBVIOUS
  <2>3. I.op \in InstruccionesIO BY <1>0, <2>1
  <2> HIDE DEF m
  <2>4. m.op \notin InstruccionesRecurso BY <2>2, <2>3 DEF InstruccionesRecurso, InstruccionesIO
  <2>5. QED BY <1>0, <2>1, <2>4, SaleConTipo, PasoManda
<1>11. CASE EjecutaRecurso
  <2> DEFINE r == RMas
             m == [op |-> I.op, registros |-> AgregarRegistros(RMas), piezas |-> <<>>]
  <2>1. Ejecuta(InstruccionesRecurso) /\ desalojos' = Append(desalojos, m)
        /\ cpu' = [cpu EXCEPT !.fase = "pide", !.registros = r]
    BY <1>11 DEF EjecutaRecurso, Mensaje
  <2>2. m.op = I.op OBVIOUS
  <2>3. m.op \in InstruccionesRecurso BY <1>0, <2>1, <2>2
  <2> HIDE DEF m, r
  <2>4. CpuConTipo BY CpuTipo
  <2>5. CpuConTipo' /\ cpu'.fase = "pide" /\ cpu'.pid = cpu.pid /\ cpu'.desalojo = cpu.desalojo
    BY <2>1, <2>4 DEF CpuConTipo, Fases
  <2>6. QED BY <1>0, <2>1, <2>3, <2>5, PasoManda
<1>12. QED BY <1>2, <1>3, <1>4, <1>5, <1>6, <1>7, <1>8, <1>9, <1>10, <1>11 DEF Instruccion

\* The answer to WAIT and SIGNAL keeps it, also one out of step.
LEMMA PasoRecibirRespuesta == ASSUME CInv, RecibirRespuesta PROVE CInv'
<1>1. /\ cpu.fase = "pide" /\ dispatch # <<>> /\ dispatch' = Tail(dispatch)
      /\ UNCHANGED <<pcb, ordenes, listos, kernel, quantum, desalojos, interrupt, interrupciones>>
  BY DEF RecibirRespuesta, nucleo, senales
<1>2. CpuConTipo BY CpuTipo
<1>3. CASE Uno("DESALOJAR") /\ kernel = Nadie /\ desalojos = <<>>
  <2>1. Head(dispatch) = dispatch[1] /\ dispatch' = <<>> /\ dispatch[1].op = "DESALOJAR"
    BY <1>1, <1>3, Sockets DEF Uno
  <2>2. cpu' = [cpu EXCEPT !.fase = "chequea", !.desalojo = TRUE] BY <2>1 DEF RecibirRespuesta
  <2>3. CpuConTipo' /\ CpuLibera' BY <1>2, <2>2 DEF CpuConTipo, Fases, CpuLibera
  <2>4. Protocolo' BY <1>1, <1>3, <2>1, <2>3 DEF Protocolo, SinRafaga, Nada
  <2>5. QED BY <1>1, <2>3, <2>4, PasoDeLaCpu
<1>4. CASE EnCamino /\ kernel # Nadie /\ desalojos = <<>>
  <2>1. Head(dispatch) = dispatch[1] /\ dispatch' = <<>> /\ dispatch[1].op = "EJECUTAR_PROCESO"
    BY <1>1, <1>4, Sockets DEF EnCamino, Manda
  <2>2. cpu' = [cpu EXCEPT !.fase = "desfasada"] BY <2>1 DEF RecibirRespuesta
  <2>3. CpuConTipo' /\ Trabada' BY <1>2, <2>2 DEF CpuConTipo, Fases, Trabada
  <2>4. Protocolo' BY <1>1, <1>4, <2>1, <2>3 DEF Protocolo, EnMarcha, Nada
  <2>5. QED BY <1>1, <2>3, <2>4, PasoDeLaCpu
<1>5. CASE EnCaminoDetras /\ kernel # Nadie /\ desalojos = <<>>
  <2> DEFINE b == dispatch[2]
  <2>1. /\ Head(dispatch) = dispatch[1] /\ dispatch' = <<b>> /\ dispatch[1].op = "DESALOJAR"
        /\ b.op = "EJECUTAR_PROCESO" /\ b.pid = kernel
    BY <1>1, <1>5, Sockets DEF EnCaminoDetras, Manda
  <2> HIDE DEF b
  <2>2. cpu' = [cpu EXCEPT !.fase = "chequea", !.desalojo = TRUE] BY <2>1 DEF RecibirRespuesta
  <2>3. CpuConTipo' /\ CpuLibera' BY <1>2, <2>2 DEF CpuConTipo, Fases, CpuLibera
  <2>4. EnCamino' BY <1>1, <2>1, Sockets DEF EnCamino, Manda
  <2>5. Protocolo' BY <1>1, <1>5, <2>3, <2>4 DEF Protocolo, Enviada
  <2>6. QED BY <1>1, <2>3, <2>5, PasoDeLaCpu
<1>6. CASE Uno("CONTINUAR") /\ CpuPide /\ cpu.pid = kernel /\ kernel # Nadie /\ desalojos = <<>>
  <2>1. Head(dispatch) = dispatch[1] /\ dispatch' = <<>> /\ dispatch[1].op = "CONTINUAR"
    BY <1>1, <1>6, Sockets DEF Uno
  <2>2. cpu' = [cpu EXCEPT !.fase = "chequea"] BY <2>1 DEF RecibirRespuesta
  <2>3. /\ CpuConTipo' /\ cpu'.fase = "chequea" /\ cpu'.pid = cpu.pid /\ cpu'.desalojo = cpu.desalojo
    BY <1>2, <2>2 DEF CpuConTipo, Fases
  <2>4. Protocolo' BY <1>1, <1>6, <2>1, <2>3 DEF Protocolo, EnMarcha, Nada, CpuPide
  <2>5. QED BY <1>1, <2>3, <2>4, PasoDeLaCpu
<1>7. QED
  BY <1>1, <1>3, <1>4, <1>5, <1>6
  DEF CInv, Protocolo, SinRafaga, Enviada, EnMarcha, Devuelta, Nada, CpuPide, Trabada

\* Checking the interrupts keeps it: the burst goes on, or its reason is on its
\* way.
LEMMA PasoCheckInterrupt == ASSUME CInv, CheckInterrupt PROVE CInv'
<1>1. /\ cpu.fase = "chequea" /\ interrupciones' \subseteq interrupciones
      /\ UNCHANGED <<pcb, ordenes, listos, kernel, quantum, dispatch, interrupt>>
  BY DEF CheckInterrupt, nucleo
<1>2. CpuConTipo BY CpuTipo
<1>3. ASSUME cpu' = EnLibre PROVE CpuConTipo' /\ CpuLibera'
  BY <1>3 DEF EnLibre, CpuConTipo, CpuLibera, Fases
<1>4. CASE cpu.desalojo
  <2>1. cpu' = EnLibre /\ desalojos' = desalojos BY <1>4 DEF CheckInterrupt
  <2>2. CpuConTipo' /\ CpuLibera' BY <1>3, <2>1
  <2>3. Protocolo'
    <3>1. CASE SinRafaga
      BY <1>1, <2>1, <2>2, <3>1 DEF Protocolo, SinRafaga, Nada, CpuPide
    <3>2. CASE Enviada
      BY <1>1, <2>1, <2>2, <3>2 DEF Protocolo, Enviada, EnCamino, Manda, CpuPide
    <3>3. CASE Devuelta
      BY <1>1, <2>1, <2>2, <3>3 DEF Protocolo, Devuelta, Nada, CpuPide
    <3>4. ~EnMarcha BY <1>1, <1>4 DEF EnMarcha, Trabada, CpuPide
    <3>5. QED BY <3>1, <3>2, <3>3, <3>4 DEF CInv, Protocolo
  <2>4. QED BY <1>1, <2>2, <2>3, PasoDeLaCpu
<1>5. CASE ~cpu.desalojo /\ Mias = {}
  <2>1. cpu' = [cpu EXCEPT !.fase = "ejecuta"] /\ desalojos' = desalojos
    BY <1>5 DEF CheckInterrupt
  <2>2. /\ CpuConTipo' /\ cpu'.fase = "ejecuta" /\ cpu'.pid = cpu.pid /\ cpu'.desalojo = cpu.desalojo
    BY <1>2, <2>1 DEF CpuConTipo, Fases
  <2>3. Protocolo' BY <1>1, <1>5, <2>1, <2>2, CpuEjecuta DEF Protocolo, EnMarcha, Nada
  <2>4. QED BY <1>1, <2>2, <2>3, PasoDeLaCpu
<1>6. CASE ~cpu.desalojo /\ Mias # {}
  <2> DEFINE m == [op |-> Primera(Mias), registros |-> AgregarRegistros(R), piezas |-> <<>>]
  <2>1. cpu' = EnLibre /\ desalojos' = Append(desalojos, m) BY <1>6 DEF CheckInterrupt
  <2>2. m.op \notin InstruccionesRecurso BY DEF Primera, InstruccionesRecurso
  <2> HIDE DEF m
  <2>3. CpuConTipo' /\ CpuLibera' BY <1>3, <2>1
  <2>4. desalojos' = <<m>> BY <1>1, <1>6, <2>1, CpuEjecuta, Sockets
  <2>5. Len(desalojos') = 1 /\ desalojos'[1] = m /\ desalojos' = <<desalojos'[1]>>
    BY <2>4, Sockets
  <2>6. Protocolo'
    BY <1>1, <1>6, <2>2, <2>3, <2>5, CpuEjecuta DEF Protocolo, Devuelta, Nada
  <2>7. QED BY <1>1, <2>3, <2>6, PasoDeLaCpu
<1>7. QED BY <1>4, <1>5, <1>6

-----------------------------------------------------------------------------
(* The theorems *)

\* Every step keeps the control invariant.
LEMMA CInvPaso == ASSUME CInv, [Next]_vars PROVE CInv'
<1>1. CASE Kernel
  BY <1>1, PasoPlanificar, PasoRecibeFin, PasoRecibeFinQuantum, PasoRecibeIO,
    PasoRecibeRecursoContinua, PasoRecibeRecursoDesaloja, PasoDesbloquear
  DEF Kernel
<1>2. CASE ControlQuantum BY <1>2, PasoControlQuantum
<1>3. CASE Dispatch
  BY <1>3, PasoRecibirProceso, PasoInstruccion, PasoRecibirRespuesta, PasoCheckInterrupt
  DEF Dispatch
<1>4. CASE RecibirInterrupcion BY <1>4, PasoRecibirInterrupcion
<1>5. CASE \E p \in Procesos : Dispositivo(p) BY <1>5, PasoDispositivo
<1>6. CASE \E p \in Finalizables : FinalizarEnEjecucion(p) \/ FinalizarFuera(p)
  BY <1>6, PasoFinalizarEnEjecucion, PasoFinalizarFuera
<1>7. CASE UNCHANGED vars
  <2>1. UNCHANGED <<pcb, ordenes, listos, kernel, quantum, dispatch, desalojos, interrupt,
                    interrupciones, cpu>>
    BY <1>7 DEF vars
  <2>2. TiposDeControl' BY <2>1 DEF CInv, TiposDeControl
  <2>3. ListosEnReady' /\ EjecutaElDelKernel' BY <2>1, MismosEstados
  <2>4. Protocolo' BY <2>1, ProtocoloQuieto
  <2>5. QED BY <2>2, <2>3, <2>4 DEF CInv
<1>8. QED BY <1>1, <1>2, <1>3, <1>4, <1>5, <1>6, <1>7 DEF Next

\* The control invariant holds in every state.
LEMMA InvarianteCpu == Spec => []CInv
<1>1. Init => CInv BY CInvInicial
<1>2. CInv /\ [Next]_vars => CInv' BY CInvPaso
<1>3. QED BY <1>1, <1>2, PTL DEF Spec

\* Kernel, sockets and CPU are always in one of the moments of the protocol
\* (enviar_proceso_a_cpu, recibir_proceso_desalojado, check_interrupt): the
\* burst of the process in EXEC is on its way, in the CPU or on its way back,
\* never in two of them.
THEOREM UnaSolaRafaga == Spec => []Protocolo
<1>1. CInv => Protocolo BY DEF CInv
<1>2. QED BY <1>1, InvarianteCpu, PTL

\* The CPU stopped in the receive of WAIT or SIGNAL is answered, or its process
\* was ended by the user while it waited (recibir_proceso_desalojado).
THEOREM EsperaSinRespuesta == Spec => []SinRespuestaSoloPorPedido
<1>1. CInv => SinRespuestaSoloPorPedido
  <2> SUFFICES ASSUME CInv, cpu.fase = "pide"
               PROVE  \/ kernel = cpu.pid /\ desalojos # <<>>
                      \/ dispatch # <<>> /\ Head(dispatch).op \in {"CONTINUAR", "DESALOJAR"}
                      \/ pcb[cpu.pid].pedido /\ pcb[cpu.pid].estado = "EXIT"
    BY DEF SinRespuestaSoloPorPedido
  <2>1. CASE SinRafaga
    BY <2>1, Sockets DEF SinRafaga, Nada, Uno, CpuLibera, CpuColgada
  <2>2. CASE Enviada
    BY <2>2, Sockets DEF Enviada, EnCamino, EnCaminoDetras, CpuLibera, CpuColgada
  <2>3. CASE EnMarcha BY <2>3, Sockets DEF EnMarcha, Uno, Trabada
  <2>4. CASE Devuelta BY <2>4, Sockets DEF Devuelta, CpuLibera
  <2>5. QED BY <2>1, <2>2, <2>3, <2>4 DEF CInv, Protocolo
<1>2. QED BY <1>1, InvarianteCpu, PTL

\* An interrupt that asks for the end of a process leaves list_interrupciones
\* only with an eviction that carries it, or after the process left the CPU by
\* itself (check_interrupt).
THEOREM InterrupcionNoSePierde == Spec => FinalizarNoSePierde
<1> DEFINE Pierde(p) == /\ <<p, "FINALIZAR_PROCESO">> \in interrupciones
                        /\ <<p, "FINALIZAR_PROCESO">> \notin interrupciones'
           Llega(p) == /\ cpu.pid = p
                       /\ \/ cpu.desalojo
                          \/ /\ Len(desalojos') > Len(desalojos)
                             /\ desalojos'[Len(desalojos')].op = "FINALIZAR_PROCESO"
<1>1. ASSUME CInv, [Next]_vars, NEW p \in Procesos, Pierde(p) PROVE Llega(p)
  <2>1. CheckInterrupt
    BY <1>1
    DEF Next, vars, Kernel, Planificar, RecibeFin, RecibeFinQuantum, RecibeIO, RecibeRecursoContinua,
      RecibeRecursoDesaloja, Recibe, Desbloquear, ControlQuantum, Dispatch, RecibirProceso, Instruccion,
      EjecutaSet, EjecutaAritmetica, Cae, EjecutaJnz, MovIn, MovOut, CopyString, EjecutaExit, EjecutaIO,
      EjecutaRecurso, Ejecuta, RecibirRespuesta, RecibirInterrupcion, Dispositivo, IoStdinRead,
      IoStdoutWrite, IoGenSleep, Orden, FinalizarEnEjecucion, FinalizarFuera, senales
  <2>2. <<p, "FINALIZAR_PROCESO">> \in Mias BY <1>1, <2>1 DEF CheckInterrupt
  <2>3. cpu.pid = p BY <2>2 DEF Mias
  <2>4. CASE ~cpu.desalojo
    <3> DEFINE m == [op |-> Primera(Mias), registros |-> AgregarRegistros(R), piezas |-> <<>>]
    <3>1. cpu.fase = "chequea" /\ desalojos' = Append(desalojos, m)
      BY <2>1, <2>2, <2>4 DEF CheckInterrupt
    <3>2. Primera(Mias) = "FINALIZAR_PROCESO"
      <4>1. PICK x \in Mias : x = <<p, "FINALIZAR_PROCESO">> BY <2>2
      <4>2. x[2] = "FINALIZAR_PROCESO" BY <4>1
      <4>3. QED BY <4>2 DEF Primera
    <3>3. m.op = "FINALIZAR_PROCESO" BY <3>2
    <3> HIDE DEF m
    <3>4. desalojos = <<>> BY <1>1, <2>4, <3>1, CpuEjecuta
    <3>5. desalojos' = <<m>> BY <3>1, <3>4, Sockets
    <3>6. Len(desalojos') = 1 /\ desalojos'[1] = m /\ Len(desalojos) = 0
      BY <3>4, <3>5, Mensajes
    <3>7. Len(desalojos') > Len(desalojos) /\ desalojos'[Len(desalojos')].op = "FINALIZAR_PROCESO"
      BY <3>3, <3>6
    <3>8. QED BY <2>3, <3>7
  <2>5. QED BY <2>3, <2>4
<1>2. CInv /\ [Next]_vars =>
        [\A p \in Procesos :
           (<<p, "FINALIZAR_PROCESO">> \in interrupciones /\ <<p, "FINALIZAR_PROCESO">> \notin interrupciones')
           => /\ cpu.pid = p
              /\ \/ cpu.desalojo
                 \/ Len(desalojos') > Len(desalojos) /\ desalojos'[Len(desalojos')].op = "FINALIZAR_PROCESO"]_vars
  BY <1>1
<1>3. QED BY <1>2, InvarianteCpu, PTL DEF Spec, FinalizarNoSePierde

-----------------------------------------------------------------------------
(* Numbers: here the data begin, which ask nothing of the processes *)

HIDE ProcesosFinitos

\* A finite set of naturals that is not empty has a minimum.
LEMMA MinimoFinito ==
  ASSUME NEW S \in SUBSET Nat, IsFiniteSet(S), S # {}
  PROVE  Min(S) \in S /\ \A y \in S : Min(S) <= y
<1> DEFINE Hasta(x) == {y \in S : y <= x}
           T == {Hasta(x) : x \in S}
           O == StrictSubsetOrdering(S)
<1>1. IsWellFoundedOn(O, FiniteSubsetsOf(S)) BY FS_StrictSubsetOrderingWellFounded
<1>2. T \subseteq FiniteSubsetsOf(S) /\ T # {}
  <2>1. \A x \in S : IsFiniteSet(Hasta(x)) BY FS_Subset
  <2>2. QED BY <2>1 DEF FiniteSubsetsOf
<1>3. PICK h \in T : \A g \in T : ~ (<<g, h>> \in O)
  <2> HIDE DEF T, O
  <2>1. QED BY <1>1, <1>2, WFMin
<1>4. PICK x \in S : h = Hasta(x) OBVIOUS
<1>5. \A y \in S : x <= y
  <2> SUFFICES ASSUME NEW y \in S, y < x PROVE FALSE OBVIOUS
  <2>1. \A z \in S : z <= y => z <= x OBVIOUS
  <2>2. x <= x /\ ~ (x <= y) OBVIOUS
  <2>3. Hasta(y) \subseteq Hasta(x) /\ x \in Hasta(x) /\ x \notin Hasta(y) BY <2>1, <2>2
  <2>4. <<Hasta(y), Hasta(x)>> \in O BY <2>3 DEF StrictSubsetOrdering
  <2>5. QED BY <2>4, <1>3, <1>4
<1>6. QED BY <1>5 DEF Min

\* Induction, for a set of numbers.
LEMMA Induccion ==
  ASSUME NEW S, 0 \in S, \A n \in Nat : n \in S => n + 1 \in S
  PROVE  \A n \in Nat : n \in S
<1> SUFFICES ASSUME NEW n \in Nat, n \notin S PROVE FALSE OBVIOUS
<1> DEFINE F == {k \in 0 .. n : k \notin S}
           m == Min(F)
<1>1. IsFiniteSet(F) /\ F \in SUBSET Nat /\ n \in F
  <2>1. IsFiniteSet(0 .. n) BY FS_Interval
  <2>2. QED BY <2>1, FS_Subset
<1>2. m \in F /\ \A y \in F : m <= y BY <1>1, MinimoFinito
<1> HIDE DEF m
<1>3. m # 0 /\ m \in Nat /\ m <= n BY <1>2
<1>4. m - 1 \in 0 .. n /\ m - 1 \in Nat /\ ~(m <= m - 1) /\ m - 1 + 1 = m BY <1>3
<1>5. m - 1 \notin F BY <1>2, <1>4
<1>6. m - 1 \in S BY <1>4, <1>5
<1>7. QED BY <1>2, <1>4, <1>6

\* The sequence that starts with v and in which f[n + 1] is h[n][f[n]].
Sucesion(f, V, v, h) ==
  f \in [Nat -> V] /\ f[0] = v /\ \A n \in Nat : f[n + 1] = h[n][f[n]]

\* A function is determined by its first value and what comes after each one.
LEMMA Recursion ==
  ASSUME NEW V, NEW v, v \in V, NEW h, h \in [Nat -> [V -> V]]
  PROVE  \E f : Sucesion(f, V, v, h)
<1> DEFINE A(f, n) == f \in [0 .. n -> V] /\ f[0] = v /\ \A k \in 0 .. n - 1 : f[k + 1] = h[k][f[k]]
<1>1. \A n \in Nat : \E f : A(f, n)
  <2> DEFINE S == {n \in Nat : \E f : A(f, n)}
  <2>1. 0 \in S
    <3>1. A([k \in 0 .. 0 |-> v], 0) OBVIOUS
    <3>2. QED BY <3>1
  <2>2. ASSUME NEW n \in Nat, n \in S PROVE n + 1 \in S
    <3>1. PICK f : A(f, n) BY <2>2
    <3> DEFINE g == [k \in 0 .. n + 1 |-> IF k <= n THEN f[k] ELSE h[n][f[n]]]
    <3>2. n + 1 \in Nat /\ n \in 0 .. n /\ ~(n + 1 <= n) /\ n + 1 \in 0 .. n + 1 OBVIOUS
    <3>3. f[n] \in V /\ h[n][f[n]] \in V BY <3>1, <3>2
    <3>4. g \in [0 .. n + 1 -> V] BY <3>1, <3>3
    <3>5. \A k \in 0 .. n + 1 - 1 : g[k + 1] = h[k][g[k]]
      <4> TAKE k \in 0 .. n + 1 - 1
      <4>1. k \in 0 .. n + 1 /\ k + 1 \in 0 .. n + 1 /\ g[k] = f[k] OBVIOUS
      <4>2. CASE k = n BY <3>2, <4>1, <4>2
      <4>3. CASE k # n
        <5>1. k \in 0 .. n - 1 /\ k + 1 <= n BY <4>3
        <5>2. QED BY <3>1, <4>1, <5>1
      <4>4. QED BY <4>2, <4>3
    <3>6. g[0] = v BY <3>1
    <3> HIDE DEF g
    <3>7. A(g, n + 1) BY <3>4, <3>5, <3>6
    <3>8. QED BY <3>2, <3>7
  <2> HIDE DEF S
  <2>3. \A n \in Nat : n \in S BY <2>1, <2>2, Induccion
  <2>4. QED BY <2>3 DEF S
<1>2. \A k \in Nat : \A m, n \in Nat : \A f, g :
         k <= m /\ k <= n /\ A(f, m) /\ A(g, n) => f[k] = g[k]
  <2> DEFINE S == {k \in Nat : \A m, n \in Nat : \A f, g :
                                 k <= m /\ k <= n /\ A(f, m) /\ A(g, n) => f[k] = g[k]}
  <2>1. 0 \in S OBVIOUS
  <2>2. ASSUME NEW k \in Nat, k \in S PROVE k + 1 \in S
    <3>1. ASSUME NEW m \in Nat, NEW n \in Nat, NEW f, NEW g,
                 k + 1 <= m, k + 1 <= n, A(f, m), A(g, n)
          PROVE  f[k + 1] = g[k + 1]
      <4>1. k <= m /\ k <= n /\ k \in 0 .. m - 1 /\ k \in 0 .. n - 1 BY <3>1
      <4>2. f[k + 1] = h[k][f[k]] /\ g[k + 1] = h[k][g[k]] BY <3>1, <4>1
      <4> HIDE DEF A
      <4>3. f[k] = g[k] BY <2>2, <3>1, <4>1
      <4>4. QED BY <4>2, <4>3
    <3> HIDE DEF A
    <3>2. QED BY <3>1
  <2> HIDE DEF S
  <2>3. \A k \in Nat : k \in S BY <2>1, <2>2, Induccion
  <2>4. QED BY <2>3 DEF S
<1> DEFINE a(n) == CHOOSE f : A(f, n)
           f == [n \in Nat |-> a(n)[n]]
<1>3. \A n \in Nat : A(a(n), n) BY <1>1
<1> HIDE DEF a
<1>4. f \in [Nat -> V]
  <2> SUFFICES ASSUME NEW n \in Nat PROVE a(n)[n] \in V OBVIOUS
  <2>1. a(n) \in [0 .. n -> V] /\ n \in 0 .. n BY <1>3
  <2>2. QED BY <2>1
<1>5. f[0] = v BY <1>3
<1>6. ASSUME NEW n \in Nat PROVE f[n + 1] = h[n][f[n]]
  <2>1. n + 1 \in Nat /\ n \in 0 .. n + 1 - 1 /\ n <= n + 1 /\ n <= n OBVIOUS
  <2>2. a(n + 1)[n + 1] = h[n][a(n + 1)[n]] BY <1>3, <2>1
  <2>3. a(n + 1)[n] = a(n)[n]
    <3>1. A(a(n + 1), n + 1) /\ A(a(n), n) BY <1>3, <2>1
    <3> HIDE DEF A
    <3>2. QED BY <1>2, <2>1, <3>1
  <2>4. QED BY <2>1, <2>2, <2>3
<1> HIDE DEF f
<1>7. Sucesion(f, V, v, h) BY <1>4, <1>5, <1>6 DEF Sucesion
<1>8. QED BY <1>7

\* The powers of BASE, which count the values of n bytes, are positive.
LEMMA Potencias ==
  /\ Potencia[0] = 1
  /\ \A n \in Nat : Potencia[n] \in Nat \ {0} /\ Potencia[n + 1] = BASE * Potencia[n]
<1> DEFINE P == Nat \ {0}
           h == [n \in Nat |-> [x \in P |-> BASE * x]]
           E(f) == f = [n \in Nat |-> IF n = 0 THEN 1 ELSE BASE * f[n - 1]]
<1>1. h \in [Nat -> [P -> P]]
  <2>1. \A x \in P : BASE * x \in P BY AnchosPares
  <2>2. QED BY <2>1
<1>2. PICK f : Sucesion(f, P, 1, h)
  <2> HIDE DEF h, P
  <2>1. 1 \in P BY DEF P
  <2>2. QED BY <1>1, <2>1, Recursion
<1>3. f \in [Nat -> P] /\ f[0] = 1 /\ \A n \in Nat : f[n + 1] = BASE * f[n] BY <1>2 DEF Sucesion
<1>4. E(f)
  <2>1. \A n \in Nat : n # 0 => n - 1 \in Nat /\ n - 1 + 1 = n OBVIOUS
  <2>2. \A n \in Nat : f[n] = IF n = 0 THEN 1 ELSE BASE * f[n - 1] BY <1>3, <2>1
  <2>3. QED BY <1>3, <2>2
<1>5. E(Potencia) BY <1>4 DEF Potencia
<1> DEFINE S == {n \in Nat : Potencia[n] = f[n]}
<1>6. 0 \in S BY <1>3, <1>5
<1>7. ASSUME NEW n \in Nat, n \in S PROVE n + 1 \in S
  <2>1. n + 1 \in Nat /\ n + 1 # 0 /\ n + 1 - 1 = n OBVIOUS
  <2>2. Potencia[n + 1] = BASE * Potencia[n] BY <1>5, <2>1
  <2>3. QED BY <1>3, <1>7, <2>1, <2>2
<1>8. \A n \in Nat : n \in S
  <2> HIDE DEF S
  <2>1. QED BY <1>6, <1>7, Induccion
<1>9. QED BY <1>3, <1>8

-----------------------------------------------------------------------------
(* Division *)

\* Quotient and remainder of a natural number.
LEMMA Division ==
  ASSUME NEW x \in Nat, NEW m \in Nat \ {0}
  PROVE  x \div m \in Nat /\ x % m \in 0 .. m - 1 /\ x = m * (x \div m) + (x % m)
<1>1. m > 0 OBVIOUS
<1>2. x \div m \in Int /\ x % m \in 0 .. m - 1 /\ x = m * (x \div m) + (x % m) BY <1>1
<1>3. PICK q \in Int : q = x \div m BY <1>2
<1>4. PICK r \in 0 .. m - 1 : r = x % m BY <1>2
<1>5. x = m * q + r BY <1>2, <1>3, <1>4
<1>6. q >= 0
  <2> SUFFICES ASSUME q <= -1 PROVE FALSE OBVIOUS
  <2>1. m * q <= m * (-1) BY <1>1
  <2>2. QED BY <1>5, <2>1
<1>7. QED BY <1>2, <1>3, <1>6

\* Quotient and remainder are the only ones there are.
LEMMA CocienteUnico ==
  ASSUME NEW q, q \in Nat, NEW m, m \in Nat \ {0}, NEW r, r \in 0 .. m - 1, NEW x, x = m * q + r
  PROVE  x \div m = q /\ x % m = r
<1>1. x \in Nat
  <2>1. m * q \in Nat OBVIOUS
  <2>2. QED BY <2>1
<1>2. PICK c \in Nat : c = x \div m BY <1>1, Division
<1>3. PICK s \in 0 .. m - 1 : s = x % m BY <1>1, Division
<1>4. m * q + r = m * c + s BY <1>1, <1>2, <1>3, Division
<1>5. ~ (q < c)
  <2> SUFFICES ASSUME q + 1 <= c PROVE FALSE OBVIOUS
  <2>1. m * (q + 1) <= m * c OBVIOUS
  <2>2. m * (q + 1) = m * q + m OBVIOUS
  <2>3. m * q \in Nat /\ m * c \in Nat OBVIOUS
  <2>4. QED BY <1>4, <2>1, <2>2, <2>3
<1>6. ~ (c < q)
  <2> SUFFICES ASSUME c + 1 <= q PROVE FALSE OBVIOUS
  <2>1. m * (c + 1) <= m * q OBVIOUS
  <2>2. m * (c + 1) = m * c + m OBVIOUS
  <2>3. m * q \in Nat /\ m * c \in Nat OBVIOUS
  <2>4. QED BY <1>4, <2>1, <2>2, <2>3
<1>7. q = c BY <1>5, <1>6
<1>8. m * q = m * c BY <1>7
<1>9. r = s
  <2>1. m * q \in Nat OBVIOUS
  <2>2. QED BY <1>4, <1>8, <2>1
<1>10. QED BY <1>2, <1>3, <1>7, <1>9

\* Dividing by a product is dividing twice.
LEMMA DosDivisiones ==
  ASSUME NEW x \in Nat, NEW a \in Nat \ {0}, NEW b \in Nat \ {0},
         NEW c, c = b * a
  PROVE  x \div c = (x \div a) \div b
<1>1. PICK q \in Nat : q = x \div a BY Division
<1>2. PICK r \in 0 .. a - 1 : r = x % a BY Division
<1>3. x = a * q + r BY <1>1, <1>2, Division
<1>4. PICK s \in Nat : s = q \div b BY Division
<1>5. PICK t \in 0 .. b - 1 : t = q % b BY Division
<1>6. q = b * s + t BY <1>4, <1>5, Division
<1>7. b * a \in Nat \ {0} OBVIOUS
<1>8. x = (b * a) * s + (a * t + r)
  <2>1. a * q = a * (b * s) + a * t BY <1>6
  <2>2. a * (b * s) = (b * a) * s OBVIOUS
  <2>3. a * t \in Nat /\ (b * a) * s \in Nat /\ a * q \in Nat OBVIOUS
  <2>4. QED BY <1>3, <2>1, <2>2, <2>3
<1>9. a * t + r \in 0 .. (b * a) - 1
  <2>1. a * t <= a * (b - 1) OBVIOUS
  <2>2. a * (b - 1) = b * a - a OBVIOUS
  <2>3. a * t \in Nat /\ b * a \in Nat OBVIOUS
  <2>4. QED BY <2>1, <2>2, <2>3
<1>10. PICK y \in 0 .. (b * a) - 1 : y = a * t + r BY <1>9
<1>11. x = (b * a) * s + y BY <1>8, <1>10
<1>12. PICK m \in Nat \ {0} : m = b * a BY <1>7
<1>13. x \div m = s
  <2>1. x = m * s + y /\ y \in 0 .. m - 1 BY <1>11, <1>12
  <2>2. QED BY <2>1, CocienteUnico
<1>14. QED BY <1>1, <1>4, <1>12, <1>13

\* The product by a natural number is monotonic.
LEMMA Producto ==
  ASSUME NEW a \in Nat, NEW b \in Nat, NEW c \in Nat, a <= b
  PROVE  c * a \in Nat /\ c * b \in Nat /\ c * a <= c * b
OBVIOUS

-----------------------------------------------------------------------------
(* Bytes and values *)

\* The value of the last k bytes, for each k.
PorPasos(u, bytes, N) ==
  /\ \A k \in 0 .. N : u[k] \in Int
  /\ u[0] = 0 /\ u[N] = Valor(bytes)
  /\ \A k \in 0 .. N - 1 : u[k + 1] = bytes[N - k] + BASE * u[k]

\* cadenaAUint goes byte by byte: after k of them it has the value of the last k.
LEMMA ValorPorPasos ==
  ASSUME NEW bytes, NEW N \in Nat, Len(bytes) = N, \A k \in 1 .. N : bytes[k] \in Int
  PROVE  \E u : PorPasos(u, bytes, N)
<1> DEFINE h == [n \in Nat |-> [x \in Int |-> IF n < N THEN bytes[N - n] + BASE * x ELSE 0]]
           E(u) == u = [k \in 0 .. N |-> IF k = 0 THEN 0 ELSE bytes[N + 1 - k] + BASE * u[k - 1]]
           c == CHOOSE u : E(u)
<1>1. h \in [Nat -> [Int -> Int]]
  <2>1. \A n \in Nat : n < N => N - n \in 1 .. N OBVIOUS
  <2>2. \A n \in Nat : n < N => bytes[N - n] \in Int BY <2>1
  <2>3. \A x \in Int : BASE * x \in Int BY AnchosPares
  <2>4. QED BY <2>2, <2>3
<1>2. PICK f : Sucesion(f, Int, 0, h)
  <2> DEFINE V == Int
  <2>1. 0 \in V /\ h \in [Nat -> [V -> V]] BY <1>1
  <2> HIDE DEF h, V
  <2>2. \E f : Sucesion(f, V, 0, h) BY <2>1, Recursion
  <2>3. QED BY <2>2 DEF V
<1>3. f[0] = 0 /\ \A k \in Nat : f[k] \in Int BY <1>2 DEF Sucesion
<1>4. \A k \in 0 .. N - 1 : f[k + 1] = bytes[N - k] + BASE * f[k]
  <2> TAKE k \in 0 .. N - 1
  <2>1. k \in Nat /\ k < N OBVIOUS
  <2>2. f[k + 1] = h[k][f[k]] /\ f[k] \in Int BY <1>2, <2>1 DEF Sucesion
  <2>3. QED BY <2>1, <2>2
<1> HIDE DEF h
<1> DEFINE g == [k \in 0 .. N |-> f[k]]
<1>5. E(g)
  <2>1. ASSUME NEW k \in 0 .. N
        PROVE  g[k] = IF k = 0 THEN 0 ELSE bytes[N + 1 - k] + BASE * g[k - 1]
    <3>1. CASE k = 0 BY <1>3, <3>1
    <3>2. CASE k # 0
      <4>1. PICK l \in 0 .. N - 1 : l = k - 1 BY <3>2
      <4>2. l \in 0 .. N /\ k = l + 1 /\ N + 1 - k = N - l BY <4>1
      <4>3. g[k] = f[l + 1] /\ g[k - 1] = f[l] BY <4>1, <4>2
      <4>4. QED BY <1>4, <3>2, <4>2, <4>3
    <3>3. QED BY <3>1, <3>2
  <2>2. g = [k \in 0 .. N |-> g[k]] OBVIOUS
  <2> HIDE DEF g
  <2>3. QED BY <2>1, <2>2
<1>6. E(c) BY <1>5
<1>7. Valor(bytes) = c[N] BY DEF Valor
<1> HIDE DEF c, g
<1>8. c[0] = 0 BY <1>6
<1>9. \A k \in 0 .. N - 1 : c[k + 1] = bytes[N - k] + BASE * c[k]
  <2> TAKE k \in 0 .. N - 1
  <2>1. k + 1 \in 0 .. N /\ k + 1 # 0 /\ N + 1 - (k + 1) = N - k /\ k + 1 - 1 = k OBVIOUS
  <2>2. c[k + 1] = bytes[N + 1 - (k + 1)] + BASE * c[k + 1 - 1] BY <1>6, <2>1
  <2>3. QED BY <2>1, <2>2
<1>10. \A k \in 0 .. N : c[k] = f[k]
  <2> DEFINE S == {k \in Nat : k <= N => c[k] = f[k]}
  <2>1. 0 \in S BY <1>3, <1>8
  <2>2. ASSUME NEW k \in Nat, k \in S PROVE k + 1 \in S
    <3>1. CASE k + 1 <= N
      <4>1. k \in 0 .. N - 1 /\ k <= N BY <3>1
      <4>2. c[k] = f[k] BY <2>2, <4>1
      <4>3. c[k + 1] = f[k + 1] BY <1>4, <1>9, <4>1, <4>2
      <4>4. QED BY <4>3
    <3>2. QED BY <3>1
  <2> HIDE DEF S
  <2>3. \A k \in Nat : k \in S BY <2>1, <2>2, Induccion
  <2>4. QED BY <2>3 DEF S
<1>11. \A k \in 0 .. N : c[k] \in Int BY <1>3, <1>10
<1>12. QED BY <1>7, <1>8, <1>9, <1>11 DEF PorPasos

\* n bytes hold less than BASE ^ n.
LEMMA ValorAcotado ==
  ASSUME NEW bytes, NEW N \in Nat, Len(bytes) = N, \A k \in 1 .. N : bytes[k] \in 0 .. BASE - 1
  PROVE  Valor(bytes) \in 0 .. Potencia[N] - 1
<1>0. BASE \in Nat \ {0} BY AnchosPares
<1>1. \A k \in 1 .. N : bytes[k] \in Int BY <1>0
<1>a. PICK u : PorPasos(u, bytes, N) BY <1>1, ValorPorPasos
<1>2. /\ u[0] = 0 /\ u[N] = Valor(bytes)
      /\ \A k \in 0 .. N - 1 : u[k + 1] = bytes[N - k] + BASE * u[k]
  BY <1>a DEF PorPasos
<1> DEFINE S == {k \in Nat : k <= N => u[k] \in 0 .. Potencia[k] - 1}
<1>3. 0 \in S BY <1>2, Potencias
<1>4. ASSUME NEW k \in Nat, k \in S PROVE k + 1 \in S
  <2>1. CASE k + 1 <= N
    <3>1. k \in 0 .. N - 1 /\ k \in 0 .. N /\ N - k \in 1 .. N BY <2>1
    <3>a. Potencia[k] \in Nat /\ Potencia[k + 1] = BASE * Potencia[k] BY Potencias
    <3>2. u[k] \in 0 .. Potencia[k] - 1 BY <1>4, <3>1
    <3>3. PICK x \in Nat : x = u[k] BY <3>2, <3>a
    <3>4. PICK p \in Nat : p = Potencia[k] /\ x + 1 <= p BY <3>2, <3>a, <3>3
    <3>5. PICK b \in 0 .. BASE - 1 : b = bytes[N - k] BY <3>1
    <3>6. u[k + 1] = b + BASE * x BY <1>2, <3>1, <3>3, <3>5
    <3>7. BASE * (x + 1) <= BASE * p
      <4>1. PICK y \in Nat : y = x + 1 OBVIOUS
      <4>2. BASE * y <= BASE * p BY <1>0, <3>4, <4>1, Producto
      <4>3. QED BY <4>1, <4>2
    <3>8. BASE * (x + 1) = BASE * x + BASE BY <1>0
    <3>9. BASE * x \in Nat /\ BASE * p \in Nat BY <1>0
    <3>10. b + BASE * x \in 0 .. BASE * p - 1 BY <1>0, <3>7, <3>8, <3>9
    <3>11. QED BY <3>a, <3>4, <3>6, <3>10
  <2>2. QED BY <2>1
<1>5. \A k \in Nat : k \in S
  <2> HIDE DEF S
  <2>1. QED BY <1>3, <1>4, Induccion
<1>6. QED BY <1>2, <1>5

\* A value comes back from its bytes.
LEMMA ValorDeBytes ==
  ASSUME NEW n \in Nat, NEW v \in 0 .. Potencia[n] - 1
  PROVE  /\ \A k \in 1 .. n : EnBytes(v, n)[k] \in 0 .. BASE - 1
         /\ Len(EnBytes(v, n)) = n /\ Valor(EnBytes(v, n)) = v
<1>0. BASE \in Nat \ {0} /\ v \in Nat /\ \A k \in Nat : Potencia[k] \in Nat \ {0}
  BY AnchosPares, Potencias
<1> DEFINE q(k) == v \div Potencia[k]
           b == EnBytes(v, n)
<1>1. \A k \in Nat : q(k) \in Nat /\ q(k) % BASE \in 0 .. BASE - 1
  <2> TAKE k \in Nat
  <2>1. q(k) \in Nat BY <1>0, Division
  <2> HIDE DEF q
  <2>2. QED BY <1>0, <2>1, Division
<1>2. \A k \in 1 .. n : b[k] = q(k - 1) % BASE BY DEF EnBytes
<1>3. Len(b) = n
  <2>1. b = [k \in 1 .. n |-> (v \div Potencia[k - 1]) % BASE] BY DEF EnBytes
  <2> HIDE DEF b
  <2>2. QED BY <2>1
<1>4. \A k \in 1 .. n : b[k] \in 0 .. BASE - 1
  <2> TAKE k \in 1 .. n
  <2>1. k - 1 \in Nat OBVIOUS
  <2> HIDE DEF q, b
  <2>2. QED BY <1>1, <1>2, <2>1
<1>5. \A k \in Nat : q(k) = (q(k) % BASE) + BASE * q(k + 1)
  <2> TAKE k \in Nat
  <2>1. q(k + 1) = q(k) \div BASE
    <3>1. Potencia[k + 1] = BASE * Potencia[k] /\ Potencia[k] \in Nat \ {0} BY Potencias
    <3>2. PICK p \in Nat \ {0} : p = Potencia[k] BY <3>1
    <3>a. PICK c : c = BASE * p OBVIOUS
    <3>3. v \div c = (v \div p) \div BASE BY <1>0, <3>a, DosDivisiones
    <3>4. QED BY <3>1, <3>2, <3>3, <3>a
  <2>2. PICK x \in Nat : x = q(k) BY <1>1
  <2>3. x = BASE * (x \div BASE) + (x % BASE) BY <1>0, Division
  <2>4. PICK y \in Nat : y = x \div BASE BY <1>0, Division
  <2>5. PICK z \in Nat : z = x % BASE
    <3>1. x % BASE \in 0 .. BASE - 1 BY <1>0, Division
    <3>2. QED BY <1>0, <3>1
  <2> HIDE DEF q
  <2>6. x = BASE * y + z BY <2>3, <2>4, <2>5
  <2>7. BASE * y \in Nat BY <1>0
  <2>8. x = z + BASE * y BY <2>6, <2>7
  <2>9. q(k + 1) = y BY <2>1, <2>2, <2>4
  <2>10. QED BY <2>2, <2>5, <2>8, <2>9
<1>6. q(n) = 0
  <2>1. PICK p \in Nat \ {0} : p = Potencia[n] BY <1>0
  <2>2. v \in 0 .. p - 1 /\ v = p * 0 + v BY <2>1
  <2>3. v \div p = 0 BY <2>2, CocienteUnico
  <2>4. QED BY <2>1, <2>3
<1>7. q(0) = v
  <2>1. v = 1 * v + 0 /\ 0 \in 0 .. 1 - 1 BY <1>0
  <2>2. v \div 1 = v BY <1>0
  <2>3. QED BY <2>2, Potencias
<1> HIDE DEF q, b
<1>8. \A k \in 1 .. n : b[k] \in Int BY <1>0, <1>4
<1>a. PICK u : PorPasos(u, b, n) BY <1>3, <1>8, ValorPorPasos
<1>9. /\ u[0] = 0 /\ u[n] = Valor(b)
      /\ \A k \in 0 .. n - 1 : u[k + 1] = b[n - k] + BASE * u[k]
  BY <1>a DEF PorPasos
<1> DEFINE S == {k \in Nat : k <= n => u[k] = q(n - k)}
<1>10. 0 \in S BY <1>6, <1>9
<1>11. ASSUME NEW k \in Nat, k \in S PROVE k + 1 \in S
  <2>1. CASE k + 1 <= n
    <3>1. PICK m \in Nat : m = n - k - 1 BY <2>1
    <3>2. k \in 0 .. n - 1 /\ n - k = m + 1 /\ n - k \in 1 .. n /\ n - k - 1 = m /\ n - (k + 1) = m
      BY <2>1, <3>1
    <3>3. u[k] = q(m + 1) BY <1>11, <3>2
    <3>4. b[n - k] = q(m) % BASE BY <1>2, <3>2
    <3>5. u[k + 1] = (q(m) % BASE) + BASE * q(m + 1) BY <1>9, <3>2, <3>3, <3>4
    <3>6. u[k + 1] = q(n - (k + 1)) BY <1>5, <3>2, <3>5
    <3>7. QED BY <3>6
  <2>2. QED BY <2>1
<1>12. \A k \in Nat : k \in S
  <2> HIDE DEF S
  <2>1. QED BY <1>10, <1>11, Induccion
<1>13. u[n] = v
  <2>1. u[n] = q(n - n) /\ n - n = 0 BY <1>12
  <2>2. QED BY <1>7, <2>1
<1>14. QED BY <1>3, <1>4, <1>9, <1>13 DEF b

-----------------------------------------------------------------------------
(* The addresses of an access *)

\* Where the elements of two sequences are once they are joined.
LEMMA Concatenadas ==
  ASSUME NEW F, NEW G, F \in Seq(Nat), G \in Seq(Nat)
  PROVE  /\ F \o G \in Seq(Nat) /\ Len(F \o G) = Len(F) + Len(G)
         /\ \A b \in 1 .. Len(F) : (F \o G)[b] = F[b]
         /\ \A b \in 1 .. Len(G) : (F \o G)[Len(F) + b] = G[b]
<1>1. F \o G \in Seq(Nat) OBVIOUS
<1>2. Len(F \o G) = Len(F) + Len(G) OBVIOUS
<1>3. \A b \in 1 .. Len(F) : (F \o G)[b] = F[b] OBVIOUS
<1>4. \A b \in 1 .. Len(G) : (F \o G)[Len(F) + b] = G[b] OBVIOUS
<1>5. QED BY <1>1, <1>2, <1>3, <1>4

\* Two sequences joined are the function with the values of both, one after the
\* other.
LEMMA Junta ==
  ASSUME NEW m \in Nat, NEW l \in Nat, NEW F \in [1 .. m -> Nat], NEW G \in [1 .. l -> Nat],
         NEW H \in [1 .. m + l -> Nat],
         \A b \in 1 .. m : H[b] = F[b], \A b \in 1 .. l : H[m + b] = G[b]
  PROVE  F \o G = H
<1>1. F \in Seq(Nat) /\ G \in Seq(Nat) /\ Len(F) = m /\ Len(G) = l
  OBVIOUS
<1> DEFINE J == F \o G
<1>2. /\ J \in Seq(Nat) /\ Len(J) = m + l
      /\ \A b \in 1 .. m : J[b] = F[b]
      /\ \A b \in 1 .. l : J[m + b] = G[b]
  <2>1. J \in Seq(Nat) /\ Len(J) = Len(F) + Len(G) BY <1>1, Concatenadas
  <2>2. \A b \in 1 .. Len(F) : J[b] = F[b] BY <1>1, Concatenadas
  <2>3. \A b \in 1 .. Len(G) : J[Len(F) + b] = G[b] BY <1>1, Concatenadas
  <2> HIDE DEF J
  <2>4. QED BY <1>1, <2>1, <2>2, <2>3
<1> HIDE DEF J
<1>3. J = [b \in 1 .. m + l |-> J[b]] BY <1>2
<1>4. \A b \in 1 .. m + l : J[b] = H[b]
  <2> TAKE b \in 1 .. m + l
  <2>1. CASE b <= m BY <1>2, <2>1
  <2>2. CASE ~ (b <= m)
    <3>1. PICK c \in 1 .. l : b = m + c
      <4>1. b - m \in 1 .. l /\ b = m + (b - m) BY <2>2
      <4>2. QED BY <4>1
    <3>2. QED BY <1>2, <3>1
  <2>3. QED BY <2>1, <2>2
<1>5. H = [b \in 1 .. m + l |-> H[b]] OBVIOUS
<1>6. J = H BY <1>3, <1>4, <1>5
<1>7. QED BY <1>6 DEF J

\* Flattening joins the sequences one after another.
Aplana(f, s, N) ==
  /\ f[1] = s[1] /\ f[N] = FlattenSeq(s)
  /\ \A k \in 1 .. N - 1 : f[k + 1] = f[k] \o s[k + 1]

\* A sequence of sequences is flattened by joining them one at a time.
LEMMA Aplanada ==
  ASSUME NEW N \in Nat \ {0}, NEW s, s \in Seq(Seq(Nat)), Len(s) = N
  PROVE  \E f : Aplana(f, s, N)
<1>0. 1 .. Len(s) = 1 .. N /\ Len(s) # 0 /\ N \in 1 .. N OBVIOUS
<1> DEFINE V == Seq(Nat)
           h == [n \in Nat |-> [x \in V |-> IF n + 2 <= N THEN x \o s[n + 2] ELSE x]]
           E(f) == f = [i \in 1 .. Len(s) |-> IF i = 1 THEN s[i] ELSE f[i - 1] \o s[i]]
           c == CHOOSE f : E(f)
<1>1. h \in [Nat -> [V -> V]]
  <2>1. ASSUME NEW n \in Nat, NEW x \in V PROVE (IF n + 2 <= N THEN x \o s[n + 2] ELSE x) \in V
    <3>1. CASE n + 2 <= N
      <4>1. n + 2 \in 1 .. N BY <3>1
      <4>2. s[n + 2] \in V BY <4>1
      <4> HIDE DEF V
      <4>3. x \o s[n + 2] \in V BY <4>2 DEF V
      <4>4. QED BY <3>1, <4>3
    <3>2. QED BY <3>1
  <2> HIDE DEF V
  <2>2. QED BY <2>1
<1>a. s[1] \in V BY <1>0
<1>2. PICK f : Sucesion(f, V, s[1], h)
  <2> HIDE DEF h, V
  <2>1. QED BY <1>1, <1>a, Recursion
<1>3. f[0] = s[1] /\ \A k \in Nat : f[k] \in V
  <2> HIDE DEF h, V
  <2>1. QED BY <1>2 DEF Sucesion
<1>4. \A k \in Nat : k + 2 <= N => f[k + 1] = f[k] \o s[k + 2]
  <2> TAKE k \in Nat
  <2> HAVE k + 2 <= N
  <2>1. f[k + 1] = h[k][f[k]] /\ f[k] \in V
    <3> HIDE DEF h, V
    <3>1. QED BY <1>2 DEF Sucesion
  <2> HIDE DEF V
  <2>2. QED BY <2>1
<1> HIDE DEF h, V
<1> DEFINE g == [i \in 1 .. N |-> f[i - 1]]
<1>5. E(g)
  <2>1. ASSUME NEW i \in 1 .. N
        PROVE  g[i] = IF i = 1 THEN s[i] ELSE g[i - 1] \o s[i]
    <3>1. CASE i = 1 BY <1>3, <3>1
    <3>2. CASE i # 1
      <4>1. PICK k \in Nat : k = i - 2 BY <3>2
      <4>2. k + 2 = i /\ k + 2 <= N /\ i - 1 = k + 1 /\ i - 1 \in 1 .. N /\ i - 1 - 1 = k BY <3>2, <4>1
      <4>3. g[i] = f[k + 1] /\ g[i - 1] = f[k] BY <4>2
      <4>4. f[k + 1] = f[k] \o s[i] BY <1>4, <4>2
      <4>5. QED BY <3>2, <4>3, <4>4
    <3>3. QED BY <3>1, <3>2
  <2>2. g = [i \in 1 .. N |-> g[i]] OBVIOUS
  <2> HIDE DEF g
  <2>3. g = [i \in 1 .. N |-> IF i = 1 THEN s[i] ELSE g[i - 1] \o s[i]] BY <2>1, <2>2
  <2>4. QED BY <2>3
<1>6. E(c) BY <1>5
<1>7. FlattenSeq(s) = c[N]
  <2>1. FlattenSeq(s) = c[Len(s)] BY <1>0 DEF FlattenSeq
  <2>2. QED BY <2>1
<1> HIDE DEF c, g
<1>8. c[1] = s[1] BY <1>0, <1>6
<1>9. \A k \in 1 .. N - 1 : c[k + 1] = c[k] \o s[k + 1]
  <2> TAKE k \in 1 .. N - 1
  <2>1. k + 1 \in 1 .. N /\ k + 1 # 1 /\ k + 1 - 1 = k OBVIOUS
  <2>2. PICK i \in 1 .. N : i = k + 1 /\ i # 1 /\ i - 1 = k BY <2>1
  <2>3. c[i] = c[i - 1] \o s[i] BY <1>0, <1>6, <2>2
  <2>4. QED BY <2>2, <2>3
<1>10. QED BY <1>7, <1>8, <1>9 DEF Aplana

-----------------------------------------------------------------------------
(* Logical and physical addresses *)

\* The physical address of a logical one.
Fisica(p, a) == Tablas[p][(a \div TAM_PAGINA) + 1] * TAM_PAGINA + (a % TAM_PAGINA)

\* The n bytes from dir are of the process.
Suyos(p, dir, n) == dir \in Nat /\ n \in Nat /\ dir + n <= Len(Tablas[p]) * TAM_PAGINA

\* What the assumptions say of one page table.
LEMMA Tabla ==
  ASSUME NEW p \in Procesos
  PROVE  /\ TAM_PAGINA \in Nat \ {0} /\ MARCOS \in Nat
         /\ Tablas[p] \in Seq(0 .. MARCOS - 1) /\ Len(Tablas[p]) \in Nat
         /\ DOMAIN Tablas[p] = 1 .. Len(Tablas[p])
         /\ \A k \in 1 .. Len(Tablas[p]) : Tablas[p][k] \in 0 .. MARCOS - 1
BY TablasDisjuntas

\* A smaller product has a smaller factor.
LEMMA FactorMenor ==
  ASSUME NEW m \in Nat \ {0}, NEW a \in Int, NEW b \in Int, m * a < m * b
  PROVE  a < b
<1> SUFFICES ASSUME b <= a PROVE FALSE OBVIOUS
<1>1. m * b <= m * a OBVIOUS
<1>2. QED BY <1>1

\* A logical address is a page of the table and an offset in it.
LEMMA PaginaDe ==
  ASSUME NEW p \in Procesos, NEW a \in Nat, a < Len(Tablas[p]) * TAM_PAGINA
  PROVE  \E q \in 0 .. Len(Tablas[p]) - 1, r \in 0 .. TAM_PAGINA - 1 :
           a = TAM_PAGINA * q + r /\ a \div TAM_PAGINA = q /\ a % TAM_PAGINA = r
<1> DEFINE l == Len(Tablas[p])
           z == TAM_PAGINA
<1>1. z \in Nat \ {0} /\ l \in Nat BY Tabla
<1>2. a < l * z OBVIOUS
<1> HIDE DEF l, z
<1>3. PICK q \in Nat : q = a \div z BY <1>1, Division
<1>4. PICK r \in 0 .. z - 1 : r = a % z BY <1>1, Division
<1>5. a = z * q + r BY <1>1, <1>3, <1>4, Division
<1>6. z * q < z * l
  <2>1. PICK y \in Nat : y = z * q BY <1>1, Producto
  <2>2. PICK t \in Nat : t = z * l /\ t = l * z BY <1>1, Producto
  <2>3. y < t BY <1>2, <1>5, <2>1, <2>2
  <2>4. QED BY <2>1, <2>2, <2>3
<1>7. q < l BY <1>1, <1>6, FactorMenor
<1>8. q \in 0 .. l - 1 BY <1>1, <1>7
<1>9. QED BY <1>3, <1>4, <1>5, <1>8 DEF l, z

\* The page and the offset of an address given by page and offset.
LEMMA EnPagina ==
  ASSUME NEW q \in Nat, NEW r \in 0 .. TAM_PAGINA - 1
  PROVE  (TAM_PAGINA * q + r) \div TAM_PAGINA = q /\ (TAM_PAGINA * q + r) % TAM_PAGINA = r
<1> DEFINE z == TAM_PAGINA
<1>1. z \in Nat \ {0} /\ r \in 0 .. z - 1 BY TablasDisjuntas
<1> HIDE DEF z
<1>2. PICK x : x = z * q + r OBVIOUS
<1>3. x \div z = q /\ x % z = r BY <1>1, <1>2, CocienteUnico
<1>4. QED BY <1>2, <1>3 DEF z

\* The physical address, by page and offset.
LEMMA FisicaDePagina ==
  ASSUME NEW p \in Procesos, NEW q, q \in Nat, NEW r, r \in 0 .. TAM_PAGINA - 1,
         NEW a, a = TAM_PAGINA * q + r
  PROVE  Fisica(p, a) = Tablas[p][q + 1] * TAM_PAGINA + r
<1>1. (TAM_PAGINA * q + r) \div TAM_PAGINA = q /\ (TAM_PAGINA * q + r) % TAM_PAGINA = r BY EnPagina
<1>2. a \div TAM_PAGINA = q /\ a % TAM_PAGINA = r BY <1>1
<1>3. QED BY <1>2 DEF Fisica

\* A frame and a place in it.
LEMMA EnMarco ==
  ASSUME NEW m \in 0 .. MARCOS - 1, NEW r \in 0 .. TAM_PAGINA - 1, MARCOS \in Nat, TAM_PAGINA \in Nat \ {0}
  PROVE  /\ m * TAM_PAGINA + r \in 0 .. MARCOS * TAM_PAGINA - 1
         /\ (m * TAM_PAGINA + r) \div TAM_PAGINA = m /\ (m * TAM_PAGINA + r) % TAM_PAGINA = r
<1> DEFINE z == TAM_PAGINA
<1>1. z \in Nat \ {0} /\ r \in 0 .. z - 1 OBVIOUS
<1> HIDE DEF z
<1>2. z * m <= z * (MARCOS - 1) BY <1>1, Producto
<1>3. z * (MARCOS - 1) = MARCOS * z - z BY <1>1
<1>4. z * m \in Nat /\ MARCOS * z \in Nat /\ m * z = z * m BY <1>1
<1>5. m * z + r \in 0 .. MARCOS * z - 1 BY <1>1, <1>2, <1>3, <1>4
<1>6. PICK x : x = z * m + r OBVIOUS
<1>7. m \in Nat OBVIOUS
<1>8. x \div z = m /\ x % z = r BY <1>1, <1>6, <1>7, CocienteUnico
<1>9. x = m * z + r BY <1>4, <1>6
<1>10. QED BY <1>5, <1>8, <1>9 DEF z

\* The physical address of what is in the table is in the memory.
LEMMA FisicaEnMemoria ==
  ASSUME NEW p \in Procesos, NEW a \in Nat, a < Len(Tablas[p]) * TAM_PAGINA
  PROVE  Fisica(p, a) \in 0 .. MARCOS * TAM_PAGINA - 1
<1>1. PICK q \in 0 .. Len(Tablas[p]) - 1, r \in 0 .. TAM_PAGINA - 1 :
        a = TAM_PAGINA * q + r /\ a \div TAM_PAGINA = q /\ a % TAM_PAGINA = r
  BY PaginaDe
<1>2. Fisica(p, a) = Tablas[p][q + 1] * TAM_PAGINA + r BY <1>1 DEF Fisica
<1>3. PICK m \in 0 .. MARCOS - 1 : m = Tablas[p][q + 1]
  <2>1. q + 1 \in 1 .. Len(Tablas[p]) BY Tabla
  <2>2. QED BY <2>1, Tabla
<1>4. m * TAM_PAGINA + r \in 0 .. MARCOS * TAM_PAGINA - 1 BY EnMarco, Tabla
<1>5. QED BY <1>2, <1>3, <1>4

\* No two processes share an address, and no two of one process are the same.
LEMMA FisicaInyectiva ==
  ASSUME NEW p \in Procesos, NEW o \in Procesos,
         NEW a \in Nat, a < Len(Tablas[p]) * TAM_PAGINA,
         NEW b \in Nat, b < Len(Tablas[o]) * TAM_PAGINA,
         Fisica(p, a) = Fisica(o, b)
  PROVE  p = o /\ a = b
<1>1. PICK q \in 0 .. Len(Tablas[p]) - 1, r \in 0 .. TAM_PAGINA - 1 :
        a = TAM_PAGINA * q + r /\ a \div TAM_PAGINA = q /\ a % TAM_PAGINA = r
  BY PaginaDe
<1>2. PICK s \in 0 .. Len(Tablas[o]) - 1, t \in 0 .. TAM_PAGINA - 1 :
        b = TAM_PAGINA * s + t /\ b \div TAM_PAGINA = s /\ b % TAM_PAGINA = t
  BY PaginaDe
<1>3. PICK k \in DOMAIN Tablas[p], l \in DOMAIN Tablas[o] : k = q + 1 /\ l = s + 1
  <2>1. q + 1 \in DOMAIN Tablas[p] BY Tabla
  <2>2. s + 1 \in DOMAIN Tablas[o] BY Tabla
  <2>3. QED BY <2>1, <2>2
<1>4. PICK m \in 0 .. MARCOS - 1 : m = Tablas[p][q + 1] BY <1>3, Tabla
<1>5. PICK n \in 0 .. MARCOS - 1 : n = Tablas[o][s + 1] BY <1>3, Tabla
<1>6. m * TAM_PAGINA + r = n * TAM_PAGINA + t BY <1>1, <1>2, <1>4, <1>5 DEF Fisica
<1>7. m = n /\ r = t
  <2>1. (m * TAM_PAGINA + r) \div TAM_PAGINA = m /\ (m * TAM_PAGINA + r) % TAM_PAGINA = r BY EnMarco, Tabla
  <2>2. (n * TAM_PAGINA + t) \div TAM_PAGINA = n /\ (n * TAM_PAGINA + t) % TAM_PAGINA = t BY EnMarco, Tabla
  <2>3. QED BY <1>6, <2>1, <2>2
<1>8. p = o /\ k = l
  <2>1. Tablas[p][k] = Tablas[o][l] BY <1>3, <1>4, <1>5, <1>7
  <2>2. QED BY <2>1, TablasDisjuntas
<1>9. q = s BY <1>3, <1>8
<1>10. QED BY <1>1, <1>2, <1>7, <1>8, <1>9

\* The logical address is recovered from the physical one, for no frame is in two
\* tables.
LEMMA LogicaDeFisica ==
  ASSUME NEW p \in Procesos, NEW a \in Nat, a < Len(Tablas[p]) * TAM_PAGINA
  PROVE  Logica(p, Fisica(p, a)) = a
<1>1. PICK q \in 0 .. Len(Tablas[p]) - 1, r \in 0 .. TAM_PAGINA - 1 :
        a = TAM_PAGINA * q + r /\ a \div TAM_PAGINA = q /\ a % TAM_PAGINA = r
  BY PaginaDe
<1>2. q + 1 \in DOMAIN Tablas[p] BY Tabla
<1>3. PICK m \in 0 .. MARCOS - 1 : m = Tablas[p][q + 1] BY <1>2, Tabla
<1>4. Fisica(p, a) = m * TAM_PAGINA + r BY <1>1, <1>3 DEF Fisica
<1>5. (m * TAM_PAGINA + r) \div TAM_PAGINA = m /\ (m * TAM_PAGINA + r) % TAM_PAGINA = r BY EnMarco, Tabla
<1>6. \A k \in DOMAIN Tablas[p] : Tablas[p][k] = m => k = q + 1 BY <1>2, <1>3, TablasDisjuntas
<1>a. PICK x : x = Fisica(p, a) OBVIOUS
<1>b. x \div TAM_PAGINA = m /\ x % TAM_PAGINA = r BY <1>4, <1>5, <1>a
<1> DEFINE k == CHOOSE k \in DOMAIN Tablas[p] : Tablas[p][k] = x \div TAM_PAGINA
<1>c. k = q + 1
  <2>1. \E n \in DOMAIN Tablas[p] : Tablas[p][n] = x \div TAM_PAGINA BY <1>2, <1>3, <1>b
  <2>2. k \in DOMAIN Tablas[p] /\ Tablas[p][k] = x \div TAM_PAGINA BY <2>1
  <2> HIDE DEF k
  <2>3. QED BY <1>6, <1>b, <2>2
<1>d. Logica(p, x) = (k - 1) * TAM_PAGINA + (x % TAM_PAGINA) BY DEF Logica
<1> HIDE DEF k
<1>7. Logica(p, x) = (q + 1 - 1) * TAM_PAGINA + r BY <1>b, <1>c, <1>d
<1>8. (q + 1 - 1) * TAM_PAGINA = TAM_PAGINA * q
  <2>1. TAM_PAGINA \in Nat BY Tabla
  <2>2. q + 1 - 1 = q OBVIOUS
  <2>3. QED BY <2>1, <2>2
<1>9. QED BY <1>1, <1>7, <1>8, <1>a

\* The pages an access goes through.
LEMMA Paginas ==
  ASSUME NEW x \in Nat \ {0}, NEW z \in Nat \ {0}
  PROVE  Techo(x, z) \in Nat \ {0} /\ z * (Techo(x, z) - 1) < x /\ x <= z * Techo(x, z)
<1>1. PICK y \in Nat : y = x + z - 1 OBVIOUS
<1>2. PICK c \in Nat : c = y \div z BY Division
<1>3. PICK r \in 0 .. z - 1 : r = y % z BY Division
<1>4. y = z * c + r BY <1>2, <1>3, Division
<1>5. Techo(x, z) = c BY <1>1, <1>2 DEF Techo
<1>6. z * c \in Nat /\ z * (c - 1) = z * c - z OBVIOUS
<1>7. z * (c - 1) < x /\ x <= z * c BY <1>1, <1>4, <1>6
<1>8. c # 0
  <2>1. z * 0 = 0 OBVIOUS
  <2>2. QED BY <1>7, <2>1
<1>9. QED BY <1>5, <1>7, <1>8

-----------------------------------------------------------------------------
(* The MMU *)

\* x bytes are of the first pages before the k-th, y before the c-th.
Cuentas(z, c, desp, n, pag, k, x, y) ==
  /\ x = z * (k - 1) /\ y = z * (c - 1) /\ y = (c - 1) * z
  /\ z * k = x + z /\ x <= y
  /\ y < desp + n /\ desp + n <= y + z
  /\ k = 1 => x = 0
  /\ k = c => x = y
  /\ k < c => x + z <= y
  /\ z * (pag + k - 1) = z * pag + x /\ z * pag \in Nat

\* An access in range: page by page, the MMU gives the bytes asked for, in order.
LEMMA DireccionesDeMmu ==
  ASSUME NEW p \in Procesos, NEW dir, NEW n, Suyos(p, dir, n)
  PROVE  Fisicas(Mmu(p, dir, n)) = [b \in 1 .. n |-> Fisica(p, dir + b - 1)]
<1> DEFINE z == TAM_PAGINA
           pag == dir \div z
           desp == dir % z
           c == Techo(desp + n, z)
           B(k) == IF c = 1 THEN n
                   ELSE IF k = 1 THEN z - desp
                   ELSE IF k < c THEN z
                   ELSE n - (c - 1) * z + desp
           D(k) == Tablas[p][pag + k] * z + Desplazamiento(k, desp)
           s == [k \in 1 .. c |-> [b \in 1 .. B(k) |-> D(k) + b - 1]]
<1>1. dir \in Nat /\ n \in Nat /\ z \in Nat \ {0} BY Tabla DEF Suyos
<1>2. pag \in Nat /\ desp \in 0 .. z - 1 /\ dir = z * pag + desp
  <2> HIDE DEF z
  <2>1. QED BY <1>1, Division
<1>3. Fisicas(Mmu(p, dir, n)) = FlattenSeq(s)
  <2> DEFINE m == [k \in 1 .. c |-> [dir |-> D(k), bytes |-> B(k)]]
  <2>1. Mmu(p, dir, n) = m BY DEF Mmu
  <2>2. DOMAIN m = 1 .. c /\ \A k \in 1 .. c : m[k].dir = D(k) /\ m[k].bytes = B(k) OBVIOUS
  <2> HIDE DEF m, D, B, c
  <2>3. [k \in DOMAIN m |-> [b \in 1 .. m[k].bytes |-> m[k].dir + b - 1]] = s BY <2>2
  <2> HIDE DEF s
  <2>4. QED BY <2>1, <2>3 DEF Fisicas
<1>4. CASE n = 0
  <2>1. c \in {0, 1}
    <3>1. CASE desp = 0
      <4>1. 0 + 0 + z - 1 = z * 0 + (z - 1) /\ z - 1 \in 0 .. z - 1 BY <1>1
      <4>2. PICK x : x = z * 0 + (z - 1) OBVIOUS
      <4> HIDE DEF z
      <4>3. x \div z = 0 BY <1>1, <4>1, <4>2, CocienteUnico
      <4>4. QED BY <1>4, <3>1, <4>1, <4>2, <4>3 DEF Techo
    <3>2. CASE desp # 0
      <4>1. desp + 0 + z - 1 = z * 1 + (desp - 1) /\ desp - 1 \in 0 .. z - 1 BY <1>1, <1>2, <3>2
      <4>2. PICK x : x = z * 1 + (desp - 1) OBVIOUS
      <4> HIDE DEF z, desp
      <4>3. x \div z = 1 BY <1>1, <4>1, <4>2, CocienteUnico
      <4>4. QED BY <1>4, <4>1, <4>2, <4>3 DEF Techo
    <3>3. QED BY <3>1, <3>2
  <2>2. [b \in 1 .. n |-> Fisica(p, dir + b - 1)] = <<>> BY <1>4
  <2>3. CASE c = 0
    <3>1. s = <<>> BY <2>3
    <3> HIDE DEF s
    <3>2. FlattenSeq(s) = <<>> BY <3>1 DEF FlattenSeq
    <3>3. QED BY <1>3, <2>2, <3>2
  <2>4. CASE c = 1
    <3>1. s = << <<>> >>
      <4>1. B(1) = 0 BY <1>4, <2>4
      <4> HIDE DEF B, D
      <4>2. s = [k \in 1 .. 1 |-> [b \in 1 .. B(k) |-> D(k) + b - 1]] BY <2>4
      <4>3. DOMAIN s = 1 .. 1 /\ s[1] = [b \in 1 .. 0 |-> D(1) + b - 1] BY <4>1, <4>2
      <4>4. [b \in 1 .. 0 |-> D(1) + b - 1] = <<>> OBVIOUS
      <4>5. s = [k \in 1 .. 1 |-> s[k]] BY <4>2
      <4> HIDE DEF s
      <4>6. s \in Seq({<<>>}) /\ Len(s) = 1 /\ s[1] = <<>> BY <4>3, <4>4, <4>5
      <4>7. QED BY <4>6
    <3> HIDE DEF s
    <3>2. s \in Seq(Seq(Nat)) /\ Len(s) = 1 /\ s[1] = <<>> BY <3>1
    <3>a. PICK N \in Nat \ {0} : N = 1 OBVIOUS
    <3>3. PICK f : Aplana(f, s, N) BY <3>2, <3>a, Aplanada
    <3>4. FlattenSeq(s) = <<>> BY <3>2, <3>3, <3>a DEF Aplana
    <3>5. QED BY <1>3, <2>2, <3>4
  <2>5. QED BY <2>1, <2>3, <2>4
<1>5. CASE n # 0
  <2> DEFINE L(k) == IF k < c THEN z * k - desp ELSE n
             H(k) == [b \in 1 .. L(k) |-> Fisica(p, dir + b - 1)]
  <2>1. c \in Nat \ {0} /\ z * (c - 1) < desp + n /\ desp + n <= z * c
    <3>1. PICK x \in Nat \ {0} : x = desp + n BY <1>1, <1>2, <1>5
    <3> HIDE DEF desp, z
    <3>2. QED BY <1>1, <3>1, Paginas
  <2>2. ASSUME NEW k \in 1 .. c PROVE z * (k - 1) <= z * (c - 1) /\ z * k \in Nat /\ z * k = z * (k - 1) + z
    <3> HIDE DEF z, c
    <3>1. PICK i \in Nat : i = k - 1 OBVIOUS
    <3>2. PICK j \in Nat : j = c - 1 BY <2>1
    <3>3. i <= j BY <2>1, <3>1, <3>2
    <3>4. z * i <= z * j BY <1>1, <3>3, Producto
    <3>5. z * (i + 1) = z * i + z /\ z * (i + 1) \in Nat BY <1>1
    <3>6. QED BY <3>1, <3>2, <3>4, <3>5
  <2>3. ASSUME NEW k \in 1 .. c, k < c PROVE z * k <= z * (c - 1) /\ z * k < desp + n
    <3>1. k + 1 \in 1 .. c /\ k + 1 - 1 = k BY <2>1, <2>3
    <3>2. z * k <= z * (c - 1)
      <4> HIDE DEF z, c
      <4>1. PICK i \in 1 .. c : i = k + 1 BY <3>1
      <4>2. z * (i - 1) <= z * (c - 1) BY <2>2
      <4>3. QED BY <4>1, <4>2
    <3> HIDE DEF z, c, desp
    <3>3. PICK x \in Nat : x = z * k BY <2>2
    <3>4. PICK y \in Int : y = z * (c - 1) BY <1>1, <2>1
    <3>5. QED BY <1>1, <1>2, <2>1, <3>2, <3>3, <3>4
  <2>a. ASSUME NEW k \in 1 .. c PROVE \E x, y \in Nat : Cuentas(z, c, desp, n, pag, k, x, y)
    <3>1. c \in 1 .. c BY <2>1
    <3> HIDE DEF z, c, desp, pag
    <3>2. PICK x \in Nat : x = z * (k - 1)
      <4>1. PICK i \in Nat : i = k - 1 OBVIOUS
      <4>2. QED BY <1>1, <4>1, Producto
    <3>3. PICK y \in Nat : y = z * (c - 1)
      <4>1. PICK i \in Nat : i = c - 1 BY <2>1
      <4>2. QED BY <1>1, <4>1, Producto
    <3>4. y = (c - 1) * z BY <1>1, <2>1, <3>3
    <3>5. z * k = x + z /\ x <= y BY <2>2, <3>2, <3>3
    <3>6. z * c = y + z BY <2>2, <3>1, <3>3
    <3>7. k = 1 => x = 0
      <4>1. z * (1 - 1) = 0 BY <1>1
      <4>2. QED BY <3>2, <4>1
    <3>b. k = c => x = y BY <3>2, <3>3
    <3>8. k < c => x + z <= y BY <2>3, <3>3, <3>5
    <3>9. z * (pag + k - 1) = z * pag + x /\ z * pag \in Nat
      <4>1. PICK i \in Nat : i = k - 1 OBVIOUS
      <4>2. z * (pag + i) = z * pag + z * i /\ z * pag \in Nat BY <1>1, <1>2
      <4>3. pag + k - 1 = pag + i BY <1>2, <4>1
      <4>4. QED BY <3>2, <4>1, <4>2, <4>3
    <3>c. y < desp + n /\ desp + n <= y + z BY <2>1, <3>3, <3>6
    <3>10. Cuentas(z, c, desp, n, pag, k, x, y)
      BY <3>2, <3>3, <3>4, <3>5, <3>7, <3>8, <3>9, <3>b, <3>c DEF Cuentas
    <3>11. QED BY <3>10
  <2> HIDE DEF z, c, desp, pag, B, D, L, H, s
  <2>e. /\ desp \in Nat /\ desp <= z - 1 /\ z \in Nat \ {0} /\ n \in Nat /\ c \in Nat /\ pag \in Nat
        /\ dir = z * pag + desp /\ 1 <= n
    BY <1>1, <1>2, <1>5, <2>1
  \* How many bytes go before the end of each page, and in it.
  <2>4. ASSUME NEW k \in 1 .. c PROVE L(k) \in 1 .. n /\ B(k) \in 1 .. n /\ (k = 1 => B(k) = L(k))
    <3>1. PICK x, y \in Nat : Cuentas(z, c, desp, n, pag, k, x, y) BY <2>a
    <3>2. /\ y = (c - 1) * z /\ z * k = x + z /\ x <= y
          /\ y < desp + n /\ desp + n <= y + z
          /\ k = 1 => x = 0
          /\ k = c => x = y
          /\ k < c => x + z <= y
      BY <3>1 DEF Cuentas
    <3>3. L(k) = IF k < c THEN x + z - desp ELSE n
      <4>1. L(k) = IF k < c THEN z * k - desp ELSE n BY Zenon DEF L
      <4>2. QED BY <2>e, <3>2, <4>1
    <3>4. B(k) = IF c = 1 THEN n ELSE IF k = 1 THEN z - desp ELSE IF k < c THEN z ELSE n - y + desp BY <3>2 DEF B
    <3>5. QED BY <2>e, <3>2, <3>3, <3>4
  <2>5. L(c) = n BY <2>e DEF L
  <2>6. ASSUME NEW k \in 1 .. c - 1 PROVE L(k + 1) = L(k) + B(k + 1) /\ dir + L(k) = z * (pag + k)
    <3>0. k \in 1 .. c /\ k + 1 \in 1 .. c /\ k + 1 - 1 = k /\ k \in Nat /\ k < c BY <2>1
    <3>1. PICK i \in 1 .. c : i = k + 1 /\ i - 1 = k /\ pag + i - 1 = pag + k BY <2>e, <3>0
    <3>2. PICK x, y \in Nat : Cuentas(z, c, desp, n, pag, i, x, y) BY <2>a
    <3>3. /\ x = z * k /\ y = (c - 1) * z /\ z * i = x + z /\ x <= y
          /\ y < desp + n /\ desp + n <= y + z
          /\ i = 1 => x = 0
          /\ i = c => x = y
          /\ i < c => x + z <= y
          /\ z * (pag + k) = z * pag + x /\ z * pag \in Nat
      BY <3>1, <3>2 DEF Cuentas
    <3>4. L(k) = x - desp BY <3>0, <3>3 DEF L
    <3>5. L(i) = IF i < c THEN x + z - desp ELSE n
      <4>1. L(i) = IF i < c THEN z * i - desp ELSE n BY Zenon DEF L
      <4>2. QED BY <2>e, <3>3, <4>1
    <3>6. B(i) = IF i < c THEN z ELSE n - y + desp
      <4>1. B(i) = IF c = 1 THEN n ELSE IF i = 1 THEN z - desp ELSE IF i < c THEN z ELSE n - y + desp
        BY <3>3 DEF B
      <4>2. c # 1 /\ i # 1 BY <3>0, <3>1
      <4>3. QED BY <4>1, <4>2
    <3>7. PICK v \in Nat : v = z * pag BY <3>3
    <3>8. z * (pag + k) = v + x BY <3>3, <3>7
    <3>9. L(i) = L(k) + B(i) BY <2>e, <3>0, <3>1, <3>3, <3>4, <3>5, <3>6
    <3>10. dir = v + desp BY <2>e, <3>7
    <3>11. dir + L(k) = v + x BY <2>e, <3>4, <3>10
    <3>12. dir + L(k) = z * (pag + k) BY <3>8, <3>11, Zenon
    <3>13. QED BY <3>1, <3>9, <3>12
  <2>b. ASSUME NEW k \in 1 .. c PROVE \E m \in Nat : m = Tablas[p][pag + k] * z
    <3> DEFINE l == Len(Tablas[p])
    <3>0. PICK x, y \in Nat : Cuentas(z, c, desp, n, pag, k, x, y) BY <2>a
    <3>1. x < desp + n /\ z * (pag + k - 1) = z * pag + x /\ z * pag \in Nat
      <4>1. x <= y /\ y < desp + n /\ z * (pag + k - 1) = z * pag + x /\ z * pag \in Nat BY <3>0 DEF Cuentas
      <4>2. QED BY <2>e, <4>1
    <3>2. l \in Nat /\ dir + n <= l * z BY Tabla DEF Suyos, z
    <3>3. PICK v \in Nat : v = z * pag BY <3>1
    <3>4. dir = v + desp BY <2>e, <3>3
    <3>5. k \in Nat /\ 1 <= k BY <2>1
    <3>6. PICK q \in Nat : q = pag + k - 1 /\ q + 1 = pag + k BY <2>e, <3>5
    <3>a. PICK l_ \in Nat : l_ = l BY <3>2
    <3>7. q < l_
      <4>1. z * q = v + x BY <3>1, <3>3, <3>6
      <4> HIDE DEF l
      <4>2. PICK t \in Nat : t = z * l_ /\ t = l_ * z BY <2>e, Producto
      <4>3. PICK u \in Nat : u = z * q BY <2>e, Producto
      <4>4. u < t BY <2>e, <3>1, <3>2, <3>4, <3>a, <4>1, <4>2, <4>3
      <4>5. z * q < z * l_ BY <4>2, <4>3, <4>4
      <4>6. q \in Int /\ l_ \in Int OBVIOUS
      <4>7. QED BY <2>e, <4>5, <4>6, FactorMenor
    <3>8. PICK m \in Nat : m = Tablas[p][q + 1]
      <4>1. q + 1 \in 1 .. l BY <3>a, <3>7
      <4>2. Tablas[p][q + 1] \in 0 .. MARCOS - 1 /\ MARCOS \in Nat BY <4>1, Tabla
      <4>3. QED BY <4>2
    <3>9. m * z \in Nat BY <2>e
    <3>10. QED BY <3>6, <3>8, <3>9
  \* Where they are.
  <2>7. ASSUME NEW k \in 1 .. c, NEW b \in 1 .. B(k)
        PROVE  D(k) + b - 1 = Fisica(p, (IF k = 1 THEN dir ELSE z * (pag + k - 1)) + b - 1)
    <3>0. PICK x, y \in Nat : Cuentas(z, c, desp, n, pag, k, x, y) BY <2>a
    <3>1. /\ y = (c - 1) * z /\ x <= y
          /\ y < desp + n /\ desp + n <= y + z
          /\ k = 1 => x = 0
          /\ k = c => x = y
      BY <3>0 DEF Cuentas
    <3>2. k \in Nat /\ 1 <= k /\ k <= c BY <2>e
    <3>3. B(k) = IF c = 1 THEN n ELSE IF k = 1 THEN z - desp ELSE IF k < c THEN z ELSE n - y + desp
      BY <3>1 DEF B
    <3>4. B(k) \in Nat /\ B(k) <= z /\ (k = 1 => B(k) <= z - desp)
      <4>1. B(k) \in Nat BY <2>4, <2>e
      <4>2. QED BY <2>e, <3>1, <3>2, <3>3, <4>1
    <3>5. PICK q \in Nat : q = pag + k - 1 /\ q + 1 = pag + k BY <2>e, <3>2
    <3>6. CASE k = 1
      <4>1. PICK r \in 0 .. z - 1 : r = desp + b - 1
        <5>1. desp + b - 1 \in 0 .. z - 1 BY <2>e, <3>4, <3>6
        <5>2. QED BY <5>1
      <4>2. q = pag /\ dir + b - 1 = z * q + r
        <5>1. q = pag BY <2>e, <3>5, <3>6
        <5>2. PICK v \in Nat : v = z * pag BY <2>e, Producto
        <5>3. dir = v + desp BY <2>e, <5>2
        <5>4. dir + b - 1 = v + r BY <2>e, <3>4, <4>1, <5>3
        <5>5. z * q = v BY <5>1, <5>2
        <5>6. QED BY <5>1, <5>4, <5>5
      <4>3. Fisica(p, dir + b - 1) = Tablas[p][q + 1] * TAM_PAGINA + r BY <4>2, FisicaDePagina DEF z
      <4>4. PICK m \in Nat : m = Tablas[p][pag + k] * z BY <2>b
      <4>5. D(k) = m + desp BY <3>6, <4>4 DEF Desplazamiento, D
      <4>6. Fisica(p, dir + b - 1) = m + r BY <3>5, <4>3, <4>4 DEF z
      <4>7. D(k) + b - 1 = m + r BY <2>e, <3>4, <4>1, <4>5
      <4>8. QED BY <3>6, <4>6, <4>7
    <3>7. CASE k # 1
      <4>1. PICK r \in 0 .. z - 1 : r = b - 1
        <5>1. b - 1 \in 0 .. z - 1 BY <2>e, <3>4
        <5>2. QED BY <5>1
      <4>2. PICK a \in Nat : a = z * (pag + k - 1)
        <5>1. z * (pag + k - 1) = z * q BY <3>5
        <5>2. z * q \in Nat BY <2>e, Producto
        <5>3. QED BY <5>1, <5>2
      <4>3. a + b - 1 = z * q + r
        <5>1. a = z * q BY <3>5, <4>2
        <5>2. a + b - 1 = a + r BY <3>4, <4>1
        <5>3. QED BY <5>1, <5>2
      <4>4. Fisica(p, a + b - 1) = Tablas[p][q + 1] * TAM_PAGINA + r BY <4>3, FisicaDePagina DEF z
      <4>5. PICK m \in Nat : m = Tablas[p][pag + k] * z BY <2>b
      <4>6. D(k) = m
        <5>1. D(k) = m + 0 BY <3>7, <4>5 DEF Desplazamiento, D
        <5>2. QED BY <5>1
      <4>7. Fisica(p, a + b - 1) = m + r BY <3>5, <4>4, <4>5 DEF z
      <4>8. D(k) + b - 1 = m + r BY <3>4, <4>1, <4>6
      <4>9. QED BY <3>7, <4>2, <4>7, <4>8
    <3>8. QED BY <3>6, <3>7
  <2>8. ASSUME NEW b \in 1 .. n PROVE Fisica(p, dir + b - 1) \in Nat
    <3>1. dir + b - 1 \in Nat /\ dir + b - 1 < Len(Tablas[p]) * TAM_PAGINA
      <4>1. PICK l \in Nat : l = Len(Tablas[p]) * TAM_PAGINA
        <5>1. Len(Tablas[p]) \in Nat /\ TAM_PAGINA \in Nat BY Tabla
        <5>2. Len(Tablas[p]) * TAM_PAGINA \in Nat BY <5>1
        <5>3. QED BY <5>2
      <4>2. dir + n <= l BY <4>1 DEF Suyos
      <4>3. dir + b - 1 \in Nat /\ dir + b - 1 < l BY <1>1, <4>2
      <4>4. QED BY <4>1, <4>3
    <3>2. PICK a \in Nat : a = dir + b - 1 BY <3>1
    <3>3. Fisica(p, a) \in 0 .. MARCOS * TAM_PAGINA - 1 BY <3>1, <3>2, FisicaEnMemoria
    <3>4. QED BY <3>2, <3>3
  <2> DEFINE S(k) == [b \in 1 .. B(k) |-> D(k) + b - 1]
  <2>9. s \in [1 .. c -> Seq(Nat)] /\ \A k \in 1 .. c : s[k] = S(k)
    <3>1. \A k \in 1 .. c : s[k] = S(k) BY DEF s
    <3>2. ASSUME NEW k \in 1 .. c PROVE S(k) \in Seq(Nat)
      <4>1. D(k) \in Nat
        <5>1. PICK m \in Nat : m = Tablas[p][pag + k] * z BY <2>b
        <5>2. Desplazamiento(k, desp) \in Nat BY <2>e DEF Desplazamiento
        <5>3. QED BY <5>1, <5>2 DEF D
      <4>2. B(k) \in Nat BY <2>4, <2>e
      <4>3. \A b \in 1 .. B(k) : D(k) + b - 1 \in Nat BY <4>1, <4>2
      <4>4. QED BY <4>2, <4>3
    <3>3. s = [k \in 1 .. c |-> s[k]] BY DEF s
    <3> HIDE DEF S
    <3>4. QED BY <3>1, <3>2, <3>3
  <2>10. s \in Seq(Seq(Nat)) /\ Len(s) = c BY <2>1, <2>9
  <2>11. PICK f : Aplana(f, s, c) BY <2>1, <2>10, Aplanada
  <2>12. ASSUME NEW k \in 1 .. c PROVE H(k) \in [1 .. L(k) -> Nat] /\ L(k) \in Nat /\ Len(H(k)) = L(k)
    <3>1. L(k) \in 1 .. n /\ L(k) \in Nat BY <2>4, <2>e
    <3>2. ASSUME NEW b \in 1 .. L(k) PROVE Fisica(p, dir + b - 1) \in Nat
      <4>1. b \in 1 .. n BY <2>e, <3>1
      <4>2. QED BY <2>8, <4>1
    <3>3. QED BY <3>1, <3>2 DEF H
  <2>13. S(1) = H(1)
    <3>1. 1 \in 1 .. c BY <2>1
    <3>2. B(1) = L(1) BY <2>4, <3>1
    <3>3. \A b \in 1 .. B(1) : D(1) + b - 1 = Fisica(p, dir + b - 1) BY <2>7, <3>1
    <3>4. QED BY <3>2, <3>3 DEF H
  <2>14. ASSUME NEW k \in 1 .. c - 1 PROVE H(k) \o S(k + 1) = H(k + 1)
    <3>0. k \in 1 .. c /\ k + 1 - 1 = k /\ k \in Nat /\ k < c BY <2>1
    <3>1. PICK i \in 1 .. c : i = k + 1 /\ i - 1 = k /\ pag + i - 1 = pag + k /\ i # 1 BY <2>e, <3>0
    <3>2. L(i) = L(k) + B(i) /\ dir + L(k) = z * (pag + k) BY <2>6, <3>1
    <3>3. PICK m \in Nat : m = L(k) BY <2>12, <3>0
    <3>4. PICK l \in Nat : l = B(i) BY <2>4, <2>e
    <3>5. H(k) \in [1 .. m -> Nat] BY <2>12, <3>0, <3>3
    <3>6. H(i) \in [1 .. m + l -> Nat] BY <2>12, <3>2, <3>3, <3>4
    <3>7. S(i) \in [1 .. l -> Nat] /\ \A b \in 1 .. l : S(i)[b] = D(i) + b - 1
      <4>1. S(i) \in Seq(Nat) BY <2>9
      <4>2. S(i) = [b \in 1 .. l |-> D(i) + b - 1] BY <3>4
      <4> HIDE DEF S
      <4>3. QED BY <4>1, <4>2
    <3>8. \A b \in 1 .. m : H(i)[b] = H(k)[b]
      <4>1. \A b \in 1 .. m : b \in 1 .. m + l OBVIOUS
      <4>2. H(i) = [b \in 1 .. m + l |-> Fisica(p, dir + b - 1)] BY <3>2, <3>3, <3>4 DEF H
      <4>3. H(k) = [b \in 1 .. m |-> Fisica(p, dir + b - 1)] BY <3>3 DEF H
      <4>4. QED BY <4>1, <4>2, <4>3
    <3>9. \A b \in 1 .. l : H(i)[m + b] = S(i)[b]
      <4> SUFFICES ASSUME NEW b \in 1 .. l PROVE H(i)[m + b] = S(i)[b] OBVIOUS
      <4>1. m + b \in 1 .. m + l OBVIOUS
      <4>2. H(i) = [d \in 1 .. m + l |-> Fisica(p, dir + d - 1)] BY <3>2, <3>3, <3>4 DEF H
      <4>3. H(i)[m + b] = Fisica(p, dir + (m + b) - 1) BY <4>1, <4>2
      <4>4. PICK w : w = z * (pag + k) OBVIOUS
      <4>5. dir + m = w BY <3>2, <3>3, <4>4
      <4>6. dir + (m + b) - 1 = w + b - 1 BY <1>1, <4>5
      <4>7. D(i) + b - 1 = Fisica(p, (IF i = 1 THEN dir ELSE z * (pag + i - 1)) + b - 1) BY <2>7, <3>4
      <4>8. D(i) + b - 1 = Fisica(p, w + b - 1) BY <3>1, <4>4, <4>7
      <4>9. QED BY <3>7, <4>3, <4>6, <4>8
    <3> HIDE DEF S
    <3>10. H(k) \o S(i) = H(i) BY <3>5, <3>6, <3>7, <3>8, <3>9, Junta
    <3>11. QED BY <3>1, <3>10
  <2> HIDE DEF S
  <2>15. \A k \in 1 .. c : f[k] = H(k)
    <3> DEFINE E == {j \in Nat : j < c => f[j + 1] = H(j + 1)}
    <3>1. 0 \in E
      <4>1. 1 \in 1 .. c BY <2>1
      <4>2. f[1] = H(1) BY <2>9, <2>11, <2>13, <4>1 DEF Aplana
      <4>3. QED BY <4>2
    <3>2. ASSUME NEW j \in Nat, j \in E PROVE j + 1 \in E
      <4> SUFFICES ASSUME j + 1 < c PROVE f[j + 1 + 1] = H(j + 1 + 1) OBVIOUS
      <4>1. f[j + 1] = H(j + 1) BY <2>e, <3>2
      <4>2. PICK i \in 1 .. c - 1 : i = j + 1 BY <2>e
      <4>3. f[i + 1] = f[i] \o s[i + 1] BY <2>11 DEF Aplana
      <4>4. s[i + 1] = S(i + 1) BY <2>9, <2>e
      <4>5. f[i + 1] = H(i + 1) BY <2>14, <4>1, <4>2, <4>3, <4>4
      <4>6. QED BY <4>2, <4>5
    <3> HIDE DEF E
    <3>3. \A j \in Nat : j \in E BY <3>1, <3>2, Induccion
    <3>4. ASSUME NEW k \in 1 .. c PROVE f[k] = H(k)
      <4>1. PICK j \in Nat : j = k - 1 /\ j + 1 = k /\ j < c BY <2>e
      <4>2. QED BY <3>3, <4>1 DEF E
    <3>5. QED BY <3>4
  <2>16. FlattenSeq(s) = H(c)
    <3>1. c \in 1 .. c BY <2>1
    <3>2. QED BY <2>11, <2>15, <3>1 DEF Aplana
  <2>17. H(c) = [b \in 1 .. n |-> Fisica(p, dir + b - 1)] BY <2>5 DEF H
  <2>18. QED BY <1>3, <2>16, <2>17
<1>6. QED BY <1>4, <1>5

-----------------------------------------------------------------------------
(* Registers *)

\* A register has at least one byte, and a 32-bit one holds twice as many values
\* as an 8-bit one.
LEMMA Anchos ==
  /\ BASE \in Nat \ {0, 1} /\ LARGO \in Nat \ {0} /\ 2 * BASE <= LARGO
  /\ \A r \in Registros : /\ Ancho(r) \in Nat \ {0} /\ Ancho(r) <= LARGO
                          /\ BytesDe(r) \in Nat \ {0} /\ Ancho(r) = Potencia[BytesDe(r)]
<1>1. BASE \in Nat \ {0, 1} /\ BYTES \in Nat \ {0, 1} BY AnchosPares
<1>2. PICK a \in Nat \ {0} : a = Potencia[BYTES - 2] /\ Potencia[BYTES - 2 + 1] = BASE * a
  BY <1>1, Potencias
<1>3. Potencia[BYTES - 1] = BASE * a
  <2>1. BYTES - 2 + 1 = BYTES - 1 BY <1>1
  <2>2. QED BY <1>2, <2>1
<1>4. PICK b \in Nat \ {0} : b = Potencia[BYTES - 1] /\ Potencia[BYTES - 1 + 1] = BASE * b
  BY <1>1, Potencias
<1>5. LARGO = BASE * b
  <2>1. BYTES - 1 + 1 = BYTES BY <1>1
  <2>2. QED BY <1>4, <2>1 DEF LARGO
<1>6. b >= 2
  <2>1. b = BASE * a BY <1>3, <1>4
  <2>2. QED BY <1>1, <2>1
<1>7. LARGO \in Nat \ {0} /\ 2 * BASE <= LARGO BY <1>1, <1>5, <1>6
<1>8. Potencia[1] = BASE
  <2>1. PICK z \in Nat : z = 0 OBVIOUS
  <2>2. Potencia[z + 1] = BASE * Potencia[z] /\ Potencia[0] = 1 BY Potencias
  <2>3. QED BY <1>1, <2>1, <2>2
<1>9. \A r \in Registros : /\ Ancho(r) \in Nat \ {0} /\ Ancho(r) <= LARGO
                           /\ BytesDe(r) \in Nat \ {0} /\ Ancho(r) = Potencia[BytesDe(r)]
  <2> TAKE r \in Registros
  <2>1. CASE r \in Registros8
    <3>1. Ancho(r) = BASE /\ BytesDe(r) = 1 BY <2>1 DEF Ancho, BytesDe
    <3>2. QED BY <1>1, <1>7, <1>8, <3>1
  <2>2. CASE r \notin Registros8
    <3>1. Ancho(r) = LARGO /\ BytesDe(r) = BYTES BY <2>2 DEF Ancho, BytesDe
    <3>2. QED BY <1>1, <1>7, <3>1 DEF LARGO
  <2>3. QED BY <2>1, <2>2
<1>10. QED BY <1>1, <1>7, <1>9

\* A set of registers holds what its types do.
LEMMA Juego ==
  ASSUME NEW g
  PROVE  g \in Juegos <=> /\ g = [r \in Registros |-> g[r]]
                          /\ \A r \in Registros : g[r] \in 0 .. Ancho(r) - 1
<1>1. BASE \in Nat /\ LARGO \in Nat /\ BASE <= LARGO BY Anchos
<1>2. Registros8 \subseteq Registros BY DEF Registros
<1>3. ASSUME g \in Juegos
      PROVE  /\ g = [r \in Registros |-> g[r]]
             /\ \A r \in Registros : g[r] \in 0 .. Ancho(r) - 1
  <2>1. g \in [Registros -> 0 .. LARGO - 1] /\ \A r \in Registros8 : g[r] < BASE BY <1>3 DEF Juegos
  <2>2. QED BY <1>1, <2>1 DEF Ancho
<1>4. ASSUME /\ g = [r \in Registros |-> g[r]]
             /\ \A r \in Registros : g[r] \in 0 .. Ancho(r) - 1
      PROVE  g \in Juegos
  <2>1. \A r \in Registros8 : g[r] < BASE /\ g[r] \in Nat BY <1>1, <1>2, <1>4 DEF Ancho
  <2>2. \A r \in Registros : g[r] \in 0 .. LARGO - 1 BY <1>1, <1>4 DEF Ancho
  <2>3. g \in [Registros -> 0 .. LARGO - 1] BY <1>4, <2>2
  <2>4. QED BY <2>1, <2>3 DEF Juegos
<1>5. QED BY <1>3, <1>4

\* The registers of a new process are a set of registers.
LEMMA EnCeroEsJuego == EnCero \in Juegos
<1>1. \A r \in Registros : EnCero[r] = 0 /\ Ancho(r) \in Nat \ {0} BY Anchos DEF EnCero
<1>2. EnCero = [r \in Registros |-> EnCero[r]] BY DEF EnCero
<1>3. \A r \in Registros : EnCero[r] \in 0 .. Ancho(r) - 1 BY <1>1
<1>4. QED BY <1>2, <1>3, Juego

\* An assignment to a register
LEMMA Asigna ==
  ASSUME NEW g \in Juegos, NEW r \in Registros, NEW v \in Int
  PROVE  /\ Con(g, r, v) \in Juegos
         /\ Con(g, r, v) = [g EXCEPT ![r] = v % Ancho(r)]
         /\ v \in 0 .. Ancho(r) - 1 => Con(g, r, v) = [g EXCEPT ![r] = v]
<1>1. Ancho(r) \in Nat \ {0} BY Anchos
<1>2. g = [s \in Registros |-> g[s]] /\ \A s \in Registros : g[s] \in 0 .. Ancho(s) - 1 BY Juego
<1>3. PICK w \in Int : w = Ancho(r) /\ w > 0 BY <1>1
<1>4. v % w \in 0 .. w - 1 BY <1>3
<1>5. Con(g, r, v) = [g EXCEPT ![r] = v % Ancho(r)] BY DEF Con
<1>6. PICK h : h = [g EXCEPT ![r] = v % w] OBVIOUS
<1>7. h = [s \in Registros |-> h[s]] /\ \A s \in Registros : h[s] \in 0 .. Ancho(s) - 1
  <2>1. h = [s \in Registros |-> IF s = r THEN v % w ELSE g[s]] BY <1>2, <1>6
  <2>2. QED BY <1>2, <1>3, <1>4, <2>1
<1>8. h \in Juegos BY <1>7, Juego
<1>9. v \in 0 .. w - 1 => v % w = v
  <2> SUFFICES ASSUME v \in 0 .. w - 1 PROVE v % w = v OBVIOUS
  <2>1. PICK q \in Nat : q = 0 OBVIOUS
  <2>2. v = w * q + v BY <1>3, <2>1
  <2>3. w \in Nat \ {0} BY <1>3
  <2>4. QED BY <2>1, <2>2, <2>3, CocienteUnico
<1>10. QED BY <1>3, <1>5, <1>6, <1>8, <1>9

\* The registers that travel are read as they were written.
LEMMA IdaYVuelta ==
  ASSUME NEW g \in Juegos
  PROVE  LeerRegistros(AgregarRegistros(g)) = g /\ Traidos(AgregarRegistros(g)) = g
<1>1. g = [r \in Registros |-> g[r]] BY Juego
<1> DEFINE o == OrdenAlAgregar
           b == AgregarRegistros(g)
<1>2. \A k \in DOMAIN o : b[k] = g[o[k]] BY DEF AgregarRegistros
<1>3. \A r \in Registros : \E k \in DOMAIN o : o[k] = r
  <2>1. /\ 1 \in DOMAIN o /\ 2 \in DOMAIN o /\ 3 \in DOMAIN o /\ 4 \in DOMAIN o /\ 5 \in DOMAIN o
        /\ 6 \in DOMAIN o /\ 7 \in DOMAIN o /\ 8 \in DOMAIN o /\ 9 \in DOMAIN o /\ 10 \in DOMAIN o
        /\ 11 \in DOMAIN o
    BY DEF OrdenAlAgregar
  <2>2. /\ o[1] = "PC" /\ o[2] = "AX" /\ o[3] = "BX" /\ o[4] = "CX" /\ o[5] = "DX" /\ o[6] = "EAX"
        /\ o[7] = "EBX" /\ o[8] = "ECX" /\ o[9] = "EDX" /\ o[10] = "SI" /\ o[11] = "DI"
    BY DEF OrdenAlAgregar
  <2> HIDE DEF o
  <2>3. QED BY <2>1, <2>2 DEF Registros, Registros8, Registros32
<1>4. OrdenAlLeer = o BY DEF OrdenAlLeer, OrdenAlAgregar
<1>5. LeerRegistros(b) = Traidos(b) BY <1>4 DEF LeerRegistros, Traidos
<1> HIDE DEF b
<1>6. Traidos(b) = [r \in Registros |-> g[r]]
  <2> SUFFICES ASSUME NEW r \in Registros PROVE b[CHOOSE k \in DOMAIN o : o[k] = r] = g[r] BY DEF Traidos
  <2> DEFINE k == CHOOSE k \in DOMAIN o : o[k] = r
  <2> HIDE DEF o
  <2>1. k \in DOMAIN o /\ o[k] = r BY <1>3
  <2> HIDE DEF k
  <2>2. b[k] = g[r] BY <1>2, <2>1
  <2>3. QED BY <2>2 DEF k
<1>7. QED BY <1>1, <1>5, <1>6 DEF b

-----------------------------------------------------------------------------
(* The data: registers, messages, orders and memory *)

OpsTexto == {"IO_STDIN_READ", "IO_STDOUT_WRITE"}

\* The pieces of an order are those the MMU gave of an access of the process.
DePiezas(p, z) == \E dir, n \in Nat : Suyos(p, dir, n) /\ z = Mmu(p, dir, n)

PiezasDe(p, op, z) == IF op \in OpsTexto THEN DePiezas(p, z) ELSE z = <<>>

\* The memory and the registers, wherever they are.
Valores ==
  /\ programa \in Programas
  /\ memoria \in [0 .. MARCOS * TAM_PAGINA - 1 -> 0 .. BASE - 1]
  /\ \A p \in Procesos : pcb[p].registros \in Juegos
  /\ cpu.registros \in Juegos
  /\ DOMAIN pantalla = Procesos

\* The context on its way is the one in the PCB; an answer names no process.
Envios ==
  \A i \in DOMAIN dispatch :
    IF dispatch[i].op = "EJECUTAR_PROCESO"
    THEN dispatch[i].registros = AgregarRegistros(pcb[kernel].registros)
    ELSE dispatch[i].pid = Nadie

\* The instruction that waits for an answer
Pedida == programa[cpu.pid][R["PC"]].op

\* What the CPU sends back: registers, the pieces of that process, and the
\* reason, which is the request the CPU waits for or a request of the user.
EnvioDe(m) ==
  /\ \E g \in Juegos : m.registros = AgregarRegistros(g) /\ (m.op \in InstruccionesRecurso => g = R)
  /\ m.op \in {"EXIT_PROCESO"} \cup Motivos \cup InstruccionesIO \cup InstruccionesRecurso
  /\ m.op \in InstruccionesRecurso => m.op = Pedida
  /\ PiezasDe(kernel, m.op, m.piezas)
  /\ m.op = "FINALIZAR_PROCESO" => pcb[kernel].pedido

Devoluciones == desalojos # <<>> => EnvioDe(desalojos[1])

OpsOrden == {"NADA", "WAIT", "HECHA"} \cup InstruccionesIO

\* An order is of a process that waits for it, or of one that ended.
Orden1(p) ==
  /\ DOMAIN ordenes[p] = {"op", "piezas"} /\ ordenes[p].op \in OpsOrden
  /\ ordenes[p].op # "HECHA" => PiezasDe(p, ordenes[p].op, ordenes[p].piezas)
  /\ pcb[p].estado \in {"READY", "EXEC"} => ordenes[p] = SinOrden
  /\ pcb[p].estado = "BLOCKED" => ordenes[p].op # "NADA"

Ordenes == \A p \in Procesos : Orden1(p)

Peticiones ==
  /\ CpuPide => Pedida \in InstruccionesRecurso
  /\ \A p \in Procesos : <<p, "FINALIZAR_PROCESO">> \in interrupciones => pcb[p].pedido
  /\ \A i \in DOMAIN interrupt : interrupt[i][2] = "FINALIZAR_PROCESO" => pcb[interrupt[i][1]].pedido

\* A CPU that died had the process of the burst, one out of step had not.
Trabas ==
  /\ cpu.fase = "caida" => cpu.pid = kernel /\ ~cpu.desalojo
  /\ cpu.fase = "desfasada" => cpu.pid # kernel

DInv == Valores /\ Envios /\ Devoluciones /\ Ordenes /\ Peticiones /\ Trabas

-----------------------------------------------------------------------------
(* What a step leaves alone *)

\* What the CPU waits for depends only on the program and on the CPU.
LEMMA PedidaQuieta ==
  ASSUME UNCHANGED <<programa, cpu>>
  PROVE  Pedida' = Pedida /\ (CpuPide <=> CpuPide')
BY DEF Pedida, CpuPide, R

\* A step that leaves the CPU, the memory and the interrupts as they were
LEMMA OtrosQuietos ==
  ASSUME CInv, DInv, UNCHANGED <<programa, memoria, cpu, pantalla, interrupt, interrupciones>>,
         \A q \in Procesos : pcb'[q].registros \in Juegos /\ (pcb[q].pedido => pcb'[q].pedido)
  PROVE  Valores' /\ Peticiones'
<1>1. Valores' BY DEF DInv, Valores
<1>2. \A i \in DOMAIN interrupt : interrupt[i][1] \in Procesos BY DEF CInv, TiposDeControl
<1>3. Peticiones' BY <1>2, PedidaQuieta DEF DInv, Peticiones
<1>4. QED BY <1>1, <1>3

\* The orders stay right if only that of one process changes, to a right one.
LEMMA OrdenesCambian ==
  ASSUME Ordenes, NEW p \in Procesos, Orden1(p)',
         \A q \in Procesos : q # p => ordenes'[q] = ordenes[q] /\ pcb'[q].estado = pcb[q].estado
  PROVE  Ordenes'
<1>1. ASSUME NEW q \in Procesos PROVE Orden1(q)'
  <2>1. CASE q = p BY <2>1
  <2>2. CASE q # p BY <2>2 DEF Ordenes, Orden1
  <2>3. QED BY <2>1, <2>2
<1>2. QED BY <1>1 DEF Ordenes

\* Nothing has to be shown of an empty socket.
LEMMA Vacios ==
  /\ dispatch' = <<>> => Envios'
  /\ desalojos' = <<>> => Devoluciones'
BY DEF Envios, Devoluciones

\* The CPU that died stays so while it and the burst do not change.
LEMMA TrabasQuietas == ASSUME DInv, UNCHANGED <<cpu, kernel>> PROVE Trabas'
BY DEF DInv, Trabas

\* The kernel waits for nobody: the CPU has not died.
LEMMA SinTrabas ==
  ASSUME CInv, kernel = Nadie \/ desalojos # <<>> \/ dispatch # <<>>
  PROVE  cpu.fase \notin {"caida", "desfasada"}
<1>1. Devuelta => desalojos # <<>> BY Mensajes DEF Devuelta
<1>2. QED
  BY <1>1 DEF CInv, Protocolo, SinRafaga, Enviada, EnMarcha, Devuelta, CpuLibera, CpuColgada, CpuPide,
    Trabada, Nada

\* The message that comes back has the registers of the process, read as they were
\* written.
LEMMA Registrado ==
  ASSUME CInv, DInv, kernel # Nadie, desalojos # <<>>
  PROVE  /\ EnvioDe(desalojos[1])
         /\ Traidos(desalojos[1].registros) \in Juegos
         /\ LeerRegistros(desalojos[1].registros) = Traidos(desalojos[1].registros)
         /\ desalojos[1].op \in InstruccionesRecurso => Traidos(desalojos[1].registros) = R
<1>1. EnvioDe(desalojos[1]) BY DEF DInv, Devoluciones
<1> DEFINE m == desalojos[1]
<1>2. PICK g \in Juegos : m.registros = AgregarRegistros(g) /\ (m.op \in InstruccionesRecurso => g = R)
  BY <1>1 DEF EnvioDe
<1> HIDE DEF m
<1>3. QED BY <1>1, <1>2, IdaYVuelta DEF m

-----------------------------------------------------------------------------
(* The kernel *)

\* Each PCB has a state, a set of registers and a request.
LEMMA RegistrosDelPcb ==
  ASSUME CInv, DInv
  PROVE  /\ DOMAIN pcb = Procesos
         /\ \A q \in Procesos : /\ DOMAIN pcb[q] = {"estado", "registros", "pedido"}
                                /\ pcb[q].registros \in Juegos /\ pcb[q].pedido \in BOOLEAN
BY DEF CInv, TiposDeControl, DInv, Valores

\* The context sent to the CPU is that of the PCB (enviar_proceso_a_cpu).
LEMMA DatosPlanificar == ASSUME CInv, DInv, Planificar PROVE DInv'
<1>0. kernel = Nadie /\ listos # <<>> BY DEF Planificar
<1>1. PICK p \in Procesos : p = Head(listos) /\ pcb[p].estado = "READY"
  <2>1. 1 \in DOMAIN listos /\ listos[1] = Head(listos) BY <1>0 DEF CInv, ListosEnReady
  <2>2. QED BY <2>1 DEF CInv, ListosEnReady
<1> DEFINE m == [op |-> "EJECUTAR_PROCESO", pid |-> p, registros |-> AgregarRegistros(pcb[p].registros)]
<1>2. /\ kernel' = p /\ pcb' = [pcb EXCEPT ![p].estado = "EXEC"]
      /\ dispatch' = Append(dispatch, m)
      /\ UNCHANGED <<programa, memoria, ordenes, desalojos, interrupt, interrupciones, cpu, pantalla>>
  BY <1>1 DEF Planificar, senales
<1>3. m.op = "EJECUTAR_PROCESO" /\ m.registros = AgregarRegistros(pcb[p].registros) OBVIOUS
<1> HIDE DEF m
<1>4. \A q \in Procesos : /\ pcb'[q].registros = pcb[q].registros /\ pcb'[q].pedido = pcb[q].pedido
                          /\ q # p => pcb'[q] = pcb[q]
  BY <1>2, RegistrosDelPcb
<1>5. Valores' /\ Peticiones' BY <1>2, <1>4, OtrosQuietos, RegistrosDelPcb
<1>6. SinRafaga BY <1>0 DEF CInv, Protocolo, Enviada, EnMarcha, Devuelta
<1>7. m.registros = AgregarRegistros(pcb'[p].registros) BY <1>3, <1>4
<1>8. Envios'
  <2>1. CASE Nada
    <3>1. dispatch' = <<m>> BY <1>2, <2>1, Sockets DEF Nada
    <3>2. \A i \in DOMAIN dispatch' : dispatch'[i] = m BY <3>1
    <3>3. QED BY <1>2, <1>3, <1>7, <3>2 DEF Envios
  <2>2. CASE Uno("DESALOJAR")
    <3> DEFINE a == dispatch[1]
    <3>1. dispatch' = <<a, m>> /\ a.op = "DESALOJAR" BY <1>2, <2>2, Sockets DEF Uno
    <3>2. a.pid = Nadie
      <4>1. 1 \in DOMAIN dispatch BY <2>2 DEF Uno
      <4>2. QED BY <3>1, <4>1 DEF DInv, Envios
    <3> HIDE DEF a
    <3>3. \A i \in DOMAIN dispatch' : dispatch'[i] \in {a, m} BY <3>1
    <3>4. QED BY <1>2, <1>3, <1>7, <3>1, <3>2, <3>3 DEF Envios
  <2>3. QED BY <1>6, <2>1, <2>2 DEF SinRafaga
<1>9. Devoluciones' BY <1>2, <1>6, Vacios DEF SinRafaga
<1>10. Ordenes'
  <2>1. Orden1(p)'
    <3>1. Orden1(p) /\ ordenes[p] = SinOrden BY <1>1 DEF DInv, Ordenes, Orden1
    <3>2. pcb'[p].estado = "EXEC" BY <1>2, RegistrosDelPcb
    <3>3. QED BY <1>2, <3>1, <3>2 DEF Orden1
  <2>2. QED BY <1>2, <1>4, <2>1, OrdenesCambian DEF DInv
<1>11. Trabas' BY <1>0, <1>2, SinTrabas DEF Trabas
<1>12. QED BY <1>5, <1>8, <1>9, <1>10, <1>11 DEF DInv

\* The kernel takes a message of the CPU, and the burst is over.
LEMMA DatosRafaga ==
  ASSUME CInv, DInv, kernel # Nadie, desalojos # <<>>, desalojos' = Tail(desalojos),
         NEW p \in Procesos, p = kernel, NEW estado, Cambia(p, estado),
         pcb'[p].registros \in Juegos, pcb'[p].pedido = pcb[p].pedido,
         UNCHANGED <<programa, memoria, cpu, pantalla, interrupt, interrupciones>>,
         \A q \in Procesos : q # p => ordenes'[q] = ordenes[q],
         Orden1(p)', Envios'
  PROVE  DInv'
<1>1. Valores' /\ Peticiones'
  <2>1. \A q \in Procesos : pcb'[q].registros \in Juegos /\ (pcb[q].pedido => pcb'[q].pedido)
    BY RegistrosDelPcb DEF Cambia
  <2>2. QED BY <2>1, OtrosQuietos
<1>2. Devoluciones' BY HayMensaje, Vacios
<1>3. Ordenes' BY OrdenesCambian DEF DInv, Cambia
<1>4. Trabas' BY SinTrabas DEF Trabas
<1>5. QED BY <1>1, <1>2, <1>3, <1>4 DEF DInv

\* Guarda and Terminado, and what they leave in the PCB
LEMMA Guardada ==
  ASSUME CInv, DInv, kernel # Nadie, desalojos # <<>>, NEW estado, Guarda(estado)
  PROVE  /\ Cambia(kernel, estado) /\ pcb'[kernel].pedido = pcb[kernel].pedido
         /\ pcb'[kernel].registros = Traidos(Head(desalojos).registros)
         /\ pcb'[kernel].registros \in Juegos
<1>1. kernel \in Procesos /\ Head(desalojos) = desalojos[1] BY HayMensaje
<1>2. Cambia(kernel, estado) /\ pcb'[kernel].pedido = pcb[kernel].pedido BY <1>1, GuardaCambia
<1> DEFINE r == LeerRegistros(Head(desalojos).registros)
<1>3. pcb' = [pcb EXCEPT ![kernel].estado = estado, ![kernel].registros = r] BY DEF Guarda
<1>4. r = Traidos(Head(desalojos).registros) /\ r \in Juegos BY <1>1, Registrado
<1> HIDE DEF r
<1>5. pcb'[kernel].registros = r BY <1>1, <1>3, RegistrosDelPcb
<1>6. QED BY <1>2, <1>4, <1>5

\* A process that ends leaves its registers in zero.
LEMMA Terminada ==
  ASSUME CInv, NEW p \in Procesos, NEW pedido, Terminado(p, pedido)
  PROVE  /\ Cambia(p, "EXIT") /\ pcb'[p].pedido = pedido
         /\ pcb'[p].registros \in Juegos
<1>1. pcb' = [pcb EXCEPT ![p] = [estado |-> "EXIT", registros |-> EnCero, pedido |-> pedido]]
  BY DEF Terminado
<1>2. DOMAIN pcb = Procesos BY DEF CInv, TiposDeControl
<1>3. pcb'[p] = [estado |-> "EXIT", registros |-> EnCero, pedido |-> pedido] BY <1>1, <1>2
<1>4. pcb'[p].registros = EnCero BY <1>3
<1>5. QED BY <1>4, EnCeroEsJuego, TerminadoCambia

\* A process that ended may have left an order.
LEMMA OrdenDelQueAcaba ==
  ASSUME CInv, DInv, NEW p \in Procesos, Cambia(p, "EXIT"), ordenes'[p] = ordenes[p]
  PROVE  Orden1(p)'
<1>1. Orden1(p) BY DEF DInv, Ordenes
<1>2. pcb'[p].estado = "EXIT" BY DEF Cambia
<1>3. QED BY <1>1, <1>2 DEF Orden1

\* The end of a process keeps the data invariant.
LEMMA DatosRecibeFin == ASSUME CInv, DInv, RecibeFin PROVE DInv'
<1>1. /\ kernel # Nadie /\ desalojos # <<>> /\ desalojos' = Tail(desalojos) /\ Acaba
      /\ UNCHANGED <<programa, memoria, interrupt, interrupciones, cpu, pantalla, dispatch>>
  BY DEF RecibeFin, Recibe, senales
<1>2. PICK p \in Procesos : p = kernel /\ dispatch' = <<>> BY <1>1, HayMensaje
<1>3. ordenes' = ordenes /\ Terminado(p, pcb[p].pedido) BY <1>1, <1>2 DEF Acaba
<1>4. Cambia(p, "EXIT") /\ pcb'[p].pedido = pcb[p].pedido /\ pcb'[p].registros \in Juegos
  BY <1>3, Terminada
<1>5. Orden1(p)' BY <1>3, <1>4, OrdenDelQueAcaba
<1>6. Envios' BY <1>2, Vacios
<1>7. QED BY <1>1, <1>2, <1>3, <1>4, <1>5, <1>6, DatosRafaga

\* The end of the quantum keeps the data invariant: the PCB gets the registers of
\* the message.
LEMMA DatosRecibeFinQuantum == ASSUME CInv, DInv, RecibeFinQuantum PROVE DInv'
<1>1. /\ kernel # Nadie /\ desalojos # <<>> /\ desalojos' = Tail(desalojos) /\ Guarda("READY")
      /\ UNCHANGED <<programa, memoria, interrupt, interrupciones, cpu, pantalla, dispatch, ordenes>>
  BY DEF RecibeFinQuantum, Recibe, senales
<1>2. PICK p \in Procesos : p = kernel /\ dispatch' = <<>> /\ pcb[p].estado = "EXEC" BY <1>1, HayMensaje
<1>4. Cambia(p, "READY") /\ pcb'[p].pedido = pcb[p].pedido /\ pcb'[p].registros \in Juegos
  BY <1>1, <1>2, Guardada
<1>5. Orden1(p)'
  <2>1. Orden1(p) /\ ordenes'[p] = SinOrden BY <1>1, <1>2 DEF DInv, Ordenes, Orden1
  <2>2. pcb'[p].estado = "READY" BY <1>4 DEF Cambia
  <2>3. QED BY <1>1, <2>1, <2>2 DEF Orden1
<1>6. Envios' BY <1>2, Vacios
<1>7. QED BY <1>1, <1>2, <1>4, <1>5, <1>6, DatosRafaga

\* A request of I/O keeps it: the order has the pieces of the message.
LEMMA DatosRecibeIO == ASSUME CInv, DInv, RecibeIO PROVE DInv'
<1> DEFINE o == [op |-> Head(desalojos).op, piezas |-> Head(desalojos).piezas]
<1>1. /\ kernel # Nadie /\ desalojos # <<>> /\ desalojos' = Tail(desalojos)
      /\ Bloquea(o) \/ Acaba
      /\ UNCHANGED <<programa, memoria, interrupt, interrupciones, cpu, pantalla, dispatch>>
  BY DEF RecibeIO, Recibe, senales
<1>2. PICK p \in Procesos : p = kernel /\ dispatch' = <<>> /\ Head(desalojos) = desalojos[1]
  BY <1>1, HayMensaje
<1>3. Envios' BY <1>2, Vacios
<1>4. CASE Acaba
  <2>1. ordenes' = ordenes /\ Terminado(p, pcb[p].pedido) BY <1>2, <1>4 DEF Acaba
  <2>2. Cambia(p, "EXIT") /\ pcb'[p].pedido = pcb[p].pedido /\ pcb'[p].registros \in Juegos
    BY <2>1, Terminada
  <2>3. Orden1(p)' BY <2>1, <2>2, OrdenDelQueAcaba
  <2>4. QED BY <1>1, <1>2, <1>3, <2>1, <2>2, <2>3, DatosRafaga
<1>5. CASE Bloquea(o)
  <2>1. /\ o.op = desalojos[1].op /\ o.piezas = desalojos[1].piezas
        /\ DOMAIN o = {"op", "piezas"}
    BY <1>2
  <2> HIDE DEF o
  <2>2. Guarda("BLOCKED") /\ ordenes' = [ordenes EXCEPT ![p] = o] BY <1>2, <1>5 DEF Bloquea
  <2>3. Cambia(p, "BLOCKED") /\ pcb'[p].pedido = pcb[p].pedido /\ pcb'[p].registros \in Juegos
    BY <1>1, <1>2, <2>2, Guardada
  <2>4. o.op \in InstruccionesIO
    <3>1. (IF pcb[kernel].pedido THEN "FINALIZAR_PROCESO" ELSE Head(desalojos).op) \in InstruccionesIO
      BY DEF RecibeIO, Recibe
    <3>2. QED BY <1>2, <2>1, <3>1 DEF InstruccionesIO
  <2>5. PiezasDe(p, o.op, o.piezas) BY <1>1, <1>2, <2>1, Registrado DEF EnvioDe
  <2>6. ordenes'[p] = o /\ pcb'[p].estado = "BLOCKED" 
    BY <2>2, <2>3 DEF CInv, TiposDeControl, Cambia
  <2>7. Orden1(p)' BY <2>1, <2>4, <2>5, <2>6 DEF Orden1, OpsOrden, InstruccionesIO
  <2>8. \A q \in Procesos : q # p => ordenes'[q] = ordenes[q]
    BY <2>2 DEF CInv, TiposDeControl
  <2>9. QED BY <1>1, <1>2, <1>3, <2>3, <2>7, <2>8, DatosRafaga
<1>6. QED BY <1>1, <1>4, <1>5

\* An answer names no process.
LEMMA EnvioDeRespuesta ==
  ASSUME dispatch = <<>>, NEW op \in {"CONTINUAR", "DESALOJAR"}, Responde(op)
  PROVE  Envios'
<1> DEFINE m == [op |-> op, pid |-> Nadie, registros |-> <<>>]
<1>1. dispatch' = Append(dispatch, m) /\ m.op # "EJECUTAR_PROCESO" /\ m.pid = Nadie BY DEF Responde
<1> HIDE DEF m
<1>2. dispatch' = <<m>> BY <1>1, Sockets
<1>3. \A i \in DOMAIN dispatch' : dispatch'[i] = m BY <1>2
<1>4. QED BY <1>1, <1>3 DEF Envios

\* The answer CONTINUAR keeps it: the context stays in the CPU.
LEMMA DatosRecibeRecursoContinua == ASSUME CInv, DInv, RecibeRecursoContinua PROVE DInv'
<1>1. /\ kernel # Nadie /\ desalojos # <<>> /\ desalojos' = Tail(desalojos)
      /\ Responde("CONTINUAR")
      /\ UNCHANGED <<programa, memoria, pcb, ordenes, kernel, interrupt, interrupciones, cpu, pantalla>>
  BY DEF RecibeRecursoContinua, Recibe, senales, nucleo
<1>2. dispatch = <<>> /\ desalojos' = <<>> BY <1>1, HayMensaje
<1>3. Envios' BY <1>1, <1>2, EnvioDeRespuesta
<1>4. Valores' /\ Peticiones' BY <1>1, OtrosQuietos, RegistrosDelPcb
<1>5. Devoluciones' BY <1>2, Vacios
<1>6. Ordenes' BY <1>1 DEF DInv, Ordenes, Orden1
<1>7. Trabas' BY <1>1, TrabasQuietas
<1>8. QED BY <1>3, <1>4, <1>5, <1>6, <1>7 DEF DInv

\* The answer DESALOJAR keeps it: the process waits with no addresses, or ends.
LEMMA DatosRecibeRecursoDesaloja == ASSUME CInv, DInv, RecibeRecursoDesaloja PROVE DInv'
<1> DEFINE o == [SinOrden EXCEPT !.op = "WAIT"]
<1>1. /\ kernel # Nadie /\ desalojos # <<>> /\ desalojos' = Tail(desalojos)
      /\ Bloquea(o) \/ Acaba
      /\ Responde("DESALOJAR")
      /\ UNCHANGED <<programa, memoria, interrupt, interrupciones, cpu, pantalla>>
  BY DEF RecibeRecursoDesaloja, Recibe, senales
<1>2. PICK p \in Procesos : p = kernel /\ dispatch = <<>> BY <1>1, HayMensaje
<1>3. Envios' BY <1>1, <1>2, EnvioDeRespuesta
<1>4. CASE Acaba
  <2>1. ordenes' = ordenes /\ Terminado(p, pcb[p].pedido) BY <1>2, <1>4 DEF Acaba
  <2>2. Cambia(p, "EXIT") /\ pcb'[p].pedido = pcb[p].pedido /\ pcb'[p].registros \in Juegos
    BY <2>1, Terminada
  <2>3. Orden1(p)' BY <2>1, <2>2, OrdenDelQueAcaba
  <2>4. QED BY <1>1, <1>2, <1>3, <2>1, <2>2, <2>3, DatosRafaga
<1>5. CASE Bloquea(o)
  <2>1. o.op = "WAIT" /\ o.piezas = <<>> /\ DOMAIN o = {"op", "piezas"} BY DEF SinOrden
  <2> HIDE DEF o
  <2>2. Guarda("BLOCKED") /\ ordenes' = [ordenes EXCEPT ![p] = o] BY <1>2, <1>5 DEF Bloquea
  <2>3. Cambia(p, "BLOCKED") /\ pcb'[p].pedido = pcb[p].pedido /\ pcb'[p].registros \in Juegos
    BY <1>1, <1>2, <2>2, Guardada
  <2>4. ordenes'[p] = o /\ pcb'[p].estado = "BLOCKED" 
    BY <2>2, <2>3 DEF CInv, TiposDeControl, Cambia
  <2>5. Orden1(p)' BY <2>1, <2>4 DEF Orden1, OpsOrden, PiezasDe, OpsTexto
  <2>6. \A q \in Procesos : q # p => ordenes'[q] = ordenes[q]
    BY <2>2 DEF CInv, TiposDeControl
  <2>7. QED BY <1>1, <1>2, <1>3, <2>3, <2>5, <2>6, DatosRafaga
<1>6. QED BY <1>1, <1>4, <1>5

\* A process that is not in EXEC changes: the conversation with the CPU does not.
LEMMA DatosFuera ==
  ASSUME CInv, DInv, NEW p \in Procesos, p # kernel, NEW estado, Cambia(p, estado),
         pcb'[p].registros \in Juegos, pcb[p].pedido => pcb'[p].pedido,
         UNCHANGED <<programa, memoria, kernel, cpu, pantalla, interrupt, interrupciones, dispatch, desalojos>>,
         \A q \in Procesos : q # p => ordenes'[q] = ordenes[q],
         Orden1(p)'
  PROVE  DInv'
<1>1. Valores' /\ Peticiones'
  <2>1. \A q \in Procesos : pcb'[q].registros \in Juegos /\ (pcb[q].pedido => pcb'[q].pedido)
    BY RegistrosDelPcb DEF Cambia
  <2>2. QED BY <2>1, OtrosQuietos
<1>2. kernel \in Procesos => pcb'[kernel] = pcb[kernel] BY DEF Cambia
<1>3. ASSUME kernel \in Procesos PROVE Envios' /\ Devoluciones'
  <2>1. Envios' BY <1>2, <1>3 DEF DInv, Envios
  <2>2. Devoluciones' BY <1>2, <1>3, PedidaQuieta DEF DInv, Devoluciones, EnvioDe, R
  <2>3. QED BY <2>1, <2>2
<1>4. ASSUME kernel = Nadie PROVE Envios' /\ Devoluciones'
  <2>1. SinRafaga BY <1>4 DEF CInv, Protocolo, Enviada, EnMarcha, Devuelta
  <2>2. desalojos = <<>> /\ \A i \in DOMAIN dispatch : dispatch[i].op # "EJECUTAR_PROCESO"
    BY <2>1 DEF SinRafaga, Nada, Uno
  <2>3. QED BY <2>2, Vacios DEF DInv, Envios
<1>5. kernel \in Procesos \cup {Nadie} BY DEF CInv, TiposDeControl
<1>6. Ordenes' BY OrdenesCambian DEF DInv, Cambia
<1>7. QED BY <1>1, <1>3, <1>4, <1>5, <1>6, TrabasQuietas DEF DInv

\* Unblocking a process keeps it: no order is left behind.
LEMMA DatosDesbloquear == ASSUME CInv, DInv, NEW p \in Procesos, Desbloquear(p) PROVE DInv'
<1>1. /\ pcb[p].estado = "BLOCKED" /\ pcb' = [pcb EXCEPT ![p].estado = "READY"]
      /\ ordenes' = [ordenes EXCEPT ![p] = SinOrden]
      /\ UNCHANGED <<programa, memoria, kernel, cpu, pantalla, interrupt, interrupciones, dispatch, desalojos>>
  BY DEF Desbloquear, senales
<1>2. Cambia(p, "READY") /\ pcb'[p].registros \in Juegos /\ pcb'[p].pedido = pcb[p].pedido
  BY <1>1, RegistrosDelPcb DEF Cambia
<1>3. p # kernel BY <1>1 DEF CInv, EjecutaElDelKernel
<1>4. ordenes'[p] = SinOrden /\ \A q \in Procesos : q # p => ordenes'[q] = ordenes[q]
  BY <1>1 DEF CInv, TiposDeControl
<1>5. Orden1(p)'
  <2>1. pcb'[p].estado = "READY" BY <1>2 DEF Cambia
  <2>2. QED BY <1>4, <2>1 DEF Orden1, SinOrden, PiezasDe, OpsTexto, OpsOrden
<1>6. QED BY <1>1, <1>2, <1>3, <1>4, <1>5, DatosFuera

\* Ending a process that is not in EXEC keeps it, also if a device goes on with
\* its order.
LEMMA DatosFinalizarFuera == ASSUME CInv, DInv, NEW p \in Procesos, FinalizarFuera(p) PROVE DInv'
<1>1. /\ pcb[p].estado \in {"READY", "BLOCKED"} /\ Terminado(p, TRUE)
      /\ ordenes' = [ordenes EXCEPT ![p] = SinOrden] \/ UNCHANGED ordenes
      /\ UNCHANGED <<programa, memoria, kernel, cpu, pantalla, interrupt, interrupciones, dispatch, desalojos>>
  BY DEF FinalizarFuera, senales
<1>2. Cambia(p, "EXIT") /\ pcb'[p].registros \in Juegos /\ pcb'[p].pedido = TRUE
  BY <1>1, Terminada
<1>3. p # kernel BY <1>1 DEF CInv, EjecutaElDelKernel
<1>4. ordenes'[p] \in {SinOrden, ordenes[p]} /\ \A q \in Procesos : q # p => ordenes'[q] = ordenes[q]
  BY <1>1 DEF CInv, TiposDeControl
<1>5. Orden1(p)'
  <2>1. pcb'[p].estado = "EXIT" BY <1>2 DEF Cambia
  <2>2. CASE ordenes'[p] = SinOrden BY <2>1, <2>2 DEF Orden1, SinOrden, PiezasDe, OpsTexto, OpsOrden
  <2>3. CASE ordenes'[p] = ordenes[p] BY <1>2, <2>3, OrdenDelQueAcaba
  <2>4. QED BY <1>4, <2>2, <2>3
<1>6. QED BY <1>1, <1>2, <1>3, <1>4, <1>5, DatosFuera

\* An interrupt to end a process is sent after its PCB is marked.
LEMMA PeticionesCrecen ==
  ASSUME CInv, DInv, UNCHANGED <<programa, cpu, interrupciones>>,
         NEW p \in Procesos, NEW motivo \in Motivos, interrupt' = Append(interrupt, <<p, motivo>>),
         motivo = "FINALIZAR_PROCESO" => pcb'[p].pedido,
         \A q \in Procesos : pcb[q].pedido => pcb'[q].pedido
  PROVE  Peticiones'
<1>1. interrupt \in Seq(Procesos \X Motivos) BY DEF CInv, TiposDeControl
<1>2. PICK x : x = <<p, motivo>> OBVIOUS
<1>a. x[1] = p /\ x[2] = motivo /\ x \in Procesos \X Motivos BY <1>2
<1>3. \A i \in DOMAIN interrupt' : (i \in DOMAIN interrupt /\ interrupt'[i] = interrupt[i]) \/ interrupt'[i] = x
  BY <1>1, <1>2
<1>4. \A i \in DOMAIN interrupt : interrupt[i][1] \in Procesos BY <1>1
<1>5. \A i \in DOMAIN interrupt' : interrupt'[i][2] = "FINALIZAR_PROCESO" => pcb'[interrupt'[i][1]].pedido
  <2> TAKE i \in DOMAIN interrupt'
  <2>1. CASE i \in DOMAIN interrupt /\ interrupt'[i] = interrupt[i]
    BY <1>4, <2>1 DEF DInv, Peticiones
  <2>2. CASE interrupt'[i] = x BY <1>a, <2>2
  <2>3. QED BY <1>3, <2>1, <2>2
<1>6. QED BY <1>5, PedidaQuieta DEF DInv, Peticiones

\* The request to end the process in EXEC keeps it.
LEMMA DatosFinalizarEnEjecucion ==
  ASSUME CInv, DInv, NEW p \in Procesos, FinalizarEnEjecucion(p)
  PROVE  DInv'
<1>1. /\ pcb' = [pcb EXCEPT ![p].pedido = TRUE]
      /\ interrupt' = Append(interrupt, <<p, "FINALIZAR_PROCESO">>)
      /\ UNCHANGED <<programa, memoria, kernel, cpu, pantalla, ordenes, interrupciones, dispatch, desalojos>>
  BY DEF FinalizarEnEjecucion
<1>2. \A q \in Procesos : /\ pcb'[q].estado = pcb[q].estado /\ pcb'[q].registros = pcb[q].registros
                          /\ pcb[q].pedido => pcb'[q].pedido
  BY <1>1, RegistrosDelPcb
<1>3. pcb'[p].pedido BY <1>1, RegistrosDelPcb
<1>4. Peticiones' BY <1>1, <1>2, <1>3, PeticionesCrecen DEF Motivos
<1>5. Valores' BY <1>1, <1>2 DEF DInv, Valores
<1>6. Ordenes' BY <1>1, <1>2 DEF DInv, Ordenes, Orden1
<1>7. Trabas' BY <1>1, TrabasQuietas
<1>8. ASSUME kernel \in Procesos PROVE Envios' /\ Devoluciones'
  <2>1. Envios' BY <1>1, <1>2, <1>8 DEF DInv, Envios
  <2>2. Devoluciones' BY <1>1, <1>2, <1>8, PedidaQuieta DEF DInv, Devoluciones, EnvioDe, R
  <2>3. QED BY <2>1, <2>2
<1>9. kernel \in Procesos
  <2>1. pcb[p].estado = "EXEC" BY DEF FinalizarEnEjecucion
  <2>2. QED BY <2>1 DEF CInv, EjecutaElDelKernel
<1>10. QED BY <1>4, <1>5, <1>6, <1>7, <1>8, <1>9 DEF DInv

\* The timer keeps it.
LEMMA DatosControlQuantum == ASSUME CInv, DInv, ControlQuantum PROVE DInv'
<1>1. /\ quantum /\ interrupt' = Append(interrupt, <<kernel, "FIN_QUANTUM">>)
      /\ UNCHANGED <<programa, memoria, pcb, kernel, cpu, pantalla, ordenes, interrupciones, dispatch, desalojos>>
  BY DEF ControlQuantum
<1>2. kernel \in Procesos BY <1>1 DEF CInv, TiposDeControl
<1>3. Peticiones' BY <1>1, <1>2, PeticionesCrecen DEF Motivos
<1>4. Valores' BY <1>1 DEF DInv, Valores
<1>5. Envios' /\ Ordenes' BY <1>1 DEF DInv, Envios, Ordenes, Orden1
<1>6. Devoluciones' BY <1>1, PedidaQuieta DEF DInv, Devoluciones, EnvioDe, R
<1>7. QED BY <1>1, <1>3, <1>4, <1>5, <1>6, TrabasQuietas DEF DInv

\* The thread of the interrupts keeps it.
LEMMA DatosRecibirInterrupcion == ASSUME CInv, DInv, RecibirInterrupcion PROVE DInv'
<1>1. /\ interrupt # <<>> /\ interrupt' = Tail(interrupt)
      /\ interrupciones' = interrupciones \cup {Head(interrupt)}
      /\ UNCHANGED <<programa, memoria, pcb, kernel, cpu, pantalla, ordenes, dispatch, desalojos>>
  BY DEF RecibirInterrupcion, nucleo
<1>2. interrupt \in Seq(Procesos \X Motivos) BY DEF CInv, TiposDeControl
<1>3. 1 \in DOMAIN interrupt /\ Head(interrupt) = interrupt[1] BY <1>1, <1>2
<1>4. \A i \in DOMAIN interrupt' : i + 1 \in DOMAIN interrupt /\ interrupt'[i] = interrupt[i + 1]
  BY <1>1, <1>2
<1>5. Peticiones'
  <2>1. \A i \in DOMAIN interrupt' : interrupt'[i][2] = "FINALIZAR_PROCESO" => pcb'[interrupt'[i][1]].pedido
    BY <1>1, <1>4 DEF DInv, Peticiones
  <2>2. ASSUME NEW p \in Procesos, <<p, "FINALIZAR_PROCESO">> = interrupt[1] PROVE pcb[p].pedido
    <3>1. PICK x : x = interrupt[1] OBVIOUS
    <3>2. x[1] = p /\ x[2] = "FINALIZAR_PROCESO" BY <2>2, <3>1
    <3>3. QED BY <1>3, <3>1, <3>2 DEF DInv, Peticiones
  <2>3. \A p \in Procesos : <<p, "FINALIZAR_PROCESO">> \in interrupciones' => pcb'[p].pedido
    BY <1>1, <1>3, <2>2 DEF DInv, Peticiones
  <2>4. QED BY <1>1, <2>1, <2>3, PedidaQuieta DEF DInv, Peticiones
<1>6. Valores' BY <1>1 DEF DInv, Valores
<1>7. Envios' /\ Ordenes' BY <1>1 DEF DInv, Envios, Ordenes, Orden1
<1>8. Devoluciones' BY <1>1, PedidaQuieta DEF DInv, Devoluciones, EnvioDe, R
<1>9. QED BY <1>1, <1>5, <1>6, <1>7, <1>8, TrabasQuietas DEF DInv

-----------------------------------------------------------------------------
(* What is read and written through the MMU *)

\* The addresses of an access are of the memory.
LEMMA DireccionDelAcceso ==
  ASSUME NEW p \in Procesos, NEW dir, NEW n, Suyos(p, dir, n), NEW b \in 1 .. n
  PROVE  /\ dir + b - 1 \in Nat /\ dir + b - 1 < Len(Tablas[p]) * TAM_PAGINA
         /\ Fisica(p, dir + b - 1) \in 0 .. MARCOS * TAM_PAGINA - 1
<1>1. dir \in Nat /\ n \in Nat BY DEF Suyos
<1>2. PICK l \in Nat : l = Len(Tablas[p]) * TAM_PAGINA
  <2>1. Len(Tablas[p]) \in Nat /\ TAM_PAGINA \in Nat BY Tabla
  <2>2. Len(Tablas[p]) * TAM_PAGINA \in Nat BY <2>1
  <2>3. QED BY <2>2
<1>3. dir + n <= l BY <1>2 DEF Suyos
<1>4. dir + b - 1 \in Nat /\ dir + b - 1 < l BY <1>1, <1>3
<1>5. PICK a \in Nat : a = dir + b - 1 BY <1>4
<1>6. a < Len(Tablas[p]) * TAM_PAGINA BY <1>2, <1>4, <1>5
<1>7. Fisica(p, a) \in 0 .. MARCOS * TAM_PAGINA - 1 BY <1>6, FisicaEnMemoria
<1>8. QED BY <1>5, <1>6, <1>7

\* What is read through the MMU is the bytes from the logical address on, in
\* order.
LEMMA LeidoDelAcceso ==
  ASSUME Valores, NEW p \in Procesos, NEW dir, NEW n, Suyos(p, dir, n)
  PROVE  /\ Leido(Mmu(p, dir, n)) = [b \in 1 .. n |-> memoria[Fisica(p, dir + b - 1)]]
         /\ \A b \in 1 .. n : memoria[Fisica(p, dir + b - 1)] \in 0 .. BASE - 1
<1> DEFINE f == [b \in 1 .. n |-> Fisica(p, dir + b - 1)]
<1>1. Fisicas(Mmu(p, dir, n)) = f BY DireccionesDeMmu
<1>2. Leido(Mmu(p, dir, n)) = [b \in DOMAIN f |-> memoria[f[b]]] BY <1>1 DEF Leido
<1>3. \A b \in 1 .. n : memoria[Fisica(p, dir + b - 1)] \in 0 .. BASE - 1
  BY DireccionDelAcceso DEF Valores
<1>4. QED BY <1>2, <1>3

\* What is written through the MMU changes those bytes and no other one of any
\* process.
LEMMA EscritoDelAcceso ==
  ASSUME Valores, NEW p \in Procesos, NEW dir, NEW n, Suyos(p, dir, n),
         NEW bytes, \A b \in 1 .. n : bytes[b] \in 0 .. BASE - 1,
         Escribe(Mmu(p, dir, n), bytes)
  PROVE  /\ memoria' \in [0 .. MARCOS * TAM_PAGINA - 1 -> 0 .. BASE - 1]
         /\ \A o \in Procesos, a \in Nat :
              a < Len(Tablas[o]) * TAM_PAGINA =>
                memoria'[Fisica(o, a)] = IF o = p /\ a \in dir .. dir + n - 1 THEN bytes[a - dir + 1]
                                         ELSE memoria[Fisica(o, a)]
<1>0. dir \in Nat /\ n \in Nat BY DEF Suyos
<1> DEFINE f == [b \in 1 .. n |-> Fisica(p, dir + b - 1)]
           D == 0 .. MARCOS * TAM_PAGINA - 1
           En(a) == \E b \in 1 .. n : f[b] = a
           i(a) == CHOOSE b \in 1 .. n : f[b] = a
<1>1. Fisicas(Mmu(p, dir, n)) = f BY DireccionesDeMmu
<1>2. memoria \in [D -> 0 .. BASE - 1] BY DEF Valores
<1>3. \A a : Contains(f, a) <=> En(a)
  <2>1. f \in [1 .. n -> Int]
    <3>1. \A b \in 1 .. n : Fisica(p, dir + b - 1) \in Int BY DireccionDelAcceso
    <3>2. QED BY <3>1
  <2>2. Len(f) = n BY <1>0, <2>1
  <2>3. QED BY <2>2 DEF Contains
<1>4. memoria' = [a \in D |-> IF En(a) THEN bytes[i(a)] ELSE memoria[a]]
  <2>1. memoria' = [a \in DOMAIN memoria |-> IF Contains(f, a) THEN bytes[CHOOSE b \in DOMAIN f : f[b] = a]
                                             ELSE memoria[a]]
    BY <1>1 DEF Escribe
  <2>2. DOMAIN memoria = D /\ DOMAIN f = 1 .. n BY <1>2
  <2> HIDE DEF f, D
  <2>3. QED BY <1>3, <2>1, <2>2
<1>5. \A a : En(a) => i(a) \in 1 .. n /\ f[i(a)] = a OBVIOUS
<1>6. memoria' \in [D -> 0 .. BASE - 1]
  <2> HIDE DEF f, D, En, i
  <2>1. \A a \in D : (IF En(a) THEN bytes[i(a)] ELSE memoria[a]) \in 0 .. BASE - 1 BY <1>2, <1>5
  <2>2. QED BY <1>4, <2>1
<1>7. ASSUME NEW o \in Procesos, NEW a \in Nat, a < Len(Tablas[o]) * TAM_PAGINA
      PROVE  memoria'[Fisica(o, a)] = IF o = p /\ a \in dir .. dir + n - 1 THEN bytes[a - dir + 1]
                                      ELSE memoria[Fisica(o, a)]
  <2>1. PICK x \in D : x = Fisica(o, a) BY <1>7, FisicaEnMemoria
  <2>2. memoria'[x] = IF En(x) THEN bytes[i(x)] ELSE memoria[x] BY <1>4
  <2>3. ASSUME NEW b \in 1 .. n, f[b] = x PROVE o = p /\ a = dir + b - 1
    <3>1. PICK c \in Nat : c = dir + b - 1 /\ c < Len(Tablas[p]) * TAM_PAGINA BY DireccionDelAcceso
    <3>2. Fisica(p, c) = Fisica(o, a) BY <2>1, <2>3, <3>1
    <3>3. QED BY <1>7, <3>1, <3>2, FisicaInyectiva
  <2>4. CASE En(x)
    <3>1. PICK b \in 1 .. n : b = i(x) /\ f[b] = x BY <1>5, <2>4
    <3>2. o = p /\ a = dir + b - 1 BY <2>3, <3>1
    <3> HIDE DEF f, D, En, i
    <3>3. a \in dir .. dir + n - 1 /\ a - dir + 1 = b BY <1>0, <3>2
    <3>4. QED BY <2>1, <2>2, <2>4, <3>1, <3>2, <3>3
  <2>5. CASE ~En(x)
    <3>1. ~(o = p /\ a \in dir .. dir + n - 1)
      <4> SUFFICES ASSUME o = p, a \in dir .. dir + n - 1 PROVE FALSE OBVIOUS
      <4>1. PICK b \in 1 .. n : b = a - dir + 1 /\ a = dir + b - 1 BY <1>0
      <4>2. f[b] = x BY <2>1, <4>1
      <4>3. QED BY <2>5, <4>2
    <3> HIDE DEF f, D, En, i
    <3>2. QED BY <2>1, <2>2, <2>5, <3>1
  <2>6. QED BY <2>4, <2>5
<1>8. QED BY <1>6, <1>7

-----------------------------------------------------------------------------
(* The CPU *)

\* When the CPU executes an instruction it holds the context of the process in
\* EXEC, and both sockets are empty.
LEMMA AlEjecutar ==
  ASSUME CInv, DInv, NEW ops, Ejecuta(ops)
  PROVE  /\ cpu.fase = "ejecuta" /\ I.op \in ops
         /\ UNCHANGED <<programa, pcb, ordenes, listos, kernel, quantum, dispatch, interrupt,
                        interrupciones, pantalla>>
         /\ kernel \in Procesos /\ cpu.pid = kernel /\ cpu.desalojo = FALSE
         /\ desalojos = <<>> /\ dispatch = <<>>
         /\ BienFormada(I)
         /\ R \in Juegos /\ R["PC"] \in Nat /\ R["PC"] < Len(programa[cpu.pid])
         /\ RMas \in Juegos /\ RMas = [R EXCEPT !["PC"] = R["PC"] + 1] /\ RMas["PC"] = R["PC"] + 1
         /\ RMas["PC"] \in 1 .. Len(programa[cpu.pid])
<1>1. /\ cpu.fase = "ejecuta" /\ I.op \in ops
      /\ UNCHANGED <<programa, pcb, ordenes, listos, kernel, quantum, dispatch, interrupt,
                     interrupciones, pantalla>>
      /\ R["PC"] < Len(programa[cpu.pid])
  BY DEF Ejecuta, nucleo, senales
<1>2. kernel \in Procesos /\ cpu.pid = kernel /\ cpu.desalojo = FALSE /\ desalojos = <<>> /\ dispatch = <<>>
  BY <1>1, CpuEjecuta
<1>3. R \in Juegos BY DEF DInv, Valores, R
<1>4. "PC" \in Registros /\ "PC" \notin Registros8 BY DEF Registros, Registros8, Registros32
<1>5. PICK c : c = R["PC"] OBVIOUS
<1>6. Ancho("PC") = LARGO /\ LARGO \in Nat \ {0} BY <1>4, Anchos DEF Ancho
<1>7. c \in 0 .. LARGO - 1 /\ DOMAIN R = Registros BY <1>3, <1>4, <1>5, <1>6, Juego
<1>8. PICK n \in 0 .. LARGO - 1 : n = Len(programa[cpu.pid])
  BY <1>2, ProgramasBienFormados DEF DInv, Valores
<1>9. \A k \in 1 .. n : BienFormada(programa[cpu.pid][k])
  BY <1>2, <1>8, ProgramasBienFormados DEF DInv, Valores
<1>10. c + 1 \in 0 .. LARGO - 1 /\ c + 1 \in 1 .. n /\ c + 1 \in Int BY <1>1, <1>5, <1>6, <1>7, <1>8
<1>11. I = programa[cpu.pid][c + 1] BY <1>5 DEF I
<1>12. BienFormada(I) BY <1>9, <1>10, <1>11
<1>13. RMas = Con(R, "PC", c + 1) BY <1>5 DEF RMas
<1>14. RMas \in Juegos /\ RMas = [R EXCEPT !["PC"] = c + 1] BY <1>3, <1>4, <1>6, <1>10, <1>13, Asigna
<1>15. RMas["PC"] = c + 1 BY <1>4, <1>7, <1>14
<1>16. QED BY <1>1, <1>2, <1>3, <1>5, <1>6, <1>7, <1>8, <1>10, <1>12, <1>14, <1>15

\* The registers of an instruction are numbers.
LEMMA Numeros ==
  ASSUME NEW g \in Juegos, NEW r \in Registros
  PROVE  g[r] \in Nat /\ g[r] \in 0 .. Ancho(r) - 1
BY Juego, Anchos

\* The accesses of an instruction are of its process.
LEMMA AccesosSuyos ==
  ASSUME CInv, DInv, AccesosEnRango, NEW ops, Ejecuta(ops)
  PROVE  /\ I.op = "MOV_IN" => Suyos(cpu.pid, RMas[I.s], BytesDe(I.r))
         /\ I.op = "MOV_OUT" => Suyos(cpu.pid, RMas[I.r], BytesDe(I.s))
         /\ I.op = "COPY_STRING" => Suyos(cpu.pid, RMas["SI"], I.n) /\ Suyos(cpu.pid, RMas["DI"], I.n)
         /\ I.op \in OpsTexto => Suyos(cpu.pid, RMas[I.r], RMas[I.s])
<1>1. /\ cpu.fase = "ejecuta" /\ R["PC"] < Len(programa[cpu.pid]) /\ BienFormada(I) /\ RMas \in Juegos
  BY AlEjecutar
<1>2. \A x \in Accesos : x[1] + x[2] <= Len(Tablas[cpu.pid]) * TAM_PAGINA BY <1>1 DEF AccesosEnRango
<1>3. ASSUME NEW d \in Nat, NEW n \in Nat, <<d, n>> \in Accesos PROVE Suyos(cpu.pid, d, n)
  <2>1. PICK x : x = <<d, n>> OBVIOUS
  <2>2. x[1] = d /\ x[2] = n BY <2>1
  <2>3. d + n <= Len(Tablas[cpu.pid]) * TAM_PAGINA BY <1>2, <1>3, <2>1, <2>2
  <2>4. QED BY <2>3 DEF Suyos
<1>4. \A r \in Registros : RMas[r] \in Nat /\ BytesDe(r) \in Nat BY <1>1, Numeros, Anchos
<1>5. ASSUME I.op = "MOV_IN" PROVE Suyos(cpu.pid, RMas[I.s], BytesDe(I.r))
  <2>1. I.r \in Registros /\ I.s \in Registros BY <1>1, <1>5 DEF BienFormada
  <2>2. PICK d \in Nat, n \in Nat : d = RMas[I.s] /\ n = BytesDe(I.r) BY <1>4, <2>1
  <2>3. <<d, n>> \in Accesos BY <1>5, <2>2 DEF Accesos
  <2>4. QED BY <1>3, <2>2, <2>3
<1>6. ASSUME I.op = "MOV_OUT" PROVE Suyos(cpu.pid, RMas[I.r], BytesDe(I.s))
  <2>1. I.r \in Registros /\ I.s \in Registros BY <1>1, <1>6 DEF BienFormada
  <2>2. PICK d \in Nat, n \in Nat : d = RMas[I.r] /\ n = BytesDe(I.s) BY <1>4, <2>1
  <2>3. <<d, n>> \in Accesos BY <1>6, <2>2 DEF Accesos
  <2>4. QED BY <1>3, <2>2, <2>3
<1>7. ASSUME I.op = "COPY_STRING"
      PROVE  Suyos(cpu.pid, RMas["SI"], I.n) /\ Suyos(cpu.pid, RMas["DI"], I.n)
  <2>1. I.n \in Nat /\ "SI" \in Registros /\ "DI" \in Registros
    BY <1>1, <1>7 DEF BienFormada, Registros, Registros32
  <2>2. PICK d \in Nat, e \in Nat, n \in Nat : d = RMas["SI"] /\ e = RMas["DI"] /\ n = I.n BY <1>4, <2>1
  <2>3. <<d, n>> \in Accesos /\ <<e, n>> \in Accesos BY <1>7, <2>2 DEF Accesos
  <2>4. QED BY <1>3, <2>2, <2>3
<1>8. ASSUME I.op \in OpsTexto PROVE Suyos(cpu.pid, RMas[I.r], RMas[I.s])
  <2>1. I.r \in Registros /\ I.s \in Registros BY <1>1, <1>8 DEF BienFormada, OpsTexto
  <2>2. PICK d \in Nat, n \in Nat : d = RMas[I.r] /\ n = RMas[I.s] BY <1>4, <2>1
  <2>3. <<d, n>> \in Accesos BY <1>8, <2>2 DEF Accesos, OpsTexto
  <2>4. QED BY <1>3, <2>2, <2>3
<1>9. QED BY <1>5, <1>6, <1>7, <1>8

TiposDeMemoria == memoria' \in [0 .. MARCOS * TAM_PAGINA - 1 -> 0 .. BASE - 1]

\* A step that does not write leaves bytes in the memory.
LEMMA MemoriaQuieta == ASSUME DInv, UNCHANGED memoria PROVE TiposDeMemoria
BY DEF DInv, Valores, TiposDeMemoria

\* An instruction that needs nobody
LEMMA DatosSigue ==
  ASSUME CInv, DInv, NEW ops, Ejecuta(ops), NEW fase \in {"chequea", "caida"}, NEW g \in Juegos,
         cpu' = [cpu EXCEPT !.fase = fase, !.registros = g], UNCHANGED desalojos, TiposDeMemoria
  PROVE  DInv'
<1>1. /\ UNCHANGED <<programa, pcb, ordenes, kernel, dispatch, interrupt, interrupciones, pantalla>>
      /\ cpu.pid = kernel /\ cpu.desalojo = FALSE /\ desalojos = <<>> /\ dispatch = <<>>
  BY AlEjecutar
<1>2. CpuConTipo BY CpuTipo
<1>3. cpu'.fase = fase /\ cpu'.registros = g /\ cpu'.pid = cpu.pid /\ cpu'.desalojo = cpu.desalojo
  BY <1>2 DEF CpuConTipo
<1>4. Valores' BY <1>1, <1>3 DEF DInv, Valores, TiposDeMemoria
<1>5. Envios' /\ Devoluciones' BY <1>1, Vacios
<1>6. Ordenes' BY <1>1 DEF DInv, Ordenes, Orden1
<1>7. Peticiones' BY <1>1, <1>3 DEF DInv, Peticiones, CpuPide
<1>8. Trabas' BY <1>1, <1>3 DEF Trabas
<1>9. QED BY <1>4, <1>5, <1>6, <1>7, <1>8 DEF DInv

\* An instruction that sends a message
LEMMA DatosManda ==
  ASSUME CInv, DInv, NEW ops, Ejecuta(ops),
         NEW m, desalojos' = Append(desalojos, m), UNCHANGED memoria,
         m.op = I.op \/ m.op = "EXIT_PROCESO",
         m.op \in {"EXIT_PROCESO"} \cup InstruccionesIO \cup InstruccionesRecurso,
         m.registros = AgregarRegistros(RMas), PiezasDe(cpu.pid, m.op, m.piezas),
         cpu'.registros = RMas, cpu'.pid = cpu.pid, cpu'.fase = "chequea" \/ cpu'.fase = "pide",
         cpu'.fase = "pide" => I.op \in InstruccionesRecurso
  PROVE  DInv'
<1>1. /\ UNCHANGED <<programa, pcb, ordenes, kernel, dispatch, interrupt, interrupciones, pantalla>>
      /\ cpu.pid = kernel /\ desalojos = <<>> /\ dispatch = <<>> /\ RMas \in Juegos
      /\ RMas["PC"] = R["PC"] + 1
  BY AlEjecutar
<1>2. Valores' BY <1>1 DEF DInv, Valores
<1>3. Envios' BY <1>1, Vacios
<1>4. desalojos' = <<m>> /\ desalojos'[1] = m BY <1>1, Sockets
<1>5. R' = RMas BY DEF R
<1>6. Pedida' = I.op BY <1>1, <1>5 DEF Pedida, I
<1>7. EnvioDe(m)'
  <2>1. PICK g \in Juegos : g = RMas BY <1>1
  <2>2. m.registros = AgregarRegistros(g) /\ g = R' BY <1>5, <2>1
  <2>3. m.op \in InstruccionesRecurso => m.op = Pedida' BY <1>6 DEF InstruccionesRecurso
  <2>4. m.op # "FINALIZAR_PROCESO" BY DEF InstruccionesRecurso, InstruccionesIO
  <2>5. QED BY <1>1, <2>2, <2>3, <2>4 DEF EnvioDe
<1>8. Devoluciones' BY <1>4, <1>7 DEF Devoluciones
<1>9. Ordenes' BY <1>1 DEF DInv, Ordenes, Orden1
<1>10. Peticiones' BY <1>1, <1>6 DEF DInv, Peticiones, CpuPide
<1>11. Trabas' BY DEF Trabas
<1>12. QED BY <1>2, <1>3, <1>8, <1>9, <1>10, <1>11 DEF DInv

\* The bytes of a value written to memory
LEMMA ValorDelAcceso ==
  ASSUME DInv, NEW p \in Procesos, NEW dir, NEW r \in Registros, Suyos(p, dir, BytesDe(r))
  PROVE  Valor(Leido(Mmu(p, dir, BytesDe(r)))) \in 0 .. Ancho(r) - 1
<1>1. PICK n \in Nat : n = BytesDe(r) /\ Ancho(r) = Potencia[n] BY Anchos
<1>2. PICK s : s = [b \in 1 .. n |-> memoria[Fisica(p, dir + b - 1)]] OBVIOUS
<1>3. Leido(Mmu(p, dir, n)) = s /\ \A b \in 1 .. n : memoria[Fisica(p, dir + b - 1)] \in 0 .. BASE - 1
  BY <1>1, <1>2, LeidoDelAcceso DEF DInv
<1>4. \A b \in 1 .. n : s[b] \in 0 .. BASE - 1 BY <1>2, <1>3
<1>5. s \in Seq(0 .. BASE - 1) /\ Len(s) = n BY <1>2, <1>4
<1>6. Valor(s) \in 0 .. Potencia[n] - 1 BY <1>4, <1>5, ValorAcotado
<1>7. QED BY <1>1, <1>3, <1>6

\* The text of a result is that of a natural number.
LEMMA CadenaNatural == ASSUME NEW v \in Int PROVE Cadena(v) \in Nat
<1>1. PICK l \in Nat \ {0} : l = LARGO BY Anchos
<1>2. v % l \in 0 .. l - 1 BY <1>1
<1>3. ComoInt(v) \in Int BY <1>1, <1>2 DEF ComoInt
<1>4. QED BY <1>3 DEF Cadena

\* The sum and the difference of two registers are integers.
LEMMA OperadoEntero ==
  ASSUME NEW op, NEW g \in Juegos, NEW r \in Registros, NEW s \in Registros
  PROVE  Operado(op, g, r, s) \in Int
<1>1. g[r] \in Nat /\ g[s] \in Nat BY Numeros
<1>2. QED BY <1>1 DEF Operado

\* Every instruction keeps the data invariant.
LEMMA DatosInstruccion == ASSUME CInv, DInv, AccesosEnRango, Instruccion PROVE DInv'
<1>1. ASSUME NEW ops, Ejecuta(ops), NEW g \in Juegos, Sigue(g), TiposDeMemoria PROVE DInv'
  BY <1>1, DatosSigue DEF Sigue
<1>2. CASE EjecutaSet
  <2>1. Ejecuta({"SET"}) /\ Sigue(Con(RMas, I.r, I.n)) /\ UNCHANGED memoria BY <1>2 DEF EjecutaSet
  <2>b. I.op \in {"SET"} /\ BienFormada(I) /\ RMas \in Juegos BY <2>1, AlEjecutar
  <2>2. I.op = "SET" /\ BienFormada(I) /\ RMas \in Juegos BY <2>b
  <2>3. I.r \in Registros /\ I.n \in Int BY <2>2 DEF BienFormada
  <2>4. Con(RMas, I.r, I.n) \in Juegos BY <2>2, <2>3, Asigna
  <2>5. QED BY <1>1, <2>1, <2>4, MemoriaQuieta
<1>3. CASE EjecutaAritmetica
  <2>1. /\ Ejecuta({"SUM", "SUB"}) /\ Sigue(Aritmetica(I.op, RMas, I.r, I.s)) /\ UNCHANGED memoria
    BY <1>3 DEF EjecutaAritmetica
  <2>2. I.op \in {"SUM", "SUB"} /\ BienFormada(I) /\ RMas \in Juegos BY <2>1, AlEjecutar
  <2>3. I.r \in Registros /\ I.s \in Registros BY <2>2 DEF BienFormada
  <2>4. Cadena(Operado(I.op, RMas, I.r, I.s)) \in Int BY <2>2, <2>3, OperadoEntero, CadenaNatural
  <2>5. Aritmetica(I.op, RMas, I.r, I.s) \in Juegos BY <2>2, <2>3, <2>4, Asigna DEF Aritmetica
  <2>6. QED BY <1>1, <2>1, <2>5, MemoriaQuieta
<1>4. CASE Cae
  <2>1. Ejecuta({"SUM", "SUB"}) /\ cpu' = [cpu EXCEPT !.fase = "caida"] /\ UNCHANGED <<memoria, desalojos>>
    BY <1>4 DEF Cae
  <2>2. PICK g \in Juegos : g = cpu.registros BY DEF DInv, Valores
  <2>3. cpu' = [cpu EXCEPT !.fase = "caida", !.registros = g] BY <2>1, <2>2, CpuTipo DEF CpuConTipo
  <2>4. QED BY <2>1, <2>3, DatosSigue, MemoriaQuieta
<1>5. CASE EjecutaJnz
  <2>1. /\ Ejecuta({"JNZ"}) /\ Sigue(Salta(RMas, I.r, I.n)) /\ UNCHANGED memoria
    BY <1>5 DEF EjecutaJnz
  <2>b. I.op \in {"JNZ"} /\ BienFormada(I) /\ RMas \in Juegos BY <2>1, AlEjecutar
  <2>2. I.op = "JNZ" /\ BienFormada(I) /\ RMas \in Juegos BY <2>b
  <2>3. I.n \in Int /\ "PC" \in Registros BY <2>2, Anchos DEF BienFormada, Registros, Registros32
  <2>4. Salta(RMas, I.r, I.n) \in Juegos BY <2>2, <2>3, Asigna DEF Salta
  <2>5. QED BY <1>1, <2>1, <2>4, MemoriaQuieta
<1>6. CASE MovIn
  <2> DEFINE v == Valor(Leido(Mmu(cpu.pid, RMas[I.s], BytesDe(I.r))))
  <2>1. Ejecuta({"MOV_IN"}) /\ Sigue(Con(RMas, I.r, v)) /\ UNCHANGED memoria BY <1>6 DEF MovIn
  <2>b. I.op \in {"MOV_IN"} /\ BienFormada(I) /\ RMas \in Juegos /\ cpu.pid \in Procesos BY <2>1, AlEjecutar
  <2>2. I.op = "MOV_IN" /\ BienFormada(I) /\ RMas \in Juegos /\ cpu.pid \in Procesos BY <2>b
  <2>3. I.r \in Registros /\ I.s \in Registros BY <2>2 DEF BienFormada
  <2>4. Suyos(cpu.pid, RMas[I.s], BytesDe(I.r)) BY <2>1, <2>2, AccesosSuyos
  <2>5. v \in 0 .. Ancho(I.r) - 1 BY <2>2, <2>3, <2>4, ValorDelAcceso
  <2>6. v \in Int BY <2>3, <2>5, Anchos
  <2> HIDE DEF v
  <2>7. Con(RMas, I.r, v) \in Juegos BY <2>2, <2>3, <2>6, Asigna
  <2>8. QED BY <1>1, <2>1, <2>7, MemoriaQuieta
<1>7. CASE MovOut
  <2>1. /\ Ejecuta({"MOV_OUT"}) /\ Sigue(RMas)
        /\ Escribe(Mmu(cpu.pid, RMas[I.r], BytesDe(I.s)), EnBytes(RMas[I.s], BytesDe(I.s)))
    BY <1>7 DEF MovOut
  <2>b. I.op \in {"MOV_OUT"} /\ BienFormada(I) /\ RMas \in Juegos /\ cpu.pid \in Procesos BY <2>1, AlEjecutar
  <2>2. I.op = "MOV_OUT" /\ BienFormada(I) /\ RMas \in Juegos /\ cpu.pid \in Procesos BY <2>b
  <2>3. I.r \in Registros /\ I.s \in Registros BY <2>2 DEF BienFormada
  <2>4. Suyos(cpu.pid, RMas[I.r], BytesDe(I.s)) BY <2>1, <2>2, AccesosSuyos
  <2>a. PICK n \in Nat : n = BytesDe(I.s) /\ Ancho(I.s) = Potencia[n] BY <2>3, Anchos
  <2>5. PICK v \in 0 .. Potencia[n] - 1 : v = RMas[I.s] BY <2>2, <2>3, <2>a, Numeros
  <2>6. \A b \in 1 .. n : EnBytes(v, n)[b] \in 0 .. BASE - 1 BY ValorDeBytes
  <2>7. TiposDeMemoria BY <2>1, <2>2, <2>4, <2>5, <2>6, <2>a, EscritoDelAcceso DEF DInv, TiposDeMemoria
  <2>8. QED BY <1>1, <2>1, <2>2, <2>7
<1>8. CASE CopyString
  <2> DEFINE bytes == Leido(Mmu(cpu.pid, RMas["SI"], I.n))
  <2>1. /\ Ejecuta({"COPY_STRING"}) /\ Sigue(RMas)
        /\ Escribe(Mmu(cpu.pid, RMas["DI"], I.n), bytes)
    BY <1>8 DEF CopyString
  <2>b. I.op \in {"COPY_STRING"} /\ RMas \in Juegos /\ cpu.pid \in Procesos BY <2>1, AlEjecutar
  <2>2. I.op = "COPY_STRING" /\ RMas \in Juegos /\ cpu.pid \in Procesos BY <2>b
  <2>3. Suyos(cpu.pid, RMas["SI"], I.n) /\ Suyos(cpu.pid, RMas["DI"], I.n) BY <2>1, <2>2, AccesosSuyos
  <2>a. Valores BY DEF DInv
  <2>c. bytes = [b \in 1 .. I.n |-> memoria[Fisica(cpu.pid, RMas["SI"] + b - 1)]]
    BY <2>2, <2>3, <2>a, LeidoDelAcceso
  <2>d. \A b \in 1 .. I.n : memoria[Fisica(cpu.pid, RMas["SI"] + b - 1)] \in 0 .. BASE - 1
    BY <2>2, <2>3, <2>a, LeidoDelAcceso
  <2>4. \A b \in 1 .. I.n : bytes[b] \in 0 .. BASE - 1 BY <2>c, <2>d
  <2> HIDE DEF bytes
  <2>5. TiposDeMemoria BY <2>1, <2>2, <2>3, <2>4, EscritoDelAcceso DEF DInv, TiposDeMemoria
  <2>6. QED BY <1>1, <2>1, <2>2, <2>5
<1>9. CASE EjecutaExit
  <2> DEFINE m0 == [op |-> "EXIT_PROCESO", registros |-> AgregarRegistros(RMas), piezas |-> <<>>]
  <2>1. PICK m : m = m0 OBVIOUS
  <2>2. /\ Ejecuta({"EXIT"}) /\ desalojos' = Append(desalojos, m) /\ Sale /\ UNCHANGED memoria
    BY <1>9, <2>1 DEF EjecutaExit, Mensaje
  <2>3. m.op = "EXIT_PROCESO" /\ m.registros = AgregarRegistros(RMas) /\ m.piezas = <<>> BY <2>1
  <2>4. PiezasDe(cpu.pid, m.op, m.piezas) BY <2>3 DEF PiezasDe, OpsTexto
  <2>5. cpu'.registros = RMas BY <2>2, CpuTipo DEF Sale, CpuConTipo
  <2>6. cpu'.pid = cpu.pid /\ cpu'.fase = "chequea" BY <2>2, SaleConTipo
  <2> HIDE DEF m0
  <2>7. QED BY <2>2, <2>3, <2>4, <2>5, <2>6, DatosManda
<1>10. CASE EjecutaIO
  <2> DEFINE z == IF I.op = "IO_GEN_SLEEP" THEN <<>> ELSE Mmu(cpu.pid, RMas[I.r], RMas[I.s])
             m0 == [op |-> I.op, registros |-> AgregarRegistros(RMas), piezas |-> z]
  <2>1. PICK m : m = m0 OBVIOUS
  <2>2. /\ Ejecuta(InstruccionesIO) /\ desalojos' = Append(desalojos, m) /\ Sale /\ UNCHANGED memoria
    BY <1>10, <2>1 DEF EjecutaIO, Mensaje
  <2>3. m.op = I.op /\ m.registros = AgregarRegistros(RMas) /\ m.piezas = z BY <2>1
  <2>4. I.op \in InstruccionesIO /\ BienFormada(I) /\ RMas \in Juegos BY <2>2, AlEjecutar
  <2>5. PiezasDe(cpu.pid, I.op, z)
    <3>1. CASE I.op = "IO_GEN_SLEEP" BY <3>1 DEF PiezasDe, OpsTexto
    <3>2. CASE I.op # "IO_GEN_SLEEP"
      <4>1. I.op \in OpsTexto BY <2>4, <3>2 DEF InstruccionesIO, OpsTexto
      <4>2. Suyos(cpu.pid, RMas[I.r], RMas[I.s]) BY <2>2, <4>1, AccesosSuyos
      <4>3. PICK d \in Nat, n \in Nat : d = RMas[I.r] /\ n = RMas[I.s] BY <4>2 DEF Suyos
      <4>4. Suyos(cpu.pid, d, n) /\ z = Mmu(cpu.pid, d, n) BY <3>2, <4>2, <4>3
      <4> HIDE DEF z
      <4>5. QED BY <4>1, <4>4 DEF PiezasDe, DePiezas
    <3>3. QED BY <3>1, <3>2
  <2>6. cpu'.registros = RMas BY <2>2, CpuTipo DEF Sale, CpuConTipo
  <2>7. cpu'.pid = cpu.pid /\ cpu'.fase = "chequea" BY <2>2, SaleConTipo
  <2> HIDE DEF m0, z
  <2>8. PiezasDe(cpu.pid, m.op, m.piezas) BY <2>3, <2>5
  <2>9. QED BY <2>2, <2>3, <2>4, <2>6, <2>7, <2>8, DatosManda
<1>11. CASE EjecutaRecurso
  <2> DEFINE m0 == [op |-> I.op, registros |-> AgregarRegistros(RMas), piezas |-> <<>>]
  <2>1. PICK m : m = m0 OBVIOUS
  <2>2. /\ Ejecuta(InstruccionesRecurso) /\ desalojos' = Append(desalojos, m) /\ UNCHANGED memoria
        /\ cpu' = [cpu EXCEPT !.fase = "pide", !.registros = RMas]
    BY <1>11, <2>1 DEF EjecutaRecurso, Mensaje
  <2>3. m.op = I.op /\ m.registros = AgregarRegistros(RMas) /\ m.piezas = <<>> BY <2>1
  <2>4. I.op \in InstruccionesRecurso BY <2>2, AlEjecutar
  <2>5. PiezasDe(cpu.pid, m.op, m.piezas) BY <2>3, <2>4 DEF PiezasDe, OpsTexto, InstruccionesRecurso
  <2>6. cpu'.registros = RMas /\ cpu'.pid = cpu.pid /\ cpu'.fase = "pide" BY <2>2, CpuTipo DEF CpuConTipo
  <2> HIDE DEF m0
  <2>7. QED BY <2>2, <2>3, <2>4, <2>5, <2>6, DatosManda
<1>12. QED BY <1>2, <1>3, <1>4, <1>5, <1>6, <1>7, <1>8, <1>9, <1>10, <1>11 DEF Instruccion

\* Receiving a process keeps it: the CPU has the registers of the message.
LEMMA DatosRecibirProceso == ASSUME CInv, DInv, RecibirProceso PROVE DInv'
<1>1. /\ cpu.fase = "libre" /\ dispatch # <<>> /\ dispatch' = Tail(dispatch)
      /\ cpu' = [fase |-> "ejecuta", pid |-> Head(dispatch).pid,
                 registros |-> LeerRegistros(Head(dispatch).registros), desalojo |-> FALSE]
      /\ UNCHANGED <<programa, memoria, pcb, ordenes, kernel, desalojos, interrupt, interrupciones, pantalla>>
  BY DEF RecibirProceso, FaseInicial, nucleo, senales
<1>2. kernel # Nadie /\ desalojos = <<>> /\ EnCamino
  BY <1>1 DEF CInv, Protocolo, SinRafaga, Enviada, EnMarcha, Devuelta, CpuPide, Trabada, Nada
<1>3. Head(dispatch) = dispatch[1] /\ dispatch' = <<>> /\ dispatch[1].op = "EJECUTAR_PROCESO"
  BY <1>1, <1>2, Sockets DEF EnCamino, Manda
<1>4. kernel \in Procesos BY <1>2 DEF CInv, TiposDeControl
<1>5. 1 \in DOMAIN dispatch BY <1>2 DEF EnCamino
<1>6. dispatch[1].registros = AgregarRegistros(pcb[kernel].registros) BY <1>3, <1>5 DEF DInv, Envios
<1>7. pcb[kernel].registros \in Juegos BY <1>4 DEF DInv, Valores
<1>8. LeerRegistros(Head(dispatch).registros) = pcb[kernel].registros BY <1>3, <1>6, <1>7, IdaYVuelta
<1>9. cpu'.fase = "ejecuta" /\ cpu'.registros = pcb[kernel].registros BY <1>1, <1>8
<1>10. Valores' BY <1>1, <1>7, <1>9 DEF DInv, Valores
<1>11. Envios' /\ Devoluciones' BY <1>1, <1>2, <1>3, Vacios
<1>12. Ordenes' BY <1>1 DEF DInv, Ordenes, Orden1
<1>13. Peticiones' BY <1>1, <1>9 DEF DInv, Peticiones, CpuPide
<1>14. Trabas' BY <1>9 DEF Trabas
<1>15. QED BY <1>10, <1>11, <1>12, <1>13, <1>14 DEF DInv

\* The answer to WAIT and SIGNAL keeps it.
LEMMA DatosRecibirRespuesta == ASSUME CInv, DInv, RecibirRespuesta PROVE DInv'
<1>1. /\ cpu.fase = "pide" /\ dispatch # <<>> /\ dispatch' = Tail(dispatch)
      /\ UNCHANGED <<programa, memoria, pcb, ordenes, kernel, desalojos, interrupt, interrupciones, pantalla>>
  BY DEF RecibirRespuesta, nucleo, senales
<1>2. desalojos = <<>>
  BY <1>1 DEF CInv, Protocolo, SinRafaga, Enviada, EnMarcha, Devuelta, Nada
<1>3. \/ cpu' = [cpu EXCEPT !.fase = "chequea", !.desalojo = TRUE]
      \/ cpu' = [cpu EXCEPT !.fase = "chequea"]
      \/ cpu' = [cpu EXCEPT !.fase = "desfasada"] /\ Head(dispatch).op \notin {"CONTINUAR", "DESALOJAR"}
  BY DEF RecibirRespuesta
<1>4. /\ cpu'.fase \in {"chequea", "desfasada"} /\ cpu'.pid = cpu.pid /\ cpu'.registros = cpu.registros
      /\ cpu'.fase = "desfasada" => Head(dispatch).op \notin {"CONTINUAR", "DESALOJAR"}
  BY <1>3, CpuTipo DEF CpuConTipo
<1>5. Valores' BY <1>1, <1>4 DEF DInv, Valores
<1>6. Envios'
  <2>1. CASE Len(dispatch) = 1 /\ dispatch = <<dispatch[1]>>
    BY <1>1, <2>1, Sockets, Vacios
  <2>2. CASE EnCaminoDetras
    <3>1. PICK b : b = dispatch[2] OBVIOUS
    <3>2. dispatch' = <<b>> /\ b.op = "EJECUTAR_PROCESO" BY <1>1, <2>2, <3>1, Sockets DEF EnCaminoDetras, Manda
    <3>3. 2 \in DOMAIN dispatch BY <2>2 DEF EnCaminoDetras
    <3>4. b.registros = AgregarRegistros(pcb[kernel].registros) BY <3>1, <3>2, <3>3 DEF DInv, Envios
    <3>5. \A i \in DOMAIN dispatch' : dispatch'[i] = b BY <3>2
    <3>6. QED BY <1>1, <3>2, <3>4, <3>5 DEF Envios
  <2>3. QED
    BY <1>1, <2>1, <2>2 DEF CInv, Protocolo, SinRafaga, Enviada, EnMarcha, Devuelta, Nada, Uno, EnCamino, Trabada
<1>7. Devoluciones' BY <1>1, <1>2, Vacios
<1>8. Ordenes' BY <1>1 DEF DInv, Ordenes, Orden1
<1>9. Peticiones' BY <1>1, <1>4 DEF DInv, Peticiones, CpuPide
<1>10. Trabas'
  <2> SUFFICES ASSUME cpu'.fase = "desfasada" PROVE cpu.pid # kernel BY <1>1, <1>4 DEF Trabas
  <2>1. Head(dispatch).op \notin {"CONTINUAR", "DESALOJAR"} BY <1>4
  <2>2. ~(Uno("DESALOJAR")) /\ ~(Uno("CONTINUAR")) /\ ~EnCaminoDetras
    BY <2>1, Sockets DEF Uno, EnCaminoDetras
  <2>3. EnCamino /\ CpuColgada /\ kernel # Nadie
    BY <1>1, <1>2, <2>2
    DEF CInv, Protocolo, SinRafaga, Enviada, EnMarcha, Devuelta, Nada, Trabada, CpuLibera
  <2>4. pcb[cpu.pid].estado = "EXIT" /\ cpu.pid \in Procesos BY <2>3 DEF CpuColgada, CpuPide
  <2>5. QED BY <2>4 DEF CInv, EjecutaElDelKernel
<1>11. QED BY <1>5, <1>6, <1>7, <1>8, <1>9, <1>10 DEF DInv

\* An eviction keeps it: the message has the registers of the CPU.
LEMMA DatosCheckInterrupt == ASSUME CInv, DInv, CheckInterrupt PROVE DInv'
<1>1. /\ cpu.fase = "chequea" /\ interrupciones' \subseteq interrupciones
      /\ UNCHANGED <<programa, memoria, pcb, ordenes, kernel, dispatch, interrupt, pantalla>>
  BY DEF CheckInterrupt, nucleo
<1>2. cpu' = EnLibre \/ cpu' = [cpu EXCEPT !.fase = "ejecuta"] BY DEF CheckInterrupt
<1>3. cpu'.fase \in {"libre", "ejecuta"} /\ cpu'.registros \in Juegos
  <2>1. CASE cpu' = EnLibre BY <2>1, EnCeroEsJuego DEF EnLibre
  <2>2. CASE cpu' = [cpu EXCEPT !.fase = "ejecuta"] BY <2>2, CpuTipo DEF CpuConTipo, DInv, Valores
  <2>3. QED BY <1>2, <2>1, <2>2
<1>4. Valores' BY <1>1, <1>3 DEF DInv, Valores
<1>5. Envios' /\ Ordenes' BY <1>1 DEF DInv, Envios, Ordenes, Orden1
<1>6. Peticiones' BY <1>1, <1>3 DEF DInv, Peticiones, CpuPide
<1>7. Trabas' BY <1>3 DEF Trabas
<1>8. Devoluciones'
  <2>1. CASE Mias # {} /\ ~cpu.desalojo
    <3> DEFINE m0 == [op |-> Primera(Mias), registros |-> AgregarRegistros(R), piezas |-> <<>>]
    <3>1. PICK m : m = m0 OBVIOUS
    <3>2. desalojos' = Append(desalojos, m) BY <2>1, <3>1 DEF CheckInterrupt
    <3>3. m.op = Primera(Mias) /\ m.registros = AgregarRegistros(R) /\ m.piezas = <<>> BY <3>1
    <3> HIDE DEF m0
    <3>4. kernel \in Procesos /\ cpu.pid = kernel /\ desalojos = <<>> BY <1>1, <2>1, CpuEjecuta
    <3>5. desalojos' = <<m>> /\ desalojos'[1] = m BY <3>2, <3>4, Sockets
    <3>6. m.op \in Motivos BY <3>3 DEF Primera, Motivos
    <3>7. PICK g \in Juegos : g = R BY DEF DInv, Valores, R
    <3>8. m.op = "FINALIZAR_PROCESO" => pcb'[kernel].pedido
      <4> SUFFICES ASSUME m.op = "FINALIZAR_PROCESO" PROVE pcb[kernel].pedido BY <1>1
      <4>1. PICK x \in Mias : x[2] = "FINALIZAR_PROCESO" BY <3>3 DEF Primera
      <4>2. x \in Procesos \X Motivos /\ x[1] = kernel /\ x \in interrupciones
        BY <3>4 DEF Mias, CInv, TiposDeControl
      <4>3. x = <<kernel, "FINALIZAR_PROCESO">> BY <4>1, <4>2
      <4>4. QED BY <3>4, <4>2, <4>3 DEF DInv, Peticiones
    <3>9. m.op \notin InstruccionesRecurso /\ m.op \notin OpsTexto
      BY <3>6 DEF Motivos, InstruccionesRecurso, OpsTexto
    <3>10. EnvioDe(m)' BY <1>1, <3>3, <3>6, <3>7, <3>8, <3>9 DEF EnvioDe, PiezasDe
    <3>11. QED BY <3>5, <3>10 DEF Devoluciones
  <2>2. CASE Mias = {} /\ ~cpu.desalojo
    <3>1. desalojos = <<>> /\ desalojos' = desalojos BY <1>1, <2>2, CpuEjecuta DEF CheckInterrupt
    <3>2. QED BY <3>1, Vacios
  <2>3. CASE cpu.desalojo
    <3>1. desalojos' = desalojos BY <2>3 DEF CheckInterrupt
    <3>2. desalojos # <<>> => desalojos[1].op \notin InstruccionesRecurso
      BY <1>1 DEF CInv, Protocolo, SinRafaga, Enviada, EnMarcha, Devuelta, CpuPide
    <3>3. QED BY <1>1, <3>1, <3>2 DEF DInv, Devoluciones, EnvioDe
  <2>4. QED BY <2>1, <2>2, <2>3
<1>9. QED BY <1>4, <1>5, <1>6, <1>7, <1>8 DEF DInv

-----------------------------------------------------------------------------
(* The devices *)

\* The order that was done
LEMMA OrdenHecha ==
  ASSUME CInv, DInv, NEW p \in Procesos, NEW op \in InstruccionesIO, Orden(p, op)
  PROVE  /\ ordenes[p].op = op /\ PiezasDe(p, op, ordenes[p].piezas)
         /\ pcb[p].estado \notin {"READY", "EXEC"} /\ p # kernel
         /\ DOMAIN ordenes' = Procesos /\ ordenes'[p].op = "HECHA" /\ DOMAIN ordenes'[p] = {"op", "piezas"}
         /\ \A q \in Procesos : q # p => ordenes'[q] = ordenes[q]
         /\ UNCHANGED <<programa, pcb, listos, kernel, quantum, dispatch, desalojos, interrupt,
                        interrupciones, cpu>>
<1>1. /\ ordenes[p].op = op /\ ordenes' = [ordenes EXCEPT ![p].op = "HECHA"]
      /\ UNCHANGED <<programa, pcb, listos, kernel, quantum, dispatch, desalojos, interrupt,
                     interrupciones, cpu>>
  BY DEF Orden, senales
<1>2. Orden1(p) /\ DOMAIN ordenes = Procesos BY DEF DInv, Ordenes, CInv, TiposDeControl
<1>3. op # "HECHA" /\ op # "NADA" BY DEF InstruccionesIO
<1>4. PiezasDe(p, op, ordenes[p].piezas) /\ pcb[p].estado \notin {"READY", "EXEC"}
  BY <1>1, <1>2, <1>3 DEF Orden1, SinOrden
<1>5. p # kernel BY <1>4 DEF CInv, EjecutaElDelKernel
<1>6. QED BY <1>1, <1>2, <1>4, <1>5 DEF Orden1

\* A device that does an order keeps it.
LEMMA DatosOrden ==
  ASSUME CInv, DInv, NEW p \in Procesos, NEW op \in InstruccionesIO, Orden(p, op),
         TiposDeMemoria, DOMAIN pantalla' = Procesos
  PROVE  DInv'
<1>1. /\ UNCHANGED <<programa, pcb, kernel, dispatch, desalojos, interrupt, interrupciones, cpu>>
      /\ pcb[p].estado \notin {"READY", "EXEC"} /\ ordenes'[p].op = "HECHA"
      /\ DOMAIN ordenes'[p] = {"op", "piezas"}
      /\ \A q \in Procesos : q # p => ordenes'[q] = ordenes[q]
  BY OrdenHecha
<1>2. Valores' BY <1>1 DEF DInv, Valores, TiposDeMemoria
<1>3. Envios' BY <1>1 DEF DInv, Envios
<1>4. Devoluciones' BY <1>1, PedidaQuieta DEF DInv, Devoluciones, EnvioDe, R
<1>5. Orden1(p)' BY <1>1 DEF Orden1, OpsOrden
<1>6. Ordenes' BY <1>1, <1>5, OrdenesCambian DEF DInv
<1>7. Peticiones' BY <1>1, PedidaQuieta DEF DInv, Peticiones
<1>8. QED BY <1>1, <1>2, <1>3, <1>4, <1>6, <1>7, TrabasQuietas DEF DInv

\* What a STDIN device writes goes to the bytes of the order.
LEMMA EscribeElDispositivo ==
  ASSUME CInv, DInv, NEW p \in Procesos, IoStdinRead(p)
  PROVE  /\ Orden(p, "IO_STDIN_READ") /\ UNCHANGED pantalla /\ TiposDeMemoria
         /\ \E dir, n \in Nat :
              /\ Suyos(p, dir, n) /\ ordenes[p].piezas = Mmu(p, dir, n)
              /\ \E texto \in [1 .. n -> 0 .. BASE - 1] :
                   \A o \in Procesos, a \in Nat :
                     a < Len(Tablas[o]) * TAM_PAGINA =>
                       memoria'[Fisica(o, a)] = IF o = p /\ a \in dir .. dir + n - 1 THEN texto[a - dir + 1]
                                                ELSE memoria[Fisica(o, a)]
<1> DEFINE z == ordenes[p].piezas
<1>1. /\ Orden(p, "IO_STDIN_READ") /\ UNCHANGED pantalla
      /\ \/ \E texto \in [DOMAIN Fisicas(z) -> 0 .. BASE - 1] : Escribe(z, texto)
         \/ UNCHANGED memoria
  BY DEF IoStdinRead
<1>2. PiezasDe(p, "IO_STDIN_READ", z) BY <1>1, OrdenHecha DEF InstruccionesIO
<1>3. PICK dir \in Nat, n \in Nat : Suyos(p, dir, n) /\ z = Mmu(p, dir, n)
  BY <1>2 DEF PiezasDe, OpsTexto, DePiezas
<1> HIDE DEF z
<1>4. DOMAIN Fisicas(z) = 1 .. n BY <1>3, DireccionesDeMmu
<1>5. Valores BY DEF DInv
<1> DEFINE Queda(texto) ==
             \A o \in Procesos, a \in Nat :
               a < Len(Tablas[o]) * TAM_PAGINA =>
                 memoria'[Fisica(o, a)] = IF o = p /\ a \in dir .. dir + n - 1 THEN texto[a - dir + 1]
                                          ELSE memoria[Fisica(o, a)]
<1>6. TiposDeMemoria /\ \E texto \in [1 .. n -> 0 .. BASE - 1] : Queda(texto)
  <2>1. CASE UNCHANGED memoria
    <3>1. PICK t : t = [b \in 1 .. n |-> memoria[Fisica(p, dir + b - 1)]] OBVIOUS
    <3>2. t \in [1 .. n -> 0 .. BASE - 1] BY <1>3, <1>5, <3>1, LeidoDelAcceso
    <3>3. ASSUME NEW a \in Nat, a \in dir .. dir + n - 1 PROVE memoria[Fisica(p, a)] = t[a - dir + 1]
      <4>1. PICK b \in 1 .. n : b = a - dir + 1 /\ a = dir + b - 1 BY <1>3, <3>3
      <4>2. QED BY <3>1, <4>1
    <3>4. Queda(t) BY <2>1, <3>3
    <3> HIDE DEF Queda
    <3>5. QED BY <2>1, <3>2, <3>4, MemoriaQuieta
  <2>2. CASE \E texto \in [DOMAIN Fisicas(z) -> 0 .. BASE - 1] : Escribe(z, texto)
    <3>1. PICK t \in [1 .. n -> 0 .. BASE - 1] : Escribe(Mmu(p, dir, n), t) BY <1>3, <1>4, <2>2
    <3>2. TiposDeMemoria BY <1>3, <1>5, <3>1, EscritoDelAcceso DEF TiposDeMemoria
    <3>3. Queda(t) BY <1>3, <1>5, <3>1, EscritoDelAcceso
    <3> HIDE DEF Queda
    <3>4. QED BY <3>2, <3>3
  <2>3. QED BY <1>1, <2>1, <2>2 DEF z
<1>7. QED BY <1>1, <1>3, <1>6 DEF z

\* The three kinds of device keep it.
LEMMA DatosDispositivo == ASSUME CInv, DInv, NEW p \in Procesos, Dispositivo(p) PROVE DInv'
<1>0. DOMAIN pantalla = Procesos BY DEF DInv, Valores
<1>1. CASE IoStdinRead(p) BY <1>0, <1>1, EscribeElDispositivo, DatosOrden DEF InstruccionesIO
<1>2. CASE IoStdoutWrite(p)
  <2>1. /\ Orden(p, "IO_STDOUT_WRITE") /\ UNCHANGED memoria
        /\ pantalla' = [pantalla EXCEPT ![p] = Leido(ordenes[p].piezas)]
    BY <1>2 DEF IoStdoutWrite
  <2>2. DOMAIN pantalla' = Procesos BY <1>0, <2>1
  <2>3. QED BY <2>1, <2>2, MemoriaQuieta, DatosOrden DEF InstruccionesIO
<1>3. CASE IoGenSleep(p) BY <1>0, <1>3, MemoriaQuieta, DatosOrden DEF IoGenSleep, InstruccionesIO
<1>4. QED BY <1>1, <1>2, <1>3 DEF Dispositivo

-----------------------------------------------------------------------------
(* The type invariant *)

\* The data invariant holds at the start.
LEMMA DatosAlEmpezar == ASSUME Init PROVE DInv
<1> USE DEF Init
<1>1. BASE \in Nat \ {0} BY AnchosPares
<1>2. memoria \in [0 .. MARCOS * TAM_PAGINA - 1 -> 0 .. BASE - 1]
  <2>1. 0 \in 0 .. BASE - 1 BY <1>1
  <2>2. QED BY <2>1
<1>3. Valores BY <1>2, EnCeroEsJuego DEF Valores
<1>4. Envios /\ Devoluciones BY DEF Envios, Devoluciones
<1>5. Ordenes BY DEF Ordenes, Orden1, SinOrden, OpsOrden, PiezasDe, OpsTexto
<1>6. Peticiones /\ Trabas BY DEF Peticiones, Trabas, CpuPide
<1>7. QED BY <1>3, <1>4, <1>5, <1>6 DEF DInv

\* A step that changes nothing keeps the data invariant.
LEMMA DatosQuietos == ASSUME CInv, DInv, UNCHANGED vars PROVE DInv'
<1>1. UNCHANGED <<programa, memoria, pcb, ordenes, kernel, dispatch, desalojos, interrupt,
                  interrupciones, cpu, pantalla>>
  BY DEF vars
<1>2. Valores' BY <1>1 DEF DInv, Valores
<1>3. Envios' /\ Ordenes' BY <1>1 DEF DInv, Envios, Ordenes, Orden1
<1>4. Devoluciones' BY <1>1, PedidaQuieta DEF DInv, Devoluciones, EnvioDe, R
<1>5. Peticiones' BY <1>1, PedidaQuieta DEF DInv, Peticiones
<1>6. QED BY <1>1, <1>2, <1>3, <1>4, <1>5, TrabasQuietas DEF DInv

\* Every step keeps the data invariant, for programs that ask only for what they
\* have.
LEMMA DatosPaso == ASSUME CInv, DInv, AccesosEnRango, [Next]_vars PROVE DInv'
<1>1. CASE Kernel
  BY <1>1, DatosPlanificar, DatosRecibeFin, DatosRecibeFinQuantum, DatosRecibeIO,
    DatosRecibeRecursoContinua, DatosRecibeRecursoDesaloja, DatosDesbloquear
  DEF Kernel
<1>2. CASE ControlQuantum BY <1>2, DatosControlQuantum
<1>3. CASE Dispatch
  BY <1>3, DatosRecibirProceso, DatosInstruccion, DatosRecibirRespuesta, DatosCheckInterrupt
  DEF Dispatch
<1>4. CASE RecibirInterrupcion BY <1>4, DatosRecibirInterrupcion
<1>5. CASE \E p \in Procesos : Dispositivo(p) BY <1>5, DatosDispositivo
<1>6. CASE \E p \in Finalizables : FinalizarEnEjecucion(p) \/ FinalizarFuera(p)
  BY <1>6, ProcesosFinitos, DatosFinalizarEnEjecucion, DatosFinalizarFuera
<1>7. CASE UNCHANGED vars BY <1>7, DatosQuietos
<1>8. QED BY <1>1, <1>2, <1>3, <1>4, <1>5, <1>6, <1>7 DEF Next

\* The control and the data invariants hold in every state.
LEMMA InvarianteDatos == Spec /\ []AccesosEnRango => [](CInv /\ DInv)
<1>1. Init => CInv /\ DInv BY CInvInicial, DatosAlEmpezar
<1>2. CInv /\ DInv /\ AccesosEnRango /\ [Next]_vars => CInv' /\ DInv' BY CInvPaso, DatosPaso
<1>3. QED BY <1>1, <1>2, PTL DEF Spec

\* Programs that ask only for what they have leave bytes in memory and, in the
\* PCBs and in the CPU, values that the types of the registers hold
\* (ciclo_instruccion, buffer_add_registros, recupera_contexto_proceso).
THEOREM TiposDeLaCpu == Spec /\ []AccesosEnRango => []TypeOK
<1>1. CInv /\ DInv => TypeOK
  <2> SUFFICES ASSUME CInv, DInv PROVE TypeOK OBVIOUS
  <2>1. \A p \in Procesos : /\ pcb[p].estado \in EstadosPcb /\ pcb[p].pedido \in BOOLEAN
                            /\ pcb[p].registros \in Juegos
    BY DEF CInv, TiposDeControl, DInv, Valores
  <2>2. \A a \in DOMAIN memoria : memoria[a] \in 0 .. BASE - 1 BY DEF DInv, Valores
  <2>3. Len(dispatch) <= 2 /\ Len(desalojos) <= 1
    <3>1. (dispatch = <<>> => Len(dispatch) = 0) /\ (desalojos = <<>> => Len(desalojos) = 0) BY Mensajes
    <3>2. CASE SinRafaga BY <3>1, <3>2 DEF SinRafaga, Nada, Uno
    <3>3. CASE Enviada
      <4>1. EnCamino => Len(dispatch) = 1 BY DEF EnCamino
      <4>2. EnCaminoDetras => Len(dispatch) = 2 BY DEF EnCaminoDetras
      <4>3. desalojos = <<>> BY <3>3 DEF Enviada
      <4>4. Len(dispatch) = 1 \/ Len(dispatch) = 2 BY <3>3, <4>1, <4>2 DEF Enviada
      <4>5. Len(desalojos) = 0 BY <3>1, <4>3
      <4>6. CASE Len(dispatch) = 1 BY <4>5, <4>6
      <4>7. CASE Len(dispatch) = 2 BY <4>5, <4>7
      <4>8. QED BY <4>4, <4>6, <4>7
    <3>4. CASE EnMarcha
      <4>1. \A op \in {"DESALOJAR", "CONTINUAR"} : Uno(op) => Len(dispatch) = 1 BY DEF Uno
      <4>2. Nada \/ Uno("DESALOJAR") \/ Uno("CONTINUAR") BY <3>4 DEF EnMarcha
      <4>3. dispatch = <<>> \/ Len(dispatch) = 1 BY <4>1, <4>2 DEF Nada
      <4>4. desalojos = <<>> BY <3>4 DEF EnMarcha
      <4>5. Len(dispatch) \in {0, 1} /\ Len(desalojos) = 0 BY <3>1, <4>3, <4>4
      <4>6. QED BY <4>5
    <3>5. CASE Devuelta BY <3>1, <3>5 DEF Devuelta, Nada
    <3>6. QED BY <3>2, <3>3, <3>4, <3>5 DEF CInv, Protocolo
  <2>4. /\ kernel \in Procesos \cup {Nadie} /\ quantum \in BOOLEAN
        /\ interrupciones \subseteq Procesos \X {"FINALIZAR_PROCESO", "FIN_QUANTUM"}
        /\ cpu.fase \in {"libre", "ejecuta", "chequea", "pide", "desfasada", "caida"}
        /\ cpu.pid \in Procesos \cup {Nadie} /\ cpu.registros \in Juegos
    BY DEF CInv, TiposDeControl, Motivos, Fases, DInv, Valores
  <2>5. QED BY <2>1, <2>2, <2>3, <2>4 DEF TypeOK
<1>2. QED BY <1>1, InvarianteDatos, PTL
=============================================================================
