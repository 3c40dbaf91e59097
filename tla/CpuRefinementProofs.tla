------------------------ MODULE CpuRefinementProofs ------------------------
(***************************************************************************)
(* Cpu implements MaquinaPropia, for any programs that stay within their   *)
(* memory, any widths and any page tables: the machine of each process is  *)
(* found by the place its context is in, and every step is an instruction, *)
(* the end of a wait, a request or an end in the machine of one process,   *)
(* or nothing.                                                             *)
(***************************************************************************)
EXTENDS CpuProofs

-----------------------------------------------------------------------------
(* Changes of one machine *)

Pantalla(p) == IF pcb[p].estado = "EXIT" THEN <<>> ELSE pantalla[p]

\* The step does nothing to the machine of q.
Igual(q) ==
  /\ Maquina(q)' = Maquina(q) /\ Espacio(q)' = Espacio(q)
  /\ Pantalla(q)' = Pantalla(q) /\ pcb'[q].pedido = pcb[q].pedido

\* Nor to any other one than that of p.
SoloDe(p) == programa' = programa /\ \A q \in Procesos : q # p => Igual(q)

\* What happens to the machine of one process is, for the functions of all, an
\* update at that process.
LEMMA Puntual ==
  ASSUME NEW p \in Procesos, SoloDe(p)
  PROVE  /\ \A m : Maquina(p)' = m =>
              [q \in Procesos |-> Maquina(q)]' = [[q \in Procesos |-> Maquina(q)] EXCEPT ![p] = m]
         /\ \A e : Espacio(p)' = e =>
              [q \in Procesos |-> Espacio(q)]' = [[q \in Procesos |-> Espacio(q)] EXCEPT ![p] = e]
         /\ \A t : Pantalla(p)' = t =>
              [q \in Procesos |-> IF pcb[q].estado = "EXIT" THEN <<>> ELSE pantalla[q]]'
                = [[q \in Procesos |-> IF pcb[q].estado = "EXIT" THEN <<>> ELSE pantalla[q]] EXCEPT ![p] = t]
         /\ pcb'[p].pedido = pcb[p].pedido =>
              {q \in Procesos : pcb[q].pedido}' = {q \in Procesos : pcb[q].pedido}
         /\ pcb'[p].pedido =>
              {q \in Procesos : pcb[q].pedido}' = {q \in Procesos : pcb[q].pedido} \cup {p}
         /\ p \in {q \in Procesos : pcb[q].pedido}' <=> pcb'[p].pedido
<1>1. \A m : Maquina(p)' = m =>
              [q \in Procesos |-> Maquina(q)]' = [[q \in Procesos |-> Maquina(q)] EXCEPT ![p] = m]
  BY DEF SoloDe, Igual
<1>2. \A e : Espacio(p)' = e =>
              [q \in Procesos |-> Espacio(q)]' = [[q \in Procesos |-> Espacio(q)] EXCEPT ![p] = e]
  BY DEF SoloDe, Igual
<1>3. \A t : Pantalla(p)' = t =>
              [q \in Procesos |-> IF pcb[q].estado = "EXIT" THEN <<>> ELSE pantalla[q]]'
                = [[q \in Procesos |-> IF pcb[q].estado = "EXIT" THEN <<>> ELSE pantalla[q]] EXCEPT ![p] = t]
  BY DEF SoloDe, Igual, Pantalla
<1>4. pcb'[p].pedido = pcb[p].pedido =>
              {q \in Procesos : pcb[q].pedido}' = {q \in Procesos : pcb[q].pedido}
  BY DEF SoloDe, Igual
<1>5. pcb'[p].pedido =>
              {q \in Procesos : pcb[q].pedido}' = {q \in Procesos : pcb[q].pedido} \cup {p}
  BY DEF SoloDe, Igual
<1>6. p \in {q \in Procesos : pcb[q].pedido}' <=> pcb'[p].pedido
  OBVIOUS
<1>7. QED BY <1>1, <1>2, <1>3, <1>4, <1>5, <1>6

\* If no machine changes, the step is one the abstract machine does not see.
LEMMA NadaCambia ==
  ASSUME programa' = programa, \A q \in Procesos : Igual(q)
  PROVE  UNCHANGED Abstracta!vars
<1>1. [q \in Procesos |-> Maquina(q)]' = [q \in Procesos |-> Maquina(q)] BY DEF Igual
<1>2. [q \in Procesos |-> Espacio(q)]' = [q \in Procesos |-> Espacio(q)] BY DEF Igual
<1>3. [q \in Procesos |-> IF pcb[q].estado = "EXIT" THEN <<>> ELSE pantalla[q]]'
      = [q \in Procesos |-> IF pcb[q].estado = "EXIT" THEN <<>> ELSE pantalla[q]]
  BY DEF Igual, Pantalla
<1>4. {q \in Procesos : pcb[q].pedido}' = {q \in Procesos : pcb[q].pedido} BY DEF Igual
<1>5. QED BY <1>1, <1>2, <1>3, <1>4 DEF Abstracta!vars

\* When a machine is put out of use after a request or a wait, its process
\* ends.
LEMMA EsTerminar ==
  ASSUME NEW p \in Procesos, SoloDe(p), Maquina(p).modo # "fin",
         pcb'[p].pedido \/ (Maquina(p).modo # "corre" /\ pcb'[p].pedido = pcb[p].pedido),
         Maquina(p)' = [modo |-> "fin", regs |-> EnCero, es |-> <<>>],
         Espacio(p)' = [a \in 0 .. Tamanio(p) - 1 |-> 0], Pantalla(p)' = <<>>
  PROVE  Abstracta!Terminar(p)
<1>1. programa' = programa BY DEF SoloDe
<1>2. [modo |-> "fin", regs |-> EnCero, es |-> <<>>] = Abstracta!Apagada BY DEF Abstracta!Apagada, EnCero
<1>3. [q \in Procesos |-> Maquina(q)]' = [[q \in Procesos |-> Maquina(q)] EXCEPT ![p] = Abstracta!Apagada]
  BY <1>2, Puntual
<1>4. [q \in Procesos |-> Espacio(q)]' = [[q \in Procesos |-> Espacio(q)] EXCEPT ![p] = Abstracta!Vacio(p)]
  BY Puntual DEF Abstracta!Vacio
<1>5. [q \in Procesos |-> IF pcb[q].estado = "EXIT" THEN <<>> ELSE pantalla[q]]'
        = [[q \in Procesos |-> IF pcb[q].estado = "EXIT" THEN <<>> ELSE pantalla[q]] EXCEPT ![p] = <<>>]
  BY Puntual
<1>6. [q \in Procesos |-> Maquina(q)][p] = Maquina(p) OBVIOUS
<1>7. {q \in Procesos : pcb[q].pedido}' \in {{q \in Procesos : pcb[q].pedido}, {q \in Procesos : pcb[q].pedido} \cup {p}}
  BY Puntual
<1>8. Maquina(p).modo = "corre" => p \in {q \in Procesos : pcb[q].pedido}' BY Puntual
<1>9. QED BY <1>1, <1>3, <1>4, <1>5, <1>6, <1>7, <1>8 DEF Abstracta!Terminar

-----------------------------------------------------------------------------
(* The machine of each process, by the place of its context *)

Corre(g) == [modo |-> "corre", regs |-> g, es |-> <<>>]

\* The logical addresses of some pieces
Logicas(p, z) == [b \in DOMAIN Fisicas(z) |-> Logica(p, Fisicas(z)[b])]

\* A process that is not in EXEC: its machine is in the PCB and in its order.
Reposo(p, b, o) ==
  IF b.estado = "EXIT" THEN [modo |-> "fin", regs |-> EnCero, es |-> <<>>]
  ELSE [modo |-> IF b.estado = "BLOCKED" THEN IF o.op = "HECHA" THEN "corre" ELSE o.op ELSE "corre",
        regs |-> b.registros,
        es |-> IF o.op = "HECHA" THEN Logicas(p, <<>>) ELSE Logicas(p, o.piezas)]

\* Nothing is sent but to the process of the burst.
LEMMA Destinos ==
  ASSUME CInv, DInv, NEW k \in DOMAIN dispatch
  PROVE  /\ dispatch[k].op = "EJECUTAR_PROCESO" => kernel # Nadie /\ dispatch[k].pid = kernel
         /\ dispatch[k].op # "EJECUTAR_PROCESO" => dispatch[k].pid = Nadie
<1>1. dispatch[k].op # "EJECUTAR_PROCESO" => dispatch[k].pid = Nadie BY DEF DInv, Envios
<1>2. Nada => FALSE
  <2>1. DOMAIN <<>> = {} OBVIOUS
  <2>2. QED BY <2>1 DEF Nada
<1>3. \A op : Uno(op) => dispatch[k].op = op
  <2>1. ASSUME NEW op, Uno(op) PROVE dispatch[k].op = op
    <3>1. dispatch = <<dispatch[1]>> /\ dispatch[1].op = op BY <2>1 DEF Uno
    <3>2. DOMAIN <<dispatch[1]>> = {1} OBVIOUS
    <3>3. k = 1 BY <3>1, <3>2
    <3>4. QED BY <3>1, <3>3
  <2>2. QED BY <2>1
<1>4. EnCamino => Manda(dispatch[k])
  <2>1. SUFFICES ASSUME EnCamino PROVE Manda(dispatch[k]) OBVIOUS
  <2>2. dispatch = <<dispatch[1]>> /\ Manda(dispatch[1]) BY <2>1 DEF EnCamino
  <2>3. DOMAIN <<dispatch[1]>> = {1} OBVIOUS
  <2>4. k = 1 BY <2>2, <2>3
  <2>5. QED BY <2>2, <2>4
<1>5. EnCaminoDetras => dispatch[k].op = "DESALOJAR" \/ Manda(dispatch[k])
  <2>1. SUFFICES ASSUME EnCaminoDetras PROVE dispatch[k].op = "DESALOJAR" \/ Manda(dispatch[k]) OBVIOUS
  <2>2. dispatch = <<dispatch[1], dispatch[2]>> /\ dispatch[1].op = "DESALOJAR" /\ Manda(dispatch[2])
    BY <2>1 DEF EnCaminoDetras
  <2>3. DOMAIN <<dispatch[1], dispatch[2]>> = {1, 2} OBVIOUS
  <2>4. k = 1 \/ k = 2 BY <2>2, <2>3
  <2>5. QED BY <2>2, <2>4
<1>6. dispatch[k].op = "EJECUTAR_PROCESO" => kernel # Nadie /\ dispatch[k].pid = kernel
  BY <1>2, <1>3, <1>4, <1>5 DEF CInv, Protocolo, SinRafaga, Enviada, EnMarcha, Devuelta, Manda
<1>7. QED BY <1>1, <1>6

\* The machine of a process that is not in EXEC is in its PCB and in its order.
LEMMA VistaQuieta ==
  CInv /\ DInv => \A q \in Procesos : q # kernel => Maquina(q) = Reposo(q, pcb[q], ordenes[q])
<1> SUFFICES ASSUME CInv, DInv, NEW q \in Procesos, q # kernel
             PROVE  Maquina(q) = Reposo(q, pcb[q], ordenes[q])
  OBVIOUS
<1>1. pcb[q].estado # "EXEC" /\ pcb[q].estado \in EstadosPcb BY DEF CInv, EjecutaElDelKernel, TiposDeControl
<1>2. ~Devuelto(q) /\ ~EnCpu(q) BY <1>1 DEF Devuelto, EnCpu
<1>3. q # Nadie BY ProcesosFinitos
<1>4. ~Enviado(q) BY <1>3, Destinos DEF Enviado
<1>5. RegistrosDe(q) = pcb[q].registros BY <1>2, <1>4 DEF RegistrosDe
<1>6. ModoDe(q) = IF pcb[q].estado = "BLOCKED" THEN IF ordenes[q].op = "HECHA" THEN "corre" ELSE ordenes[q].op
                  ELSE "corre"
  BY <1>2 DEF ModoDe
<1>7. Piezas(q) = IF ordenes[q].op = "HECHA" THEN <<>> ELSE ordenes[q].piezas BY <1>2 DEF Piezas
<1>8. Maquina(q) = IF pcb[q].estado = "EXIT" THEN [modo |-> "fin", regs |-> EnCero, es |-> <<>>]
                   ELSE [modo |-> ModoDe(q), regs |-> RegistrosDe(q), es |-> Logicas(q, Piezas(q))]
  BY DEF Maquina, Logicas
<1>9. Logicas(q, Piezas(q)) = IF ordenes[q].op = "HECHA" THEN Logicas(q, <<>>) ELSE Logicas(q, ordenes[q].piezas)
  BY <1>7
<1>10. QED BY <1>5, <1>6, <1>8, <1>9 DEF Reposo

\* No pieces, no addresses.
LEMMA SinPiezas == ASSUME NEW p PROVE Logicas(p, <<>>) = <<>>
<1>1. PICK s : s = [k \in DOMAIN <<>> |-> [b \in 1 .. <<>>[k].bytes |-> <<>>[k].dir + b - 1]] OBVIOUS
<1>a. s = <<>> BY <1>1
<1>b. FlattenSeq(s) = <<>> BY <1>a DEF FlattenSeq
<1>c. Fisicas(<<>>) = FlattenSeq(s) BY <1>1 DEF Fisicas
<1>2. QED BY <1>b, <1>c DEF Logicas

\* While the process is on its way to the CPU, its registers are those of the
\* PCB.
LEMMA VistaEnviada ==
  CInv /\ DInv /\ Enviada => Maquina(kernel) = Corre(pcb[kernel].registros)
<1> SUFFICES ASSUME CInv, DInv, Enviada PROVE Maquina(kernel) = Corre(pcb[kernel].registros) OBVIOUS
<1>1. kernel \in Procesos /\ pcb[kernel].estado = "EXEC" /\ desalojos = <<>>
  BY DEF CInv, TiposDeControl, EjecutaElDelKernel, Enviada
<1>2. ordenes[kernel] = SinOrden BY <1>1 DEF DInv, Ordenes, Orden1
<1>3. ~Devuelto(kernel) BY <1>1 DEF Devuelto
<1>4. Enviado(kernel)
  <2>1. EnCamino => 1 \in DOMAIN dispatch /\ dispatch[1].pid = kernel BY DEF EnCamino, Manda
  <2>2. EnCaminoDetras => 2 \in DOMAIN dispatch /\ dispatch[2].pid = kernel BY DEF EnCaminoDetras, Manda
  <2>3. QED BY <2>1, <2>2 DEF Enviada, Enviado
<1>5. Enviados(kernel) = AgregarRegistros(pcb[kernel].registros)
  <2>1. PICK k \in DOMAIN dispatch : k = CHOOSE j \in DOMAIN dispatch : dispatch[j].pid = kernel
    BY <1>4 DEF Enviado
  <2>2. dispatch[k].pid = kernel BY <1>4, <2>1 DEF Enviado
  <2>3. dispatch[k].op = "EJECUTAR_PROCESO" BY <1>1, <2>2, Destinos, ProcesosFinitos
  <2>4. dispatch[k].registros = AgregarRegistros(pcb[kernel].registros) BY <2>3 DEF DInv, Envios
  <2>5. QED BY <2>1, <2>4 DEF Enviados
<1>6. pcb[kernel].registros \in Juegos BY <1>1 DEF DInv, Valores
<1>7. RegistrosDe(kernel) = pcb[kernel].registros BY <1>4, <1>5, <1>6, IdaYVuelta DEF RegistrosDe, EnCpu
<1>8. ModoDe(kernel) = "corre" BY <1>1, <1>3, <1>4 DEF ModoDe, EnCpu
<1>9. Piezas(kernel) = <<>> BY <1>2, <1>3 DEF Piezas, SinOrden
<1>10. Maquina(kernel) = [modo |-> ModoDe(kernel), regs |-> RegistrosDe(kernel), es |-> Logicas(kernel, Piezas(kernel))]
  BY <1>1 DEF Maquina, Logicas
<1>11. QED BY <1>7, <1>8, <1>9, <1>10, SinPiezas DEF Corre

\* While it runs they are in the CPU; after WAIT or SIGNAL it waits for the
\* answer.
LEMMA VistaEnCpu ==
  CInv /\ DInv /\ kernel # Nadie /\ desalojos = <<>> /\ cpu.pid = kernel /\ ~cpu.desalojo
       /\ (Nada \/ Uno("CONTINUAR"))
    => Maquina(kernel) = [Corre(R) EXCEPT !.modo = IF cpu.fase = "pide" THEN Pedida ELSE "corre"]
<1> SUFFICES ASSUME CInv, DInv, kernel # Nadie, desalojos = <<>>, cpu.pid = kernel, ~cpu.desalojo,
                    Nada \/ Uno("CONTINUAR")
             PROVE  Maquina(kernel) = [Corre(R) EXCEPT !.modo = IF cpu.fase = "pide" THEN Pedida ELSE "corre"]
  OBVIOUS
<1>1. kernel \in Procesos /\ pcb[kernel].estado = "EXEC" BY DEF CInv, TiposDeControl, EjecutaElDelKernel
<1>2. ordenes[kernel] = SinOrden BY <1>1 DEF DInv, Ordenes, Orden1
<1>3. ~Devuelto(kernel) BY DEF Devuelto
<1>4. ~Enviado(kernel)
  <2>1. SUFFICES ASSUME NEW k \in DOMAIN dispatch PROVE dispatch[k].pid # kernel BY DEF Enviado
  <2>2. dispatch # <<>>
    <3>1. DOMAIN <<>> = {} OBVIOUS
    <3>2. QED BY <2>1, <3>1
  <2>3. dispatch = <<dispatch[1]>> /\ dispatch[1].op = "CONTINUAR" BY <2>2 DEF Nada, Uno
  <2>4. DOMAIN <<dispatch[1]>> = {1} OBVIOUS
  <2>5. k = 1 BY <2>3, <2>4
  <2>6. dispatch[k].op # "EJECUTAR_PROCESO" BY <2>3, <2>5
  <2>7. QED BY <2>6, Destinos
<1>5. EnCpu(kernel) BY <1>1, <1>3, <1>4 DEF EnCpu
<1>6. RegistrosDe(kernel) = R BY <1>5 DEF RegistrosDe
<1>7. ModoDe(kernel) = IF cpu.fase = "pide" THEN Pedida ELSE "corre"
  BY <1>1, <1>3, <1>5 DEF ModoDe, Pedida
<1>8. Piezas(kernel) = <<>> BY <1>2, <1>3 DEF Piezas, SinOrden
<1>9. Maquina(kernel) = [modo |-> ModoDe(kernel), regs |-> RegistrosDe(kernel), es |-> Logicas(kernel, Piezas(kernel))]
  BY <1>1 DEF Maquina, Logicas
<1>10. QED BY <1>6, <1>7, <1>8, <1>9, SinPiezas DEF Corre

\* A CPU out of step has lost the process, which is as its PCB says.
LEMMA VistaDesfasada ==
  CInv /\ DInv /\ cpu.fase = "desfasada" => Maquina(kernel) = Corre(pcb[kernel].registros)
<1> SUFFICES ASSUME CInv, DInv, cpu.fase = "desfasada" PROVE Maquina(kernel) = Corre(pcb[kernel].registros) OBVIOUS
<1>1. kernel # Nadie /\ desalojos = <<>> /\ dispatch = <<>> /\ cpu.pid # kernel
  BY SinTrabas DEF DInv, Trabas
<1>2. kernel \in Procesos /\ pcb[kernel].estado = "EXEC" BY <1>1 DEF CInv, TiposDeControl, EjecutaElDelKernel
<1>3. ordenes[kernel] = SinOrden BY <1>2 DEF DInv, Ordenes, Orden1
<1>4. ~Devuelto(kernel) /\ ~EnCpu(kernel) BY <1>1 DEF Devuelto, EnCpu
<1>5. ~Enviado(kernel)
  <2>1. DOMAIN <<>> = {} OBVIOUS
  <2>2. QED BY <1>1, <2>1 DEF Enviado
<1>6. RegistrosDe(kernel) = pcb[kernel].registros BY <1>4, <1>5 DEF RegistrosDe
<1>7. ModoDe(kernel) = "corre" BY <1>2, <1>4 DEF ModoDe
<1>8. Piezas(kernel) = <<>> BY <1>3, <1>4 DEF Piezas, SinOrden
<1>9. Maquina(kernel) = [modo |-> ModoDe(kernel), regs |-> RegistrosDe(kernel), es |-> Logicas(kernel, Piezas(kernel))]
  BY <1>2 DEF Maquina, Logicas
<1>10. QED BY <1>6, <1>7, <1>8, <1>9, SinPiezas DEF Corre

\* What the reason of the return says of the program
AlVolver(op) ==
  CASE op = "EXIT_PROCESO" -> "termina"
    [] op \in Motivos -> "corre"
    [] OTHER -> op

\* Once evicted, the registers, the reason and the addresses are in the
\* message.
LEMMA VistaDevuelta ==
  CInv /\ DInv /\ kernel # Nadie /\ desalojos # <<>>
    => Maquina(kernel) = [modo |-> AlVolver(desalojos[1].op), regs |-> Traidos(desalojos[1].registros),
                          es |-> Logicas(kernel, desalojos[1].piezas)]
<1> SUFFICES ASSUME CInv, DInv, kernel # Nadie, desalojos # <<>>
             PROVE  Maquina(kernel) = [modo |-> AlVolver(desalojos[1].op), regs |-> Traidos(desalojos[1].registros),
                                       es |-> Logicas(kernel, desalojos[1].piezas)]
  OBVIOUS
<1>1. kernel \in Procesos /\ pcb[kernel].estado = "EXEC" /\ Head(desalojos) = desalojos[1] /\ dispatch = <<>>
  BY HayMensaje
<1>2. Devuelto(kernel) /\ ~EnCpu(kernel) BY DEF Devuelto, EnCpu
<1>3. ~Enviado(kernel)
  <2>1. DOMAIN <<>> = {} OBVIOUS
  <2>2. QED BY <1>1, <2>1 DEF Enviado
<1>4. RegistrosDe(kernel) = Traidos(desalojos[1].registros) BY <1>1, <1>2, <1>3 DEF RegistrosDe
<1>5. ModoDe(kernel) = AlVolver(desalojos[1].op) BY <1>1, <1>2 DEF ModoDe, AlVolver, Motivos
<1>6. Piezas(kernel) = desalojos[1].piezas BY <1>1, <1>2 DEF Piezas
<1>7. Maquina(kernel) = [modo |-> ModoDe(kernel), regs |-> RegistrosDe(kernel), es |-> Logicas(kernel, Piezas(kernel))]
  BY <1>1 DEF Maquina, Logicas
<1>8. QED BY <1>4, <1>5, <1>6, <1>7

\* The memory of a process
LEMMA VistaEspacio ==
  \A p \in Procesos : Espacio(p) = [a \in 0 .. Tamanio(p) - 1 |->
                                     IF pcb[p].estado = "EXIT" THEN 0 ELSE memoria[Fisica(p, a)]]
BY DEF Espacio, Fisica

\* All together, before a step and after it
Vista(p) ==
  /\ p # kernel => Maquina(p) = Reposo(p, pcb[p], ordenes[p])
  /\ p = kernel /\ Enviada => Maquina(p) = Corre(pcb[p].registros)
  /\ p = kernel /\ cpu.fase = "desfasada" => Maquina(p) = Corre(pcb[p].registros)
  /\ p = kernel /\ desalojos = <<>> /\ cpu.pid = p /\ ~cpu.desalojo /\ (Nada \/ Uno("CONTINUAR"))
       => Maquina(p) = [modo |-> IF cpu.fase = "pide" THEN Pedida ELSE "corre",
                        regs |-> cpu.registros, es |-> <<>>]
  /\ p = kernel /\ desalojos # <<>>
       => Maquina(p) = [modo |-> AlVolver(desalojos[1].op), regs |-> Traidos(desalojos[1].registros),
                        es |-> Logicas(p, desalojos[1].piezas)]

TodasLasVistas == \A p \in Procesos : Vista(p)

\* At any moment the machine of each process is the one its place says.
LEMMA Vistas == CInv /\ DInv => TodasLasVistas
<1> SUFFICES ASSUME CInv, DInv, NEW p \in Procesos PROVE Vista(p) BY DEF TodasLasVistas
<1>1. p # Nadie BY ProcesosFinitos
<1>2. p = kernel /\ desalojos = <<>> /\ cpu.pid = p /\ ~cpu.desalojo /\ (Nada \/ Uno("CONTINUAR"))
         => Maquina(p) = [modo |-> IF cpu.fase = "pide" THEN Pedida ELSE "corre",
                          regs |-> cpu.registros, es |-> <<>>]
  BY <1>1, VistaEnCpu DEF Corre, R
<1>3. p = kernel /\ desalojos # <<>>
         => Maquina(p) = [modo |-> AlVolver(desalojos[1].op), regs |-> Traidos(desalojos[1].registros),
                          es |-> Logicas(p, desalojos[1].piezas)]
  BY <1>1, VistaDevuelta
<1>4. QED BY <1>2, <1>3, VistaQuieta, VistaEnviada, VistaDesfasada DEF Vista

\* And so after a step.
LEMMA VistasDespues == CInv' /\ DInv' => \A p \in Procesos : Vista(p)'
<1>1. CInv' /\ DInv' => TodasLasVistas' BY Vistas, PTL
<1>2. QED BY <1>1 DEF TodasLasVistas

MemoriaIgual(q) ==
  \A a \in Nat : a < Len(Tablas[q]) * TAM_PAGINA => memoria'[Fisica(q, a)] = memoria[Fisica(q, a)]

\* The memory of a process does not change if none of its bytes does.
LEMMA EspacioIgual ==
  ASSUME NEW q \in Procesos, pcb'[q].estado = "EXIT" <=> pcb[q].estado = "EXIT",
         pcb[q].estado # "EXIT" => MemoriaIgual(q)
  PROVE  Espacio(q)' = Espacio(q)
<1>1. Espacio(q) = [a \in 0 .. Tamanio(q) - 1 |-> IF pcb[q].estado = "EXIT" THEN 0 ELSE memoria[Fisica(q, a)]]
  BY VistaEspacio
<1>2. Espacio(q)' = [a \in 0 .. Tamanio(q) - 1 |-> IF pcb'[q].estado = "EXIT" THEN 0 ELSE memoria'[Fisica(q, a)]]
  BY DEF Espacio, Fisica
<1>3. Tamanio(q) = Len(Tablas[q]) * TAM_PAGINA /\ Tamanio(q) \in Nat
  <2>1. Len(Tablas[q]) \in Nat /\ TAM_PAGINA \in Nat BY Tabla
  <2>2. Len(Tablas[q]) * TAM_PAGINA \in Nat BY <2>1
  <2>3. QED BY <2>2 DEF Tamanio
<1>4. \A a \in 0 .. Tamanio(q) - 1 : pcb[q].estado # "EXIT" => memoria'[Fisica(q, a)] = memoria[Fisica(q, a)]
  BY <1>3 DEF MemoriaIgual
<1>5. QED BY <1>1, <1>2, <1>4

\* A process out of the CPU whose PCB, order and bytes stay the same has the
\* same machine.
LEMMA AjenoIgual ==
  ASSUME CInv, DInv, CInv', DInv', NEW q \in Procesos, q # kernel, q # kernel',
         pcb'[q] = pcb[q], pcb[q].estado # "EXIT" => ordenes'[q] = ordenes[q] /\ MemoriaIgual(q) /\ pantalla'[q] = pantalla[q]
  PROVE  Igual(q)
<1>1. Maquina(q)' = Maquina(q)
  <2>1. Maquina(q) = Reposo(q, pcb[q], ordenes[q]) BY Vistas DEF TodasLasVistas, Vista
  <2>2. Maquina(q)' = Reposo(q, pcb'[q], ordenes'[q]) BY VistasDespues DEF Vista
  <2>3. QED BY <2>1, <2>2 DEF Reposo
<1>2. Espacio(q)' = Espacio(q) BY EspacioIgual
<1>3. QED BY <1>1, <1>2 DEF Igual, Pantalla

\* A process in the dispatch socket is the one of the burst.
LEMMA Ida == CInv /\ (\E k \in DOMAIN dispatch : dispatch[k].op = "EJECUTAR_PROCESO") => Enviada
<1> SUFFICES ASSUME CInv, NEW k \in DOMAIN dispatch, dispatch[k].op = "EJECUTAR_PROCESO" PROVE Enviada
  OBVIOUS
<1>1. ~Nada
  <2>1. DOMAIN <<>> = {} OBVIOUS
  <2>2. QED BY <2>1 DEF Nada
<1>2. \A op : Uno(op) => dispatch[k].op = op
  <2>1. ASSUME NEW op, Uno(op) PROVE dispatch[k].op = op
    <3>1. dispatch = <<dispatch[1]>> /\ dispatch[1].op = op BY <2>1 DEF Uno
    <3>2. DOMAIN <<dispatch[1]>> = {1} OBVIOUS
    <3>3. k = 1 BY <3>1, <3>2
    <3>4. QED BY <3>1, <3>3
  <2>2. QED BY <2>1
<1>3. ~Uno("DESALOJAR") /\ ~Uno("CONTINUAR") BY <1>2
<1>4. QED BY <1>1, <1>3 DEF CInv, Protocolo, SinRafaga, EnMarcha, Devuelta

\* What a running machine lets be concluded of the instruction its process
\* executes.
LEMMA EsInstruccion ==
  ASSUME NEW p \in Procesos, SoloDe(p), NEW g, Maquina(p) = Corre(g), g["PC"] < Len(programa[p]),
         pcb'[p].pedido = pcb[p].pedido, Pantalla(p)' = Pantalla(p)
  PROVE  /\ Abstracta!Ins(p) = programa[p][g["PC"] + 1]
         /\ Abstracta!Regs(p) = [g EXCEPT !["PC"] = g["PC"] + 1]
         /\ \A op : programa[p][g["PC"] + 1].op = op => Abstracta!Toca(p, op)
         /\ \A h : Maquina(p)' = Corre(h) => Abstracta!Queda(p, h)
         /\ \A m : Maquina(p)' = m =>
              [q \in Procesos |-> Maquina(q)]' = [[q \in Procesos |-> Maquina(q)] EXCEPT ![p] = m]
         /\ \A e : Espacio(p)' = e =>
              [q \in Procesos |-> Espacio(q)]' = [[q \in Procesos |-> Espacio(q)] EXCEPT ![p] = e]
         /\ Espacio(p)' = Espacio(p) => [q \in Procesos |-> Espacio(q)]' = [q \in Procesos |-> Espacio(q)]
         /\ [q \in Procesos |-> Maquina(q)][p] = Corre(g)
<1>1. [q \in Procesos |-> Maquina(q)][p] = Corre(g) OBVIOUS
<1>2. Abstracta!PC(p) = g["PC"] BY <1>1 DEF Abstracta!PC, Corre
<1>3. Abstracta!Ins(p) = programa[p][g["PC"] + 1] BY <1>2 DEF Abstracta!Ins
<1>4. Abstracta!Regs(p) = [g EXCEPT !["PC"] = g["PC"] + 1] BY <1>1 DEF Abstracta!Regs, Corre
<1>5. programa' = programa BY DEF SoloDe
<1>6. {q \in Procesos : pcb[q].pedido}' = {q \in Procesos : pcb[q].pedido} BY Puntual
<1>7. [q \in Procesos |-> IF pcb[q].estado = "EXIT" THEN <<>> ELSE pantalla[q]]'
      = [q \in Procesos |-> IF pcb[q].estado = "EXIT" THEN <<>> ELSE pantalla[q]]
  BY DEF SoloDe, Igual, Pantalla
<1>8. \A op : programa[p][g["PC"] + 1].op = op => Abstracta!Toca(p, op)
  BY <1>1, <1>2, <1>3, <1>5, <1>6, <1>7 DEF Abstracta!Toca, Corre
<1>9. \A m : Maquina(p)' = m =>
              [q \in Procesos |-> Maquina(q)]' = [[q \in Procesos |-> Maquina(q)] EXCEPT ![p] = m]
  BY Puntual
<1>10. \A h : Maquina(p)' = Corre(h) => Abstracta!Queda(p, h)
  <2>1. ASSUME NEW h, Maquina(p)' = Corre(h) PROVE Abstracta!Queda(p, h)
    <3>1. Corre(h) = [Corre(g) EXCEPT !.regs = h] BY DEF Corre
    <3>2. [q \in Procesos |-> Maquina(q)]' = [[q \in Procesos |-> Maquina(q)] EXCEPT ![p] = Corre(h)]
      BY <2>1, <1>9
    <3>3. QED BY <3>1, <3>2, <1>1 DEF Abstracta!Queda
  <2>2. QED BY <2>1
<1>11. \A e : Espacio(p)' = e =>
              [q \in Procesos |-> Espacio(q)]' = [[q \in Procesos |-> Espacio(q)] EXCEPT ![p] = e]
  BY Puntual
<1>12. Espacio(p)' = Espacio(p) => [q \in Procesos |-> Espacio(q)]' = [q \in Procesos |-> Espacio(q)]
  BY DEF SoloDe, Igual
<1>13. QED BY <1>1, <1>3, <1>4, <1>8, <1>9, <1>10, <1>11, <1>12

\* The timer, the interrupts and the ready queue are not seen.
LEMMA TodoQuieto ==
  ASSUME UNCHANGED <<programa, memoria, pcb, ordenes, kernel, dispatch, desalojos, cpu, pantalla>>
  PROVE  UNCHANGED Abstracta!vars
<1>1. \A q \in Procesos : Maquina(q)' = Maquina(q)
  BY DEF Maquina, ModoDe, RegistrosDe, EnCpu, Enviado, Enviados, Devuelto, Piezas, R
<1>2. \A q \in Procesos : Espacio(q)' = Espacio(q) BY DEF Espacio
<1>3. \A q \in Procesos : Pantalla(q)' = Pantalla(q) BY DEF Pantalla
<1>4. QED BY <1>1, <1>2, <1>3, NadaCambia DEF Igual

HayEnvio == \E k \in DOMAIN dispatch : dispatch[k].op = "EJECUTAR_PROCESO"

\* The same of the socket after a step.
LEMMA IdaDespues == CInv' /\ HayEnvio' => Enviada'
<1>1. CInv /\ HayEnvio => Enviada BY Ida DEF HayEnvio
<1>2. QED BY <1>1, PTL

\* A process that waits for nothing
LEMMA EnReposo ==
  ASSUME NEW p, NEW b, NEW o, b.estado = "READY", o = SinOrden
  PROVE  Reposo(p, b, o) = Corre(b.registros)
BY SinPiezas DEF Reposo, Corre, SinOrden

\* Sending a process to the CPU changes no machine (enviar_proceso_a_cpu).
LEMMA VePlanificar ==
  ASSUME CInv, DInv, CInv', DInv', Planificar
  PROVE  UNCHANGED Abstracta!vars
<1>1. PICK p \in Procesos : p = Head(listos) /\ pcb[p].estado = "READY"
  BY ListosPorEstado, ColaPrimero DEF CInv, ListosEnReady, Planificar
<1>2. /\ kernel = Nadie /\ kernel' = p
      /\ pcb' = [pcb EXCEPT ![p].estado = "EXEC"]
      /\ UNCHANGED <<programa, memoria, ordenes, pantalla>>
  BY <1>1 DEF Planificar
<1>3. p # Nadie BY ProcesosFinitos
<1>4. pcb'[p].registros = pcb[p].registros /\ pcb'[p].estado = "EXEC" /\ pcb'[p].pedido = pcb[p].pedido
  BY <1>2, RegistrosDelPcb
<1>5. PICK m : m.op = "EJECUTAR_PROCESO" /\ dispatch' = Append(dispatch, m) BY <1>1 DEF Planificar
<1>6. HayEnvio'
  <2>1. dispatch = <<>> \/ dispatch = <<dispatch[1]>>
    BY <1>2 DEF CInv, Protocolo, SinRafaga, Enviada, EnMarcha, Devuelta, Nada, Uno
  <2>2. CASE dispatch = <<>>
    <3>1. dispatch' = <<m>> BY <2>2, <1>5, Sockets
    <3>2. 1 \in DOMAIN dispatch' /\ dispatch'[1] = m BY <3>1
    <3>3. QED BY <3>2, <1>5 DEF HayEnvio
  <2>3. CASE dispatch = <<dispatch[1]>>
    <3>1. dispatch' = <<dispatch[1], m>> BY <2>3, <1>5, Sockets
    <3>2. 2 \in DOMAIN dispatch' /\ dispatch'[2] = m BY <3>1
    <3>3. QED BY <3>2, <1>5 DEF HayEnvio
  <2>4. QED BY <2>1, <2>2, <2>3
<1>7. Enviada' BY <1>6, IdaDespues
<1>8. Igual(p)
  <2>1. ordenes[p] = SinOrden BY <1>1 DEF DInv, Ordenes, Orden1
  <2>2. Maquina(p) = Corre(pcb[p].registros) BY <1>1, <1>2, <1>3, <2>1, EnReposo, Vistas DEF TodasLasVistas, Vista
  <2>3. Maquina(p)' = Corre(pcb'[p].registros) BY <1>2, <1>7, VistasDespues DEF Vista
  <2>4. Espacio(p)' = Espacio(p) BY <1>1, <1>2, <1>4, EspacioIgual DEF MemoriaIgual
  <2>5. Pantalla(p)' = Pantalla(p) BY <1>1, <1>2, <1>4 DEF Pantalla
  <2>6. QED BY <2>2, <2>3, <2>4, <2>5, <1>4 DEF Igual
<1>9. ASSUME NEW q \in Procesos, q # p PROVE Igual(q)
  <2>1. q # kernel /\ q # kernel' BY <1>2, <1>9, ProcesosFinitos
  <2>2. pcb'[q] = pcb[q] BY <1>2, <1>9, RegistrosDelPcb
  <2>3. QED BY <2>1, <2>2, <1>2, AjenoIgual DEF MemoriaIgual
<1>10. QED BY <1>2, <1>8, <1>9, NadaCambia

\* Marking the PCB of the process in EXEC is the request of the abstract
\* machine.
LEMMA VeFinalizarEnEjecucion ==
  ASSUME CInv, DInv, NEW p \in Procesos, FinalizarEnEjecucion(p)
  PROVE  Abstracta!Pedir(p)
<1>1. /\ pcb' = [pcb EXCEPT ![p].pedido = TRUE]
      /\ UNCHANGED <<programa, memoria, ordenes, kernel, dispatch, desalojos, cpu, pantalla>>
  BY DEF FinalizarEnEjecucion
<1>2. \A q \in Procesos : pcb'[q].estado = pcb[q].estado /\ pcb'[q].registros = pcb[q].registros
                          /\ (pcb'[q].pedido <=> pcb[q].pedido \/ q = p)
  BY <1>1, RegistrosDelPcb
<1>3. \A q \in Procesos : Maquina(q)' = Maquina(q)
  BY <1>1, <1>2 DEF Maquina, ModoDe, RegistrosDe, EnCpu, Enviado, Enviados, Devuelto, Piezas, R
<1>4. \A q \in Procesos : Espacio(q)' = Espacio(q) BY <1>1, <1>2 DEF Espacio
<1>5. \A q \in Procesos : Pantalla(q)' = Pantalla(q) BY <1>1, <1>2 DEF Pantalla
<1>6. [q \in Procesos |-> Maquina(q)]' = [q \in Procesos |-> Maquina(q)] BY <1>3
<1>7. [q \in Procesos |-> Espacio(q)]' = [q \in Procesos |-> Espacio(q)] BY <1>4
<1>8. [q \in Procesos |-> IF pcb[q].estado = "EXIT" THEN <<>> ELSE pantalla[q]]'
      = [q \in Procesos |-> IF pcb[q].estado = "EXIT" THEN <<>> ELSE pantalla[q]]
  BY <1>5 DEF Pantalla
<1>9. {q \in Procesos : pcb[q].pedido}' = {q \in Procesos : pcb[q].pedido} \cup {p} BY <1>2
<1>10. QED BY <1>1, <1>6, <1>7, <1>8, <1>9 DEF Abstracta!Pedir

\* When a machine that waits runs again, with the memory and the screen its
\* device leaves, the wait is over.
LEMMA EsProsigue ==
  ASSUME NEW p \in Procesos, SoloDe(p), NEW g, NEW op, op \notin {"corre", "termina", "fin"}, NEW z,
         Maquina(p) = [modo |-> op, regs |-> g, es |-> z], Maquina(p)' = Corre(g),
         pcb'[p].pedido = pcb[p].pedido,
         op # "IO_STDIN_READ" => Espacio(p)' = Espacio(p),
         op = "IO_STDIN_READ" =>
           \E nuevo \in [DOMAIN z -> 0 .. BASE - 1] :
             Espacio(p)' = [a \in DOMAIN Espacio(p) |->
                              IF \E k \in DOMAIN z : z[k] = a
                              THEN nuevo[CHOOSE k \in DOMAIN z : z[k] = a] ELSE Espacio(p)[a]],
         Pantalla(p)' = IF op = "IO_STDOUT_WRITE" THEN [k \in DOMAIN z |-> Espacio(p)[z[k]]] ELSE Pantalla(p)
  PROVE  Abstracta!Prosigue(p)
<1> DEFINE MM == [q \in Procesos |-> Maquina(q)]
           EE == [q \in Procesos |-> Espacio(q)]
           PP == [q \in Procesos |-> IF pcb[q].estado = "EXIT" THEN <<>> ELSE pantalla[q]]
<1>1. programa' = programa BY DEF SoloDe
<1>2. {q \in Procesos : pcb[q].pedido}' = {q \in Procesos : pcb[q].pedido} BY Puntual
<1>3. MM[p] = [modo |-> op, regs |-> g, es |-> z] /\ EE[p] = Espacio(p) OBVIOUS
<1>4. MM' = [MM EXCEPT ![p] = [modo |-> "corre", regs |-> g, es |-> <<>>]] BY Puntual DEF Corre
<1>5. IF op = "IO_STDIN_READ"
      THEN \E nuevo \in [DOMAIN z -> Abstracta!Bytes] :
             EE' = [EE EXCEPT ![p] = [a \in DOMAIN @ |->
                              IF \E k \in DOMAIN z : z[k] = a
                              THEN nuevo[CHOOSE k \in DOMAIN z : z[k] = a] ELSE @[a]]]
      ELSE EE' = EE
  <2>1. CASE op = "IO_STDIN_READ"
    <3>1. PICK nuevo \in [DOMAIN z -> 0 .. BASE - 1] :
             Espacio(p)' = [a \in DOMAIN Espacio(p) |->
                              IF \E k \in DOMAIN z : z[k] = a
                              THEN nuevo[CHOOSE k \in DOMAIN z : z[k] = a] ELSE Espacio(p)[a]]
      BY <2>1
    <3>2. PICK e : e = [a \in DOMAIN Espacio(p) |->
                              IF \E k \in DOMAIN z : z[k] = a
                              THEN nuevo[CHOOSE k \in DOMAIN z : z[k] = a] ELSE Espacio(p)[a]]
      OBVIOUS
    <3>3. EE' = [EE EXCEPT ![p] = e] BY <3>1, <3>2, Puntual
    <3>4. EE' = [EE EXCEPT ![p] = [a \in DOMAIN @ |->
                              IF \E k \in DOMAIN z : z[k] = a
                              THEN nuevo[CHOOSE k \in DOMAIN z : z[k] = a] ELSE @[a]]]
      BY <3>3, <3>2, <1>3
    <3>5. nuevo \in [DOMAIN z -> Abstracta!Bytes] BY DEF Abstracta!Bytes
    <3>6. QED BY <3>4, <3>5, <2>1
  <2>2. CASE op # "IO_STDIN_READ" BY <2>2 DEF SoloDe, Igual
  <2>3. QED BY <2>1, <2>2
<1>6. PP' = IF op = "IO_STDOUT_WRITE" THEN [PP EXCEPT ![p] = [k \in DOMAIN z |-> EE[p][z[k]]]] ELSE PP
  <2>1. CASE op = "IO_STDOUT_WRITE"
    <3>1. PICK t : t = [k \in DOMAIN z |-> Espacio(p)[z[k]]] OBVIOUS
    <3>2. PP' = [PP EXCEPT ![p] = t] BY <2>1, <3>1, Puntual
    <3>3. QED BY <2>1, <3>1, <3>2, <1>3
  <2>2. CASE op # "IO_STDOUT_WRITE" BY <2>2 DEF SoloDe, Igual, Pantalla
  <2>3. QED BY <2>1, <2>2
<1>7. MM[p].modo = op /\ MM[p].es = z /\ MM[p].regs = g BY <1>3
<1>8. MM[p].modo \notin {"corre", "termina", "fin"} BY <1>7
<1>9. MM' = [MM EXCEPT ![p] = [modo |-> "corre", regs |-> MM[p].regs, es |-> <<>>]] BY <1>4, <1>7
<1>10. IF MM[p].modo = "IO_STDIN_READ"
      THEN \E nuevo \in [DOMAIN MM[p].es -> Abstracta!Bytes] :
             EE' = [EE EXCEPT ![p] = [a \in DOMAIN @ |->
                              IF \E k \in DOMAIN MM[p].es : MM[p].es[k] = a
                              THEN nuevo[CHOOSE k \in DOMAIN MM[p].es : MM[p].es[k] = a] ELSE @[a]]]
      ELSE EE' = EE
  <2> HIDE DEF MM, EE
  <2>1. QED BY <1>5, <1>7
<1>11. PP' = IF MM[p].modo = "IO_STDOUT_WRITE" THEN [PP EXCEPT ![p] = [k \in DOMAIN MM[p].es |-> EE[p][MM[p].es[k]]]] ELSE PP
  <2> HIDE DEF MM, EE, PP
  <2>1. QED BY <1>6, <1>7
<1>12. QED BY <1>1, <1>2, <1>8, <1>9, <1>10, <1>11 DEF Abstracta!Prosigue

\* A resource that is granted ends the wait; after an order it was over
\* already.
LEMMA VeDesbloquear ==
  ASSUME CInv, DInv, CInv', DInv', NEW p \in Procesos, Desbloquear(p)
  PROVE  Abstracta!Prosigue(p) \/ UNCHANGED Abstracta!vars
<1>1. /\ pcb[p].estado = "BLOCKED" /\ ordenes[p].op \in {"WAIT", "HECHA"}
      /\ pcb' = [pcb EXCEPT ![p].estado = "READY"]
      /\ ordenes' = [ordenes EXCEPT ![p] = SinOrden]
      /\ UNCHANGED <<programa, memoria, kernel, pantalla>>
  BY DEF Desbloquear
<1>2. p # kernel /\ p # kernel' BY <1>1 DEF CInv, EjecutaElDelKernel
<1>3. /\ pcb'[p].registros = pcb[p].registros /\ pcb'[p].estado = "READY" /\ pcb'[p].pedido = pcb[p].pedido
      /\ \A q \in Procesos : q # p => pcb'[q] = pcb[q]
  BY <1>1, RegistrosDelPcb
<1>4. ordenes'[p] = SinOrden /\ \A q \in Procesos : q # p => ordenes'[q] = ordenes[q]
  BY <1>1 DEF CInv, TiposDeControl
<1>5. Maquina(p)' = Corre(pcb[p].registros)
  <2>1. Maquina(p)' = Reposo(p, pcb'[p], ordenes'[p]) BY <1>2, VistasDespues DEF Vista
  <2>2. QED BY <2>1, <1>3, <1>4, EnReposo
<1>6. Maquina(p) = [modo |-> IF ordenes[p].op = "HECHA" THEN "corre" ELSE "WAIT",
                    regs |-> pcb[p].registros, es |-> <<>>]
  <2>1. Maquina(p) = Reposo(p, pcb[p], ordenes[p]) BY <1>2, Vistas DEF TodasLasVistas, Vista
  <2>2. ordenes[p].op = "WAIT" => ordenes[p].piezas = <<>>
    BY DEF DInv, Ordenes, Orden1, PiezasDe, OpsTexto
  <2>3. QED BY <2>1, <2>2, <1>1, SinPiezas DEF Reposo
<1>7. Espacio(p)' = Espacio(p) BY <1>1, <1>3, EspacioIgual DEF MemoriaIgual
<1>8. Pantalla(p)' = Pantalla(p) BY <1>1, <1>3 DEF Pantalla
<1>9. ASSUME NEW q \in Procesos, q # p PROVE Igual(q)
  <2>1. CASE q = kernel
    <3>1. Maquina(q)' = Maquina(q)
      <4>1. UNCHANGED <<programa, kernel, dispatch, desalojos, cpu>> BY DEF Desbloquear
      <4>2. pcb'[q] = pcb[q] /\ ordenes'[q] = ordenes[q] BY <1>3, <1>4, <1>9
      <4>3. QED BY <4>1, <4>2 DEF Maquina, ModoDe, RegistrosDe, EnCpu, Enviado, Enviados, Devuelto, Piezas, R
    <3>2. Espacio(q)' = Espacio(q) BY <1>1, <1>3, <1>9, EspacioIgual DEF MemoriaIgual
    <3>3. QED BY <3>1, <3>2, <1>1, <1>3, <1>9 DEF Igual, Pantalla
  <2>2. CASE q # kernel BY <2>2, <1>1, <1>3, <1>4, <1>9, AjenoIgual DEF MemoriaIgual
  <2>3. QED BY <2>1, <2>2
<1>10. SoloDe(p) BY <1>1, <1>9 DEF SoloDe
<1>11. CASE ordenes[p].op = "HECHA"
  <2>1. Igual(p) BY <1>11, <1>3, <1>5, <1>6, <1>7, <1>8 DEF Igual, Corre
  <2>2. QED BY <2>1, <1>1, <1>9, NadaCambia
<1>12. CASE ordenes[p].op = "WAIT"
  <2>1. PICK g : g = pcb[p].registros OBVIOUS
  <2>2. PICK op : op = "WAIT" OBVIOUS
  <2>3. PICK z : z = <<>> OBVIOUS
  <2>4. op \notin {"corre", "termina", "fin"} /\ op # "IO_STDIN_READ" /\ op # "IO_STDOUT_WRITE" BY <2>2
  <2>5. Maquina(p) = [modo |-> op, regs |-> g, es |-> z] BY <1>6, <1>12, <2>1, <2>2, <2>3
  <2>6. Maquina(p)' = Corre(g) BY <1>5, <2>1
  <2>7. pcb'[p].pedido = pcb[p].pedido BY <1>3
  <2>8. QED BY <2>4, <2>5, <2>6, <2>7, <1>7, <1>8, <1>10, EsProsigue
<1>13. QED BY <1>1, <1>11, <1>12

\* The process of the burst goes on as it was, the others do not change.
LEMMA SoloElDelKernel ==
  ASSUME CInv, DInv, CInv', DInv', NEW p \in Procesos, p = kernel, kernel' \in {p, Nadie},
         UNCHANGED <<programa, memoria, pantalla>>,
         \A q \in Procesos : q # p => pcb'[q] = pcb[q] /\ ordenes'[q] = ordenes[q]
  PROVE  SoloDe(p)
<1>1. ASSUME NEW q \in Procesos, q # p PROVE Igual(q)
  <2>1. q # kernel /\ q # kernel' BY <1>1, ProcesosFinitos
  <2>2. QED BY <2>1, <1>1, AjenoIgual DEF MemoriaIgual
<1>2. QED BY <1>1 DEF SoloDe

\* The end of a process in EXIT
LEMMA Muerta ==
  ASSUME CInv', DInv', NEW p \in Procesos, p # kernel', pcb'[p].estado = "EXIT"
  PROVE  /\ Maquina(p)' = [modo |-> "fin", regs |-> EnCero, es |-> <<>>]
         /\ Espacio(p)' = [a \in 0 .. Tamanio(p) - 1 |-> 0] /\ Pantalla(p)' = <<>>
<1>1. Maquina(p)' = Reposo(p, pcb'[p], ordenes'[p]) BY VistasDespues DEF Vista
<1>2. QED BY <1>1 DEF Reposo, Espacio, Pantalla

\* A process ended by the user out of the CPU ends.
LEMMA VeFinalizarFuera ==
  ASSUME CInv, DInv, CInv', DInv', NEW p \in Procesos, FinalizarFuera(p)
  PROVE  Abstracta!Terminar(p)
<1>1. /\ pcb[p].estado \in {"READY", "BLOCKED"}
      /\ Terminado(p, TRUE)
      /\ UNCHANGED <<programa, memoria, kernel, dispatch, desalojos, cpu, pantalla>>
  BY DEF FinalizarFuera
<1>2. p # kernel /\ p # kernel' BY <1>1 DEF CInv, EjecutaElDelKernel
<1>3. Cambia(p, "EXIT") /\ pcb'[p].pedido = TRUE BY <1>1, Terminada
<1>4. \A q \in Procesos : q # p => ordenes'[q] = ordenes[q]
  BY DEF FinalizarFuera, CInv, TiposDeControl
<1>5. ASSUME NEW q \in Procesos, q # p PROVE Igual(q)
  <2>0. pcb'[q] = pcb[q] /\ ordenes'[q] = ordenes[q] BY <1>3, <1>4, <1>5 DEF Cambia
  <2>1. CASE q = kernel
    <3>1. Maquina(q)' = Maquina(q)
      BY <1>1, <2>0 DEF Maquina, ModoDe, RegistrosDe, EnCpu, Enviado, Enviados, Devuelto, Piezas, R
    <3>2. Espacio(q)' = Espacio(q) BY <1>1, <2>0, EspacioIgual DEF MemoriaIgual
    <3>3. QED BY <3>1, <3>2, <1>1, <2>0 DEF Igual, Pantalla
  <2>2. CASE q # kernel BY <2>2, <1>1, <2>0, AjenoIgual DEF MemoriaIgual
  <2>3. QED BY <2>1, <2>2
<1>6. SoloDe(p) BY <1>1, <1>5 DEF SoloDe
<1>7. Maquina(p).modo # "fin"
  <2>1. Maquina(p) = Reposo(p, pcb[p], ordenes[p]) BY <1>2, Vistas DEF TodasLasVistas, Vista
  <2>2. ordenes[p].op # "fin" BY DEF DInv, Ordenes, Orden1, OpsOrden, InstruccionesIO
  <2>3. QED BY <2>1, <2>2, <1>1 DEF Reposo
<1>8. pcb'[p].estado = "EXIT" BY <1>3 DEF Cambia
<1>9. QED BY <1>2, <1>3, <1>6, <1>7, <1>8, Muerta, EsTerminar

\* A process that comes back and is ended had a reason: its program, its
\* request, or that of the user.
LEMMA VeAcaba ==
  ASSUME CInv, DInv, CInv', DInv', kernel # Nadie, desalojos # <<>>, kernel' = Nadie, Acaba,
         UNCHANGED <<programa, memoria, pantalla>>,
         pcb[kernel].pedido \/ desalojos[1].op \notin Motivos
  PROVE  \E p \in Procesos : Abstracta!Terminar(p)
<1>1. PICK p \in Procesos : p = kernel BY HayMensaje
<1>2. Cambia(p, "EXIT") /\ pcb'[p].pedido = pcb[p].pedido BY <1>1, Terminada DEF Acaba
<1>3. p # kernel' BY <1>1, ProcesosFinitos
<1>4. \A q \in Procesos : q # p => pcb'[q] = pcb[q] /\ ordenes'[q] = ordenes[q] BY <1>2 DEF Cambia, Acaba
<1>5. SoloDe(p) BY <1>1, <1>4, SoloElDelKernel
<1>6. Maquina(p).modo = AlVolver(desalojos[1].op) BY <1>1, Vistas DEF TodasLasVistas, Vista
<1>7. desalojos[1].op \in {"EXIT_PROCESO"} \cup Motivos \cup InstruccionesIO \cup InstruccionesRecurso
  BY Registrado DEF EnvioDe
<1>8. Maquina(p).modo # "fin" /\ (Maquina(p).modo = "corre" => desalojos[1].op \in Motivos)
  BY <1>6, <1>7 DEF AlVolver, Motivos, InstruccionesIO, InstruccionesRecurso
<1>9. pcb'[p].estado = "EXIT" BY <1>2 DEF Cambia
<1>10. pcb'[p].pedido \/ Maquina(p).modo # "corre" BY <1>1, <1>2, <1>8
<1>11. Abstracta!Terminar(p) BY <1>2, <1>3, <1>5, <1>8, <1>9, <1>10, Muerta, EsTerminar
<1>12. QED BY <1>11

\* EXIT and FINALIZAR_PROCESO end the process (recibir_proceso_desalojado).
LEMMA VeRecibeFin ==
  ASSUME CInv, DInv, CInv', DInv', RecibeFin
  PROVE  \E p \in Procesos : Abstracta!Terminar(p)
<1>1. /\ kernel # Nadie /\ desalojos # <<>> /\ kernel' = Nadie /\ Acaba /\ UNCHANGED <<programa, memoria, pantalla>>
      /\ pcb[kernel].pedido \/ Head(desalojos).op \in {"EXIT_PROCESO", "FINALIZAR_PROCESO"}
  BY DEF RecibeFin, Recibe, FinRafaga
<1>2. EnvioDe(desalojos[1]) /\ Head(desalojos) = desalojos[1] BY <1>1, Registrado, HayMensaje
<1>3. pcb[kernel].pedido \/ desalojos[1].op \notin Motivos BY <1>1, <1>2 DEF EnvioDe, Motivos
<1>4. QED BY <1>1, <1>3, VeAcaba

\* The context that came is saved.
LEMMA VeGuarda ==
  ASSUME CInv, DInv, CInv', DInv', kernel # Nadie, desalojos # <<>>, kernel' = Nadie,
         NEW estado \in {"READY", "BLOCKED"}, Guarda(estado),
         UNCHANGED <<programa, memoria, pantalla>>,
         \A q \in Procesos : q # kernel => ordenes'[q] = ordenes[q],
         ordenes'[kernel].op # "HECHA", ordenes'[kernel].piezas = desalojos[1].piezas,
         AlVolver(desalojos[1].op) = IF estado = "READY" THEN "corre" ELSE ordenes'[kernel].op
  PROVE  UNCHANGED Abstracta!vars
<1>1. PICK p \in Procesos : p = kernel BY HayMensaje
<1>2. PICK g : g = Traidos(desalojos[1].registros) OBVIOUS
<1>3. /\ Cambia(p, estado) /\ pcb'[p].pedido = pcb[p].pedido /\ pcb'[p].registros = g
      /\ pcb[p].estado = "EXEC"
  BY <1>1, <1>2, Guardada, HayMensaje
<1>4. p # kernel' BY <1>1, ProcesosFinitos
<1>5. SoloDe(p) BY <1>1, <1>3, SoloElDelKernel DEF Cambia
<1>6. Maquina(p) = [modo |-> AlVolver(desalojos[1].op), regs |-> g, es |-> Logicas(p, desalojos[1].piezas)]
  BY <1>1, <1>2, Vistas DEF TodasLasVistas, Vista
<1>7. Maquina(p)' = Reposo(p, pcb'[p], ordenes'[p]) BY <1>4, VistasDespues DEF Vista
<1>8. Maquina(p)' = [modo |-> AlVolver(desalojos[1].op), regs |-> g, es |-> Logicas(p, desalojos[1].piezas)]
  <2>1. pcb'[p].estado = estado BY <1>3 DEF Cambia
  <2>2. ordenes'[p].op # "HECHA" /\ ordenes'[p].piezas = desalojos[1].piezas BY <1>1
  <2>3. Reposo(p, pcb'[p], ordenes'[p])
          = [modo |-> IF estado = "BLOCKED" THEN ordenes'[p].op ELSE "corre", regs |-> g,
             es |-> Logicas(p, ordenes'[p].piezas)]
    BY <2>1, <2>2, <1>3 DEF Reposo
  <2>4. QED BY <2>2, <2>3, <1>1, <1>7
<1>9. Espacio(p)' = Espacio(p) BY <1>3, EspacioIgual DEF MemoriaIgual, Cambia
<1>10. Pantalla(p)' = Pantalla(p) BY <1>3 DEF Pantalla, Cambia
<1>11. Igual(p) BY <1>3, <1>6, <1>8, <1>9, <1>10 DEF Igual
<1>12. QED BY <1>5, <1>11, NadaCambia DEF SoloDe

\* The end of the quantum changes no machine.
LEMMA VeRecibeFinQuantum ==
  ASSUME CInv, DInv, CInv', DInv', RecibeFinQuantum
  PROVE  UNCHANGED Abstracta!vars
<1>1. /\ kernel # Nadie /\ desalojos # <<>> /\ kernel' = Nadie /\ Guarda("READY")
      /\ UNCHANGED <<programa, memoria, ordenes, pantalla>>
      /\ Head(desalojos).op = "FIN_QUANTUM"
  BY DEF RecibeFinQuantum, Recibe, FinRafaga
<1>2. /\ Head(desalojos) = desalojos[1] /\ EnvioDe(desalojos[1])
      /\ kernel \in Procesos /\ pcb[kernel].estado = "EXEC"
  BY <1>1, Registrado, HayMensaje
<1>3. desalojos[1].op = "FIN_QUANTUM" BY <1>1, <1>2
<1>4. desalojos[1].piezas = <<>> BY <1>2, <1>3 DEF EnvioDe, PiezasDe, OpsTexto
<1>5. AlVolver(desalojos[1].op) = "corre" BY <1>3 DEF AlVolver, Motivos
<1>6. ordenes[kernel] = SinOrden BY <1>2 DEF DInv, Ordenes, Orden1
<1>7. ordenes'[kernel].op # "HECHA" /\ ordenes'[kernel].piezas = <<>> BY <1>1, <1>6 DEF SinOrden
<1>8. QED BY <1>1, <1>4, <1>5, <1>7, VeGuarda

\* A process that blocks takes its request to its order.
LEMMA VeBloquea ==
  ASSUME CInv, DInv, CInv', DInv', kernel # Nadie, desalojos # <<>>, kernel' = Nadie,
         NEW orden, Bloquea(orden), orden.op = desalojos[1].op, orden.piezas = desalojos[1].piezas,
         desalojos[1].op \in InstruccionesIO \cup {"WAIT"},
         UNCHANGED <<programa, memoria, pantalla>>
  PROVE  UNCHANGED Abstracta!vars
<1>1. kernel \in Procesos BY HayMensaje
<1>2. ordenes'[kernel] = orden /\ \A q \in Procesos : q # kernel => ordenes'[q] = ordenes[q]
  BY <1>1 DEF Bloquea, CInv, TiposDeControl
<1>3. AlVolver(desalojos[1].op) = desalojos[1].op /\ desalojos[1].op # "HECHA"
  BY DEF AlVolver, Motivos, InstruccionesIO
<1>4. Guarda("BLOCKED") BY DEF Bloquea
<1>5. QED BY <1>2, <1>3, <1>4, VeGuarda

\* An I/O request becomes an order, or ends the process.
LEMMA VeRecibeIO ==
  ASSUME CInv, DInv, CInv', DInv', RecibeIO
  PROVE  (\E p \in Procesos : Abstracta!Terminar(p)) \/ UNCHANGED Abstracta!vars
<1>1. /\ kernel # Nadie /\ desalojos # <<>> /\ kernel' = Nadie
      /\ UNCHANGED <<programa, memoria, pantalla>>
      /\ Head(desalojos).op \in InstruccionesIO
  BY DEF RecibeIO, Recibe, FinRafaga, InstruccionesIO
<1>2. Head(desalojos) = desalojos[1] BY <1>1, HayMensaje
<1>3. desalojos[1].op \notin Motivos BY <1>1, <1>2 DEF InstruccionesIO, Motivos
<1>4. CASE Acaba BY <1>1, <1>3, <1>4, VeAcaba
<1>5. CASE Bloquea([op |-> Head(desalojos).op, piezas |-> Head(desalojos).piezas])
  <2>1. PICK o : o = [op |-> Head(desalojos).op, piezas |-> Head(desalojos).piezas] OBVIOUS
  <2>2. Bloquea(o) /\ o.op = desalojos[1].op /\ o.piezas = desalojos[1].piezas BY <1>2, <1>5, <2>1
  <2>3. QED BY <1>1, <1>2, <2>2, VeBloquea
<1>6. QED BY <1>4, <1>5 DEF RecibeIO

\* DESALOJAR leaves the process waiting for the resource, or ends it.
LEMMA VeRecibeRecursoDesaloja ==
  ASSUME CInv, DInv, CInv', DInv', RecibeRecursoDesaloja
  PROVE  (\E p \in Procesos : Abstracta!Terminar(p)) \/ UNCHANGED Abstracta!vars
<1>1. /\ kernel # Nadie /\ desalojos # <<>> /\ kernel' = Nadie
      /\ UNCHANGED <<programa, memoria, pantalla>>
      /\ Head(desalojos).op \in InstruccionesRecurso
  BY DEF RecibeRecursoDesaloja, Recibe, FinRafaga, InstruccionesRecurso
<1>2. Head(desalojos) = desalojos[1] /\ EnvioDe(desalojos[1]) BY <1>1, HayMensaje, Registrado
<1>3. desalojos[1].op \notin Motivos BY <1>1, <1>2 DEF InstruccionesRecurso, Motivos
<1>4. CASE Acaba BY <1>1, <1>3, <1>4, VeAcaba
<1>5. CASE Head(desalojos).op = "WAIT" /\ Bloquea([SinOrden EXCEPT !.op = "WAIT"])
  <2>1. PICK o : o = [SinOrden EXCEPT !.op = "WAIT"] OBVIOUS
  <2>2. desalojos[1].piezas = <<>> /\ desalojos[1].op = "WAIT" BY <1>2, <1>5 DEF EnvioDe, PiezasDe, OpsTexto
  <2>3. o.op = "WAIT" /\ o.piezas = <<>> BY <2>1 DEF SinOrden
  <2>4. Bloquea(o) /\ o.op = desalojos[1].op /\ o.piezas = desalojos[1].piezas BY <1>5, <2>1, <2>2, <2>3
  <2>5. QED BY <1>1, <2>2, <2>4, VeBloquea
<1>6. QED BY <1>4, <1>5 DEF RecibeRecursoDesaloja

\* CONTINUAR on its way: the process still waits for the answer.
LEMMA VeRecibeRecursoContinua ==
  ASSUME CInv, DInv, CInv', DInv', RecibeRecursoContinua
  PROVE  UNCHANGED Abstracta!vars
<1>1. /\ kernel # Nadie /\ desalojos # <<>> /\ desalojos' = Tail(desalojos)
      /\ UNCHANGED <<programa, memoria, pcb, ordenes, kernel, cpu, pantalla>>
      /\ Head(desalojos).op \in InstruccionesRecurso
  BY DEF RecibeRecursoContinua, Recibe, InstruccionesRecurso, nucleo
<1>2. /\ Head(desalojos) = desalojos[1] /\ EnvioDe(desalojos[1]) /\ Devuelta /\ dispatch = <<>>
      /\ Traidos(desalojos[1].registros) = R /\ desalojos' = <<>>
  BY <1>1, HayMensaje, Registrado
<1>3. PICK p \in Procesos : p = kernel BY <1>1, HayMensaje
<1>4. p # Nadie BY ProcesosFinitos
<1>5. CpuPide /\ cpu.pid = p /\ cpu.fase = "pide" /\ ~cpu.desalojo BY <1>1, <1>2, <1>3 DEF Devuelta, CpuPide
<1>6. Uno("CONTINUAR")'
  <2>1. PICK m : m.op = "CONTINUAR" /\ dispatch' = Append(dispatch, m)
    BY DEF RecibeRecursoContinua, Responde
  <2>2. dispatch' = <<m>> BY <1>2, <2>1, Sockets
  <2>3. QED BY <2>1, <2>2 DEF Uno
<1>7. Pedida' = Pedida BY <1>1, PedidaQuieta
<1>8. Maquina(p)' = [modo |-> Pedida, regs |-> cpu.registros, es |-> <<>>]
  BY <1>1, <1>2, <1>3, <1>5, <1>6, <1>7, VistasDespues DEF Vista
<1>9. Maquina(p) = [modo |-> AlVolver(desalojos[1].op), regs |-> Traidos(desalojos[1].registros),
                    es |-> Logicas(p, desalojos[1].piezas)]
  BY <1>1, <1>3, Vistas DEF TodasLasVistas, Vista
<1>10. desalojos[1].piezas = <<>> /\ AlVolver(desalojos[1].op) = Pedida
  BY <1>1, <1>2 DEF EnvioDe, PiezasDe, OpsTexto, InstruccionesRecurso, AlVolver, Motivos
<1>11. Maquina(p)' = Maquina(p) BY <1>2, <1>8, <1>9, <1>10, SinPiezas DEF R
<1>12. Espacio(p)' = Espacio(p) BY <1>1, EspacioIgual DEF MemoriaIgual
<1>13. Igual(p) BY <1>1, <1>11, <1>12 DEF Igual, Pantalla
<1>14. SoloDe(p) BY <1>1, <1>3, SoloElDelKernel
<1>15. QED BY <1>13, <1>14, NadaCambia DEF SoloDe

-----------------------------------------------------------------------------
(* The devices *)

\* The pieces of an access, back in the space of the process, are its addresses
\* in order.
LEMMA LogicasDelAcceso ==
  ASSUME NEW p \in Procesos, NEW dir, NEW n, Suyos(p, dir, n), NEW z, z = Mmu(p, dir, n)
  PROVE  Logicas(p, z) = [b \in 1 .. n |-> dir + b - 1]
<1>1. PICK f : f = Fisicas(z) OBVIOUS
<1>2. f = [b \in 1 .. n |-> Fisica(p, dir + b - 1)] BY <1>1, DireccionesDeMmu
<1>3. DOMAIN f = 1 .. n BY <1>2
<1>4. \A b \in 1 .. n : Logica(p, f[b]) = dir + b - 1
  <2>1. SUFFICES ASSUME NEW b \in 1 .. n PROVE Logica(p, f[b]) = dir + b - 1 OBVIOUS
  <2>2. dir + b - 1 \in Nat /\ dir + b - 1 < Len(Tablas[p]) * TAM_PAGINA BY DireccionDelAcceso
  <2>3. f[b] = Fisica(p, dir + b - 1) BY <1>2
  <2>4. QED BY <2>2, <2>3, LogicaDeFisica
<1>5. Logicas(p, z) = [b \in DOMAIN f |-> Logica(p, f[b])] BY <1>1 DEF Logicas
<1>6. QED BY <1>3, <1>4, <1>5

\* What a device does to the machine of a process that waits for it
LEMMA VeOrden ==
  ASSUME CInv, DInv, CInv', DInv', NEW p \in Procesos, NEW op \in InstruccionesIO, Orden(p, op),
         \A q \in Procesos : q # p => MemoriaIgual(q) /\ pantalla'[q] = pantalla[q]
  PROVE  /\ SoloDe(p) /\ pcb'[p] = pcb[p]
         /\ pcb[p].estado = "EXIT" => Igual(p)
         /\ pcb[p].estado # "EXIT" =>
              /\ Maquina(p) = [modo |-> op, regs |-> pcb[p].registros, es |-> Logicas(p, ordenes[p].piezas)]
              /\ Maquina(p)' = Corre(pcb[p].registros)
<1>1. /\ ordenes[p].op = op /\ pcb[p].estado \notin {"READY", "EXEC"} /\ p # kernel
      /\ ordenes'[p].op = "HECHA" /\ \A q \in Procesos : q # p => ordenes'[q] = ordenes[q]
      /\ UNCHANGED <<programa, pcb, kernel, dispatch, desalojos, cpu>>
  BY OrdenHecha
<1>2. ASSUME NEW q \in Procesos, q # p PROVE Igual(q)
  <2>1. CASE q = kernel
    <3>1. Maquina(q)' = Maquina(q)
      <4>1. ordenes'[q] = ordenes[q] BY <1>1, <1>2
      <4>2. QED BY <1>1, <4>1 DEF Maquina, ModoDe, RegistrosDe, EnCpu, Enviado, Enviados, Devuelto, Piezas, R
    <3>2. Espacio(q)' = Espacio(q) BY <1>1, <1>2, EspacioIgual
    <3>3. QED BY <3>1, <3>2, <1>1, <1>2 DEF Igual, Pantalla
  <2>2. CASE q # kernel BY <2>2, <1>1, <1>2, AjenoIgual
  <2>3. QED BY <2>1, <2>2
<1>3. SoloDe(p) BY <1>1, <1>2 DEF SoloDe
<1>4. Maquina(p) = Reposo(p, pcb[p], ordenes[p]) BY <1>1, Vistas DEF TodasLasVistas, Vista
<1>5. Maquina(p)' = Reposo(p, pcb[p], ordenes'[p]) BY <1>1, VistasDespues DEF Vista
<1>6. pcb[p].estado = "EXIT" => Igual(p)
  <2>1. SUFFICES ASSUME pcb[p].estado = "EXIT" PROVE Igual(p) OBVIOUS
  <2>2. Maquina(p)' = Maquina(p) BY <2>1, <1>4, <1>5 DEF Reposo
  <2>3. Espacio(p)' = Espacio(p) BY <2>1, <1>1, EspacioIgual
  <2>4. QED BY <2>1, <2>2, <2>3, <1>1 DEF Igual, Pantalla
<1>7. ASSUME pcb[p].estado # "EXIT"
      PROVE  /\ Maquina(p) = [modo |-> op, regs |-> pcb[p].registros, es |-> Logicas(p, ordenes[p].piezas)]
             /\ Maquina(p)' = Corre(pcb[p].registros)
  <2>1. pcb[p].estado = "BLOCKED" BY <1>1, <1>7 DEF CInv, TiposDeControl, EstadosPcb
  <2>2. op # "HECHA" BY DEF InstruccionesIO
  <2>3. Maquina(p) = [modo |-> op, regs |-> pcb[p].registros, es |-> Logicas(p, ordenes[p].piezas)]
    BY <2>1, <2>2, <1>1, <1>4 DEF Reposo
  <2>4. Maquina(p)' = Corre(pcb[p].registros) BY <2>1, <1>1, <1>5, SinPiezas DEF Reposo, Corre
  <2>5. QED BY <2>3, <2>4
<1>8. QED BY <1>1, <1>3, <1>6, <1>7

\* The memory of a process that is still there
LEMMA EspacioVivo ==
  ASSUME NEW p \in Procesos, pcb[p].estado # "EXIT"
  PROVE  /\ DOMAIN Espacio(p) = 0 .. Tamanio(p) - 1
         /\ \A a \in 0 .. Tamanio(p) - 1 : Espacio(p)[a] = memoria[Fisica(p, a)]
         /\ Tamanio(p) \in Nat
         /\ \A a \in 0 .. Tamanio(p) - 1 : a \in Nat /\ a < Len(Tablas[p]) * TAM_PAGINA
         /\ Tamanio(p) = Len(Tablas[p]) * TAM_PAGINA
<1>1. Espacio(p) = [a \in 0 .. Tamanio(p) - 1 |-> IF pcb[p].estado = "EXIT" THEN 0 ELSE memoria[Fisica(p, a)]]
  BY VistaEspacio
<1>2. Tamanio(p) = Len(Tablas[p]) * TAM_PAGINA /\ Tamanio(p) \in Nat
  <2>1. Len(Tablas[p]) \in Nat /\ TAM_PAGINA \in Nat BY Tabla
  <2>2. Len(Tablas[p]) * TAM_PAGINA \in Nat BY <2>1
  <2>3. QED BY <2>2 DEF Tamanio
<1>3. \A a \in 0 .. Tamanio(p) - 1 : a \in Nat /\ a < Len(Tablas[p]) * TAM_PAGINA BY <1>2
<1>4. QED BY <1>1, <1>2, <1>3

MemoriaCon(p, dir, n, bytes) ==
  \A a \in Nat : a < Len(Tablas[p]) * TAM_PAGINA =>
    memoria'[Fisica(p, a)] = IF a \in dir .. dir + n - 1 THEN bytes[a - dir + 1] ELSE memoria[Fisica(p, a)]

\* What is written in the frames of a process appears at its addresses.
LEMMA EspacioEscrito ==
  ASSUME NEW p \in Procesos, pcb[p].estado # "EXIT", pcb'[p].estado = pcb[p].estado,
         NEW dir, NEW n, NEW bytes, MemoriaCon(p, dir, n, bytes)
  PROVE  Espacio(p)' = [a \in DOMAIN Espacio(p) |->
                          IF a \in dir .. dir + n - 1 THEN bytes[a - dir + 1] ELSE Espacio(p)[a]]
<1>1. Espacio(p)' = [a \in 0 .. Tamanio(p) - 1 |-> memoria'[Fisica(p, a)]] BY DEF Espacio, Fisica
<1>2. \A a \in 0 .. Tamanio(p) - 1 :
        memoria'[Fisica(p, a)] = IF a \in dir .. dir + n - 1 THEN bytes[a - dir + 1] ELSE Espacio(p)[a]
  BY EspacioVivo DEF MemoriaCon
<1>3. QED BY <1>1, <1>2, EspacioVivo

\* The STDIN device writes at the addresses of the order and nowhere else.
LEMMA VeIoStdinRead ==
  ASSUME CInv, DInv, CInv', DInv', NEW p \in Procesos, IoStdinRead(p)
  PROVE  Abstracta!Prosigue(p) \/ UNCHANGED Abstracta!vars
<1>1. Orden(p, "IO_STDIN_READ") /\ UNCHANGED pantalla BY EscribeElDispositivo
<1>2. PICK dir \in Nat, n \in Nat :
        /\ Suyos(p, dir, n) /\ ordenes[p].piezas = Mmu(p, dir, n)
        /\ \E texto \in [1 .. n -> 0 .. BASE - 1] :
             \A o \in Procesos, a \in Nat :
               a < Len(Tablas[o]) * TAM_PAGINA =>
                 memoria'[Fisica(o, a)] = IF o = p /\ a \in dir .. dir + n - 1 THEN texto[a - dir + 1]
                                          ELSE memoria[Fisica(o, a)]
  BY EscribeElDispositivo
<1>3. PICK texto \in [1 .. n -> 0 .. BASE - 1] :
        \A o \in Procesos, a \in Nat :
          a < Len(Tablas[o]) * TAM_PAGINA =>
            memoria'[Fisica(o, a)] = IF o = p /\ a \in dir .. dir + n - 1 THEN texto[a - dir + 1]
                                     ELSE memoria[Fisica(o, a)]
  BY <1>2
<1>4. PICK op \in InstruccionesIO : op = "IO_STDIN_READ" BY DEF InstruccionesIO
<1>5. \A q \in Procesos : q # p => MemoriaIgual(q) /\ pantalla'[q] = pantalla[q] BY <1>1, <1>3 DEF MemoriaIgual
<1>6. /\ SoloDe(p) /\ pcb'[p] = pcb[p] /\ (pcb[p].estado = "EXIT" => Igual(p))
      /\ pcb[p].estado # "EXIT" =>
              /\ Maquina(p) = [modo |-> op, regs |-> pcb[p].registros, es |-> Logicas(p, ordenes[p].piezas)]
              /\ Maquina(p)' = Corre(pcb[p].registros)
  BY <1>1, <1>4, <1>5, VeOrden
<1>7. CASE pcb[p].estado = "EXIT" BY <1>6, <1>7, NadaCambia DEF SoloDe
<1>8. CASE pcb[p].estado # "EXIT"
  <2>1. PICK z : z = [b \in 1 .. n |-> dir + b - 1] OBVIOUS
  <2>2. Logicas(p, ordenes[p].piezas) = z BY <1>2, <2>1, LogicasDelAcceso
  <2>3. PICK g : g = pcb[p].registros OBVIOUS
  <2>4. Maquina(p) = [modo |-> op, regs |-> g, es |-> z] /\ Maquina(p)' = Corre(g)
    BY <1>6, <1>8, <2>2, <2>3
  <2>5. Espacio(p)' = [a \in DOMAIN Espacio(p) |->
                          IF a \in dir .. dir + n - 1 THEN texto[a - dir + 1] ELSE Espacio(p)[a]]
    <3>1. MemoriaCon(p, dir, n, texto) BY <1>3 DEF MemoriaCon
    <3>2. pcb'[p].estado = pcb[p].estado BY <1>6
    <3>3. QED BY <1>8, <3>1, <3>2, EspacioEscrito
  <2>6. ASSUME NEW a \in DOMAIN Espacio(p)
        PROVE  (IF \E k \in DOMAIN z : z[k] = a THEN texto[CHOOSE k \in DOMAIN z : z[k] = a] ELSE Espacio(p)[a])
               = IF a \in dir .. dir + n - 1 THEN texto[a - dir + 1] ELSE Espacio(p)[a]
    <3>1. a \in Nat BY <1>8, EspacioVivo
    <3>2. CASE a \in dir .. dir + n - 1
      <4>1. a - dir + 1 \in DOMAIN z /\ z[a - dir + 1] = a BY <2>1, <3>1, <3>2
      <4>2. \A k \in DOMAIN z : z[k] = a => k = a - dir + 1 BY <2>1, <3>1
      <4>3. (CHOOSE k \in DOMAIN z : z[k] = a) = a - dir + 1 BY <4>1, <4>2
      <4>4. QED BY <3>2, <4>1, <4>3
    <3>3. CASE a \notin dir .. dir + n - 1
      <4>1. \A k \in DOMAIN z : z[k] # a BY <2>1, <3>1, <3>3
      <4>2. QED BY <3>3, <4>1
    <3>4. QED BY <3>2, <3>3
  <2>7. Espacio(p)' = [a \in DOMAIN Espacio(p) |->
                         IF \E k \in DOMAIN z : z[k] = a
                         THEN texto[CHOOSE k \in DOMAIN z : z[k] = a] ELSE Espacio(p)[a]]
    BY <2>5, <2>6
  <2>8. texto \in [DOMAIN z -> 0 .. BASE - 1] BY <2>1
  <2>9. op \notin {"corre", "termina", "fin"} /\ op # "IO_STDOUT_WRITE" /\ op = "IO_STDIN_READ" BY <1>4
  <2>10. Pantalla(p)' = Pantalla(p) /\ pcb'[p].pedido = pcb[p].pedido BY <1>1, <1>6 DEF Pantalla
  <2>11. QED BY <1>6, <2>4, <2>7, <2>8, <2>9, <2>10, EsProsigue
<1>9. QED BY <1>7, <1>8

\* The STDOUT device shows the bytes at the addresses of the order.
LEMMA VeIoStdoutWrite ==
  ASSUME CInv, DInv, CInv', DInv', NEW p \in Procesos, IoStdoutWrite(p)
  PROVE  Abstracta!Prosigue(p) \/ UNCHANGED Abstracta!vars
<1>1. PICK op \in InstruccionesIO : op = "IO_STDOUT_WRITE" BY DEF InstruccionesIO
<1>2. /\ Orden(p, op) /\ UNCHANGED memoria
      /\ pantalla' = [pantalla EXCEPT ![p] = Leido(ordenes[p].piezas)]
  BY <1>1 DEF IoStdoutWrite
<1>3. \A q \in Procesos : q # p => MemoriaIgual(q) /\ pantalla'[q] = pantalla[q] BY <1>2 DEF MemoriaIgual
<1>4. /\ SoloDe(p) /\ pcb'[p] = pcb[p] /\ (pcb[p].estado = "EXIT" => Igual(p))
      /\ pcb[p].estado # "EXIT" =>
              /\ Maquina(p) = [modo |-> op, regs |-> pcb[p].registros, es |-> Logicas(p, ordenes[p].piezas)]
              /\ Maquina(p)' = Corre(pcb[p].registros)
  BY <1>2, <1>3, VeOrden
<1>5. CASE pcb[p].estado = "EXIT" BY <1>4, <1>5, NadaCambia DEF SoloDe
<1>6. CASE pcb[p].estado # "EXIT"
  <2>1. DePiezas(p, ordenes[p].piezas) BY <1>1, <1>2, OrdenHecha DEF PiezasDe, OpsTexto
  <2>2. PICK dir \in Nat, n \in Nat : Suyos(p, dir, n) /\ ordenes[p].piezas = Mmu(p, dir, n) BY <2>1 DEF DePiezas
  <2>3. PICK z : z = [b \in 1 .. n |-> dir + b - 1] OBVIOUS
  <2>4. Logicas(p, ordenes[p].piezas) = z BY <2>2, <2>3, LogicasDelAcceso
  <2>5. PICK g : g = pcb[p].registros OBVIOUS
  <2>6. Maquina(p) = [modo |-> op, regs |-> g, es |-> z] /\ Maquina(p)' = Corre(g)
    BY <1>4, <1>6, <2>4, <2>5
  <2>7. Leido(ordenes[p].piezas) = [b \in 1 .. n |-> memoria[Fisica(p, dir + b - 1)]]
    BY <2>2, LeidoDelAcceso DEF DInv
  <2>8. \A b \in 1 .. n : Espacio(p)[z[b]] = memoria[Fisica(p, dir + b - 1)]
    <3>1. SUFFICES ASSUME NEW b \in 1 .. n PROVE Espacio(p)[z[b]] = memoria[Fisica(p, dir + b - 1)] OBVIOUS
    <3>2. PICK a : a = dir + b - 1 OBVIOUS
    <3>3. a \in Nat /\ a < Len(Tablas[p]) * TAM_PAGINA BY <2>2, <3>2, DireccionDelAcceso
    <3>4. a \in 0 .. Tamanio(p) - 1 BY <1>6, <3>3, EspacioVivo
    <3>5. z[b] = a BY <2>3, <3>2
    <3>6. QED BY <1>6, <3>2, <3>4, <3>5, EspacioVivo
  <2>9. Pantalla(p)' = [k \in DOMAIN z |-> Espacio(p)[z[k]]]
    <3>1. p \in DOMAIN pantalla BY DEF DInv, Valores
    <3>2. pantalla'[p] = Leido(ordenes[p].piezas) BY <1>2, <3>1
    <3>3. Pantalla(p)' = pantalla'[p] BY <1>4, <1>6 DEF Pantalla
    <3>4. QED BY <2>3, <2>7, <2>8, <3>2, <3>3
  <2>10. op \notin {"corre", "termina", "fin"} /\ op # "IO_STDIN_READ" /\ op = "IO_STDOUT_WRITE" BY <1>1
  <2>11. Espacio(p)' = Espacio(p) BY <1>2, <1>4, EspacioIgual DEF MemoriaIgual
  <2>12. pcb'[p].pedido = pcb[p].pedido BY <1>4
  <2>13. QED BY <1>4, <2>6, <2>9, <2>10, <2>11, <2>12, EsProsigue
<1>7. QED BY <1>5, <1>6

\* The generic device only ends the wait.
LEMMA VeIoGenSleep ==
  ASSUME CInv, DInv, CInv', DInv', NEW p \in Procesos, IoGenSleep(p)
  PROVE  Abstracta!Prosigue(p) \/ UNCHANGED Abstracta!vars
<1>1. PICK op \in InstruccionesIO : op = "IO_GEN_SLEEP" BY DEF InstruccionesIO
<1>2. Orden(p, op) /\ UNCHANGED <<memoria, pantalla>> BY <1>1 DEF IoGenSleep
<1>3. \A q \in Procesos : q # p => MemoriaIgual(q) /\ pantalla'[q] = pantalla[q] BY <1>2 DEF MemoriaIgual
<1>4. /\ SoloDe(p) /\ pcb'[p] = pcb[p] /\ (pcb[p].estado = "EXIT" => Igual(p))
      /\ pcb[p].estado # "EXIT" =>
              /\ Maquina(p) = [modo |-> op, regs |-> pcb[p].registros, es |-> Logicas(p, ordenes[p].piezas)]
              /\ Maquina(p)' = Corre(pcb[p].registros)
  BY <1>2, <1>3, VeOrden
<1>5. CASE pcb[p].estado = "EXIT" BY <1>4, <1>5, NadaCambia DEF SoloDe
<1>6. CASE pcb[p].estado # "EXIT"
  <2>1. PICK z : z = Logicas(p, ordenes[p].piezas) OBVIOUS
  <2>2. PICK g : g = pcb[p].registros OBVIOUS
  <2>3. Maquina(p) = [modo |-> op, regs |-> g, es |-> z] /\ Maquina(p)' = Corre(g)
    BY <1>4, <1>6, <2>1, <2>2
  <2>4. op \notin {"corre", "termina", "fin"} /\ op # "IO_STDIN_READ" /\ op # "IO_STDOUT_WRITE" BY <1>1
  <2>5. Espacio(p)' = Espacio(p) BY <1>2, <1>4, EspacioIgual DEF MemoriaIgual
  <2>6. pcb'[p].pedido = pcb[p].pedido /\ Pantalla(p)' = Pantalla(p) BY <1>2, <1>4 DEF Pantalla
  <2>7. QED BY <1>4, <2>3, <2>4, <2>5, <2>6, EsProsigue
<1>7. QED BY <1>5, <1>6

-----------------------------------------------------------------------------
(* The dispatch loop *)

\* A step of the CPU: only the process of the burst can change.
LEMMA SoloElDeLaCpu ==
  ASSUME CInv, DInv, CInv', DInv', UNCHANGED <<programa, pcb, ordenes, kernel, pantalla>>,
         \A q \in Procesos : q # kernel => MemoriaIgual(q)
  PROVE  \A p \in Procesos : (p = kernel \/ kernel = Nadie) => SoloDe(p)
<1>1. ASSUME NEW q \in Procesos, q # kernel PROVE Igual(q) BY <1>1, AjenoIgual
<1>2. QED BY <1>1, ProcesosFinitos DEF SoloDe

\* The machine of the process in EXEC is all that is left to look at.
LEMMA QuietoSiElDelKernel ==
  ASSUME CInv, DInv, CInv', DInv', UNCHANGED <<programa, memoria, pcb, ordenes, kernel, pantalla>>,
         \A p \in Procesos : p = kernel => Maquina(p)' = Maquina(p)
  PROVE  UNCHANGED Abstracta!vars
<1>1. ASSUME NEW q \in Procesos PROVE Igual(q)
  <2>1. CASE q # kernel BY <2>1, AjenoIgual DEF MemoriaIgual
  <2>2. CASE q = kernel
    <3>1. Maquina(q)' = Maquina(q) BY <2>2
    <3>2. Espacio(q)' = Espacio(q) BY EspacioIgual DEF MemoriaIgual
    <3>3. QED BY <3>1, <3>2 DEF Igual, Pantalla
  <2>3. QED BY <2>1, <2>2
<1>2. QED BY <1>1, NadaCambia

\* The CPU takes the context it was sent.
LEMMA VeRecibirProceso ==
  ASSUME CInv, DInv, CInv', DInv', RecibirProceso
  PROVE  UNCHANGED Abstracta!vars
<1>1. /\ cpu.fase = "libre" /\ dispatch # <<>> /\ Head(dispatch).op = "EJECUTAR_PROCESO"
      /\ cpu' = [fase |-> "ejecuta", pid |-> Head(dispatch).pid,
                 registros |-> LeerRegistros(Head(dispatch).registros), desalojo |-> FALSE]
      /\ dispatch' = Tail(dispatch)
      /\ UNCHANGED <<programa, memoria, pcb, ordenes, kernel, desalojos, pantalla>>
  BY DEF RecibirProceso, FaseInicial, nucleo
<1>2. dispatch = <<dispatch[1]>> /\ dispatch' = <<>> /\ Head(dispatch) = dispatch[1] /\ Enviada
  <2>1. ~CpuPide /\ ~CpuColgada /\ ~Trabada /\ ~Nada BY <1>1 DEF CpuPide, CpuColgada, Trabada, Nada
  <2>2. Enviada /\ EnCamino BY <2>1, <1>1 DEF CInv, Protocolo, SinRafaga, Enviada, EnMarcha, Devuelta
  <2>3. QED BY <2>2, <1>1, Sockets DEF EnCamino
<1>3. ASSUME NEW p \in Procesos, p = kernel PROVE Maquina(p)' = Maquina(p)
  <2>1. Maquina(p) = Corre(pcb[p].registros) BY <1>2, <1>3, Vistas DEF TodasLasVistas, Vista
  <2>2. 1 \in DOMAIN dispatch BY <1>2
  <2>3. dispatch[1].pid = kernel /\ dispatch[1].registros = AgregarRegistros(pcb[kernel].registros)
    BY <1>1, <1>2, <2>2, Destinos DEF DInv, Envios
  <2>4. pcb[p].registros \in Juegos BY DEF DInv, Valores
  <2>5. cpu'.registros = pcb[p].registros /\ cpu'.pid = p /\ cpu'.fase = "ejecuta" /\ cpu'.desalojo = FALSE
    BY <1>1, <1>2, <1>3, <2>3, <2>4, IdaYVuelta
  <2>6. desalojos' = <<>> /\ kernel' = p BY <1>1, <1>2, <1>3 DEF Enviada
  <2>7. Nada' BY <1>2 DEF Nada
  <2>8. Maquina(p)' = [modo |-> "corre", regs |-> pcb[p].registros, es |-> <<>>]
    BY <2>5, <2>6, <2>7, VistasDespues DEF Vista
  <2>9. QED BY <2>1, <2>8 DEF Corre
<1>4. QED BY <1>1, <1>3, QuietoSiElDelKernel

\* CONTINUAR ends the wait in the CPU; DESALOJAR, or another process, changes
\* no machine.
LEMMA VeRecibirRespuesta ==
  ASSUME CInv, DInv, CInv', DInv', RecibirRespuesta
  PROVE  (\E p \in Procesos : Abstracta!Prosigue(p)) \/ UNCHANGED Abstracta!vars
<1>1. /\ cpu.fase = "pide" /\ dispatch # <<>> /\ dispatch' = Tail(dispatch)
      /\ cpu' = CASE Head(dispatch).op = "DESALOJAR" -> [cpu EXCEPT !.fase = "chequea", !.desalojo = TRUE]
                  [] Head(dispatch).op = "CONTINUAR" -> [cpu EXCEPT !.fase = "chequea"]
                  [] OTHER -> [cpu EXCEPT !.fase = "desfasada"]
      /\ UNCHANGED <<programa, memoria, pcb, ordenes, kernel, desalojos, pantalla>>
  BY DEF RecibirRespuesta, nucleo
<1>2. DOMAIN cpu = {"fase", "pid", "registros", "desalojo"} BY DEF CInv, TiposDeControl
<1>3. \/ SinRafaga
      \/ Enviada /\ EnCamino
      \/ Enviada /\ EnCaminoDetras
      \/ EnMarcha /\ Uno("CONTINUAR") /\ CpuPide /\ cpu.pid = kernel
  BY <1>1 DEF CInv, Protocolo, Enviada, EnMarcha, Devuelta, Nada, Trabada
<1>4. CASE SinRafaga
  <2>1. \A p \in Procesos : p # kernel BY <1>4, ProcesosFinitos DEF SinRafaga
  <2>2. QED BY <1>1, <2>1, QuietoSiElDelKernel
<1>5. CASE Enviada /\ EnCamino
  <2>1. Head(dispatch).op = "EJECUTAR_PROCESO" BY <1>5, Sockets DEF EnCamino, Manda
  <2>2. cpu'.fase = "desfasada" BY <1>1, <1>2, <2>1
  <2>3. ASSUME NEW p \in Procesos, p = kernel PROVE Maquina(p)' = Maquina(p)
    <3>1. Maquina(p) = Corre(pcb[p].registros) BY <1>5, <2>3, Vistas DEF TodasLasVistas, Vista
    <3>2. Maquina(p)' = Corre(pcb[p].registros) BY <1>1, <2>2, <2>3, VistasDespues DEF Vista
    <3>3. QED BY <3>1, <3>2
  <2>4. QED BY <1>1, <2>3, QuietoSiElDelKernel
<1>6. CASE Enviada /\ EnCaminoDetras
  <2>1. dispatch' = <<dispatch[2]>> /\ dispatch[2].op = "EJECUTAR_PROCESO"
    BY <1>1, <1>6, Sockets DEF EnCaminoDetras, Manda
  <2>2. 1 \in DOMAIN dispatch' /\ dispatch'[1].op = "EJECUTAR_PROCESO" BY <2>1
  <2>3. Enviada' BY <2>2, IdaDespues DEF HayEnvio
  <2>4. ASSUME NEW p \in Procesos, p = kernel PROVE Maquina(p)' = Maquina(p)
    <3>1. Maquina(p) = Corre(pcb[p].registros) BY <1>6, <2>4, Vistas DEF TodasLasVistas, Vista
    <3>2. Maquina(p)' = Corre(pcb[p].registros) BY <1>1, <2>3, <2>4, VistasDespues DEF Vista
    <3>3. QED BY <3>1, <3>2
  <2>5. QED BY <1>1, <2>4, QuietoSiElDelKernel
<1>7. CASE EnMarcha /\ Uno("CONTINUAR") /\ CpuPide /\ cpu.pid = kernel
  <2>1. PICK p \in Procesos : p = kernel BY <1>7 DEF CpuPide
  <2>2. Head(dispatch).op = "CONTINUAR" /\ dispatch' = <<>> BY <1>1, <1>7, Sockets DEF Uno
  <2>3. cpu'.fase = "chequea" /\ cpu'.pid = p /\ cpu'.desalojo = FALSE /\ cpu'.registros = cpu.registros
    BY <1>1, <1>2, <1>7, <2>1, <2>2 DEF CpuPide, CInv, TiposDeControl
  <2>4. PICK op : op = Pedida OBVIOUS
  <2>5. op \in InstruccionesRecurso BY <1>7, <2>4 DEF DInv, Peticiones
  <2>6. op \notin {"corre", "termina", "fin"} /\ op # "IO_STDIN_READ" /\ op # "IO_STDOUT_WRITE"
    BY <2>5 DEF InstruccionesRecurso
  <2>7. PICK g : g = cpu.registros OBVIOUS
  <2>8. PICK z : z = <<>> OBVIOUS
  <2>9. desalojos = <<>> /\ desalojos' = <<>> BY <1>1, <1>7 DEF EnMarcha
  <2>10. Maquina(p) = [modo |-> op, regs |-> g, es |-> z]
    BY <1>1, <1>7, <2>1, <2>4, <2>7, <2>8, <2>9, Vistas DEF TodasLasVistas, Vista, CpuPide
  <2>11. Nada' BY <2>2 DEF Nada
  <2>12. kernel' = p BY <1>1, <2>1
  <2>13. Maquina(p)' = [modo |-> "corre", regs |-> g, es |-> <<>>]
    BY <2>3, <2>7, <2>9, <2>11, <2>12, VistasDespues DEF Vista
  <2>14. Maquina(p)' = Corre(g) BY <2>13 DEF Corre
  <2>15. Espacio(p)' = Espacio(p) /\ Pantalla(p)' = Pantalla(p) /\ pcb'[p].pedido = pcb[p].pedido
    BY <1>1, EspacioIgual DEF MemoriaIgual, Pantalla
  <2>16. SoloDe(p) BY <1>1, <2>1, SoloElDeLaCpu DEF MemoriaIgual
  <2>17. Abstracta!Prosigue(p) BY <2>6, <2>10, <2>14, <2>15, <2>16, EsProsigue
  <2>18. QED BY <2>17
<1>8. QED BY <1>3, <1>4, <1>5, <1>6, <1>7

\* An eviction takes the registers to the message as they are
\* (check_interrupt).
LEMMA VeCheckInterrupt ==
  ASSUME CInv, DInv, CInv', DInv', CheckInterrupt
  PROVE  UNCHANGED Abstracta!vars
<1>1. /\ cpu.fase = "chequea" /\ UNCHANGED <<programa, memoria, pcb, ordenes, kernel, dispatch, pantalla>>
      /\ cpu.desalojo \in BOOLEAN
      /\ DOMAIN cpu = {"fase", "pid", "registros", "desalojo"}
  BY DEF CheckInterrupt, nucleo, CInv, TiposDeControl
<1>2. CASE ~cpu.desalojo
  <2>1. kernel # Nadie /\ kernel \in Procesos /\ desalojos = <<>> /\ dispatch = <<>> /\ cpu.pid = kernel
    BY <1>1, <1>2, CpuEjecuta
  <2>2. PICK p \in Procesos : p = kernel BY <2>1
  <2>3. Nada BY <2>1 DEF Nada
  <2>4. Maquina(p) = [modo |-> "corre", regs |-> cpu.registros, es |-> <<>>]
    BY <1>1, <1>2, <2>1, <2>2, <2>3, Vistas DEF TodasLasVistas, Vista
  <2>5. kernel' = p BY <1>1, <2>2
  <2>6. CASE Mias # {}
    <3>1. PICK m : /\ m = [op |-> Primera(Mias), registros |-> AgregarRegistros(R), piezas |-> <<>>]
                   /\ desalojos' = Append(desalojos, m)
      BY <1>2, <2>6 DEF CheckInterrupt
    <3>2. desalojos' = <<m>> BY <2>1, <3>1, Sockets
    <3>3. desalojos' # <<>> /\ desalojos'[1] = m BY <3>2, Sockets
    <3>4. AlVolver(m.op) = "corre" BY <3>1 DEF AlVolver, Primera, Motivos
    <3>5. R \in Juegos BY DEF DInv, Valores, R
    <3>6. Traidos(m.registros) = cpu.registros BY <3>1, <3>5, IdaYVuelta DEF R
    <3>7. Maquina(p)' = [modo |-> AlVolver(m.op), regs |-> Traidos(m.registros), es |-> Logicas(p, m.piezas)]
      BY <2>5, <3>3, VistasDespues DEF Vista
    <3>8. m.piezas = <<>> BY <3>1
    <3>9. Maquina(p)' = Maquina(p) BY <2>4, <3>4, <3>6, <3>7, <3>8, SinPiezas
    <3>10. QED BY <1>1, <2>2, <3>9, QuietoSiElDelKernel
  <2>7. CASE Mias = {}
    <3>1. cpu' = [cpu EXCEPT !.fase = "ejecuta"] /\ desalojos' = <<>> BY <1>2, <2>1, <2>7 DEF CheckInterrupt
    <3>2. cpu'.fase = "ejecuta" /\ cpu'.pid = p /\ cpu'.desalojo = FALSE /\ cpu'.registros = cpu.registros
      BY <1>1, <1>2, <2>1, <2>2, <3>1
    <3>3. Nada' BY <1>1, <2>1 DEF Nada
    <3>4. Maquina(p)' = [modo |-> "corre", regs |-> cpu.registros, es |-> <<>>]
      BY <2>5, <3>1, <3>2, <3>3, VistasDespues DEF Vista
    <3>5. QED BY <1>1, <2>2, <2>4, <3>4, QuietoSiElDelKernel
  <2>8. QED BY <2>6, <2>7
<1>3. CASE cpu.desalojo
  <2>1. UNCHANGED desalojos BY <1>3 DEF CheckInterrupt
  <2>2. ASSUME NEW p \in Procesos, p = kernel PROVE Maquina(p)' = Maquina(p)
    <3>1. kernel # Nadie BY <2>2, ProcesosFinitos
    <3>2. Enviada \/ Devuelta BY <1>1, <1>3, <3>1 DEF CInv, Protocolo, SinRafaga, EnMarcha, CpuPide, Trabada
    <3>3. CASE Enviada
      <4>1. HayEnvio
        <5>1. EnCamino => 1 \in DOMAIN dispatch /\ dispatch[1].op = "EJECUTAR_PROCESO" BY DEF EnCamino, Manda
        <5>2. EnCaminoDetras => 2 \in DOMAIN dispatch /\ dispatch[2].op = "EJECUTAR_PROCESO"
          BY DEF EnCaminoDetras, Manda
        <5>3. QED BY <3>3, <5>1, <5>2 DEF Enviada, HayEnvio
      <4>2. HayEnvio' BY <4>1, <1>1 DEF HayEnvio
      <4>3. Enviada' BY <4>2, IdaDespues
      <4>4. Maquina(p) = Corre(pcb[p].registros) BY <2>2, <3>3, Vistas DEF TodasLasVistas, Vista
      <4>5. Maquina(p)' = Corre(pcb[p].registros) BY <1>1, <2>2, <4>3, VistasDespues DEF Vista
      <4>6. QED BY <4>4, <4>5
    <3>4. CASE Devuelta
      <4>1. desalojos # <<>> BY <3>4, Sockets DEF Devuelta
      <4>2. Maquina(p) = [modo |-> AlVolver(desalojos[1].op), regs |-> Traidos(desalojos[1].registros),
                          es |-> Logicas(p, desalojos[1].piezas)]
        BY <2>2, <4>1, Vistas DEF TodasLasVistas, Vista
      <4>3. Maquina(p)' = [modo |-> AlVolver(desalojos[1].op), regs |-> Traidos(desalojos[1].registros),
                          es |-> Logicas(p, desalojos[1].piezas)]
        BY <1>1, <2>1, <2>2, <4>1, VistasDespues DEF Vista
      <4>4. QED BY <4>2, <4>3
    <3>5. QED BY <3>2, <3>3, <3>4
  <2>3. QED BY <1>1, <2>2, QuietoSiElDelKernel
<1>4. QED BY <1>1, <1>2, <1>3

-----------------------------------------------------------------------------
(* The instructions *)

\* The process that executes, before the instruction
LEMMA AntesDeEjecutar ==
  ASSUME CInv, DInv, CInv', DInv', NEW ops, Ejecuta(ops),
         NEW p \in Procesos, p = kernel, \A q \in Procesos : q # kernel => MemoriaIgual(q)
  PROVE  /\ SoloDe(p) /\ Maquina(p) = Corre(R) /\ R["PC"] < Len(programa[p])
         /\ pcb' = pcb /\ pcb[p].estado = "EXEC" /\ Pantalla(p)' = Pantalla(p)
         /\ cpu.pid = p /\ kernel' = p /\ I = programa[p][R["PC"] + 1] /\ I.op \in ops
<1>1. /\ cpu.fase = "ejecuta" /\ I.op \in ops
      /\ UNCHANGED <<programa, pcb, ordenes, kernel, pantalla>>
      /\ cpu.pid = kernel /\ cpu.desalojo = FALSE /\ desalojos = <<>> /\ dispatch = <<>>
      /\ R["PC"] < Len(programa[cpu.pid])
  BY AlEjecutar
<1>2. SoloDe(p) BY <1>1, SoloElDeLaCpu
<1>3. Nada BY <1>1 DEF Nada
<1>4. Maquina(p) = [modo |-> "corre", regs |-> cpu.registros, es |-> <<>>]
  BY <1>1, <1>3, Vistas DEF TodasLasVistas, Vista
<1>5. pcb[p].estado = "EXEC" BY DEF CInv, EjecutaElDelKernel
<1>6. QED BY <1>1, <1>2, <1>4, <1>5 DEF Corre, R, Pantalla, I

\* What the abstract machine makes of an instruction that leaves those registers
LEMMA DespuesDeSeguir ==
  ASSUME CInv, DInv, CInv', DInv', NEW ops, Ejecuta(ops),
         NEW p \in Procesos, p = kernel, NEW fase \in {"chequea", "caida"}, NEW g,
         cpu' = [cpu EXCEPT !.fase = fase, !.registros = g], UNCHANGED desalojos
  PROVE  Maquina(p)' = Corre(g)
<1>1. /\ UNCHANGED <<kernel, dispatch>>
      /\ cpu.pid = kernel /\ cpu.desalojo = FALSE /\ desalojos = <<>> /\ dispatch = <<>>
  BY AlEjecutar
<1>2. DOMAIN cpu = {"fase", "pid", "registros", "desalojo"} BY DEF CInv, TiposDeControl
<1>3. cpu'.fase # "pide" /\ cpu'.pid = p /\ cpu'.desalojo = FALSE /\ cpu'.registros = g BY <1>1, <1>2
<1>4. Nada' BY <1>1 DEF Nada
<1>5. kernel' = p /\ desalojos' = <<>> BY <1>1
<1>6. Maquina(p)' = [modo |-> "corre", regs |-> g, es |-> <<>>]
  BY <1>3, <1>4, <1>5, VistasDespues DEF Vista
<1>7. QED BY <1>6 DEF Corre

\* ... and of one that sends that message.
LEMMA DespuesDeMandar ==
  ASSUME CInv, DInv, CInv', DInv', NEW ops, Ejecuta(ops),
         NEW p \in Procesos, p = kernel, NEW m, desalojos' = Append(desalojos, m),
         m.registros = AgregarRegistros(RMas)
  PROVE  Maquina(p)' = [modo |-> AlVolver(m.op), regs |-> RMas, es |-> Logicas(p, m.piezas)]
<1>1. UNCHANGED kernel /\ desalojos = <<>> /\ RMas \in Juegos BY AlEjecutar
<1>2. desalojos' = <<m>> BY <1>1, Sockets
<1>3. desalojos' # <<>> /\ desalojos'[1] = m BY <1>2, Sockets
<1>4. Traidos(m.registros) = RMas BY <1>1, IdaYVuelta
<1>5. kernel' = p BY <1>1
<1>6. Maquina(p)' = [modo |-> AlVolver(m.op), regs |-> Traidos(m.registros), es |-> Logicas(p, m.piezas)]
  BY <1>3, <1>5, VistasDespues DEF Vista
<1>7. QED BY <1>4, <1>6

\* All the above for an instruction: what the abstract machine sees
LEMMA Ejecutada ==
  ASSUME CInv, DInv, CInv', DInv', NEW ops, Ejecuta(ops), NEW p \in Procesos, p = kernel,
         \A q \in Procesos : q # kernel => MemoriaIgual(q)
  PROVE  /\ Abstracta!Ins(p) = I /\ Abstracta!Regs(p) = RMas /\ Abstracta!Toca(p, I.op)
         /\ \A g : Sigue(g) => Abstracta!Queda(p, g)
         /\ \A m : Maquina(p)' = m =>
              [q \in Procesos |-> Maquina(q)]' = [[q \in Procesos |-> Maquina(q)] EXCEPT ![p] = m]
         /\ \A e : Espacio(p)' = e =>
              [q \in Procesos |-> Espacio(q)]' = [[q \in Procesos |-> Espacio(q)] EXCEPT ![p] = e]
         /\ UNCHANGED memoria => [q \in Procesos |-> Espacio(q)]' = [q \in Procesos |-> Espacio(q)]
         /\ [q \in Procesos |-> Espacio(q)][p] = Espacio(p)
         /\ p = cpu.pid /\ pcb[p].estado = "EXEC" /\ pcb' = pcb
<1>2. /\ SoloDe(p) /\ Maquina(p) = Corre(R) /\ R["PC"] < Len(programa[p])
      /\ pcb' = pcb /\ Pantalla(p)' = Pantalla(p) /\ pcb[p].estado = "EXEC"
      /\ cpu.pid = p /\ I = programa[p][R["PC"] + 1]
  BY AntesDeEjecutar
<1>3. pcb'[p].pedido = pcb[p].pedido BY <1>2
<1>4. PICK g0 : g0 = R OBVIOUS
<1>5. /\ Abstracta!Ins(p) = programa[p][g0["PC"] + 1]
      /\ Abstracta!Regs(p) = [g0 EXCEPT !["PC"] = g0["PC"] + 1]
      /\ \A op : programa[p][g0["PC"] + 1].op = op => Abstracta!Toca(p, op)
      /\ \A h : Maquina(p)' = Corre(h) => Abstracta!Queda(p, h)
      /\ \A m : Maquina(p)' = m =>
              [q \in Procesos |-> Maquina(q)]' = [[q \in Procesos |-> Maquina(q)] EXCEPT ![p] = m]
      /\ \A e : Espacio(p)' = e =>
              [q \in Procesos |-> Espacio(q)]' = [[q \in Procesos |-> Espacio(q)] EXCEPT ![p] = e]
      /\ Espacio(p)' = Espacio(p) => [q \in Procesos |-> Espacio(q)]' = [q \in Procesos |-> Espacio(q)]
  <2>1. Maquina(p) = Corre(g0) /\ g0["PC"] < Len(programa[p]) BY <1>2, <1>4
  <2>2. QED BY <2>1, <1>2, <1>3, EsInstruccion
<1>6. UNCHANGED memoria => Espacio(p)' = Espacio(p) BY <1>2, EspacioIgual DEF MemoriaIgual
<1>7. RMas = [R EXCEPT !["PC"] = R["PC"] + 1] BY AlEjecutar
<1>8. ASSUME NEW g, Sigue(g) PROVE Abstracta!Queda(p, g)
  <2>1. PICK fase \in {"chequea", "caida"} : fase = "chequea" OBVIOUS
  <2>2. cpu' = [cpu EXCEPT !.fase = fase, !.registros = g] /\ UNCHANGED desalojos BY <1>8, <2>1 DEF Sigue
  <2>3. Maquina(p)' = Corre(g) BY <2>2, DespuesDeSeguir
  <2>4. QED BY <2>3, <1>5
<1>9. QED BY <1>2, <1>4, <1>5, <1>6, <1>7, <1>8

\* One that writes no memory and goes on
LEMMA EjecutadaYSigue ==
  ASSUME CInv, DInv, CInv', DInv', NEW ops, Ejecuta(ops), UNCHANGED memoria, NEW g, Sigue(g)
  PROVE  \E p \in Procesos :
           /\ Abstracta!Ins(p) = I /\ Abstracta!Regs(p) = RMas /\ Abstracta!Toca(p, I.op)
           /\ [q \in Procesos |-> Espacio(q)]' = [q \in Procesos |-> Espacio(q)]
           /\ [q \in Procesos |-> Espacio(q)][p] = Espacio(p)
           /\ Abstracta!Queda(p, g) /\ p = cpu.pid /\ pcb[p].estado = "EXEC"
<1>1. PICK p \in Procesos : p = kernel BY AlEjecutar
<1>2. \A q \in Procesos : q # kernel => MemoriaIgual(q) BY DEF MemoriaIgual
<1>3. QED BY <1>1, <1>2, Ejecutada

\* A CPU that dies executes nothing more.
LEMMA VeCae ==
  ASSUME CInv, DInv, CInv', DInv', Cae
  PROVE  UNCHANGED Abstracta!vars
<1>1. PICK ops : Ejecuta(ops) BY DEF Cae
<1>2. PICK fase \in {"chequea", "caida"} : fase = "caida" OBVIOUS
<1>3. cpu' = [cpu EXCEPT !.fase = fase] /\ UNCHANGED <<memoria, desalojos>> BY <1>2 DEF Cae
<1>4. DOMAIN cpu = {"fase", "pid", "registros", "desalojo"} BY DEF CInv, TiposDeControl
<1>5. cpu' = [cpu EXCEPT !.fase = fase, !.registros = R] BY <1>3, <1>4 DEF R
<1>6. UNCHANGED <<programa, pcb, ordenes, kernel, pantalla>> BY <1>1, AlEjecutar
<1>7. \A q \in Procesos : q # kernel => MemoriaIgual(q) BY <1>3 DEF MemoriaIgual
<1>8. ASSUME NEW p \in Procesos, p = kernel PROVE Maquina(p)' = Maquina(p)
  <2>1. Maquina(p) = Corre(R) BY <1>1, <1>7, <1>8, AntesDeEjecutar
  <2>2. Maquina(p)' = Corre(R) BY <1>1, <1>3, <1>5, <1>8, DespuesDeSeguir
  <2>3. QED BY <2>1, <2>2
<1>9. QED BY <1>3, <1>6, <1>8, QuietoSiElDelKernel

\* SET
LEMMA VeSet ==
  ASSUME CInv, DInv, CInv', DInv', EjecutaSet
  PROVE  \E p \in Procesos : Abstracta!Set(p)
<1>1. PICK ops : ops = {"SET"} /\ Ejecuta(ops) BY DEF EjecutaSet
<1>2. UNCHANGED memoria /\ Sigue(Con(RMas, I.r, I.n)) BY DEF EjecutaSet
<1>3. I.op = "SET" /\ RMas \in Juegos /\ I.r \in Registros /\ I.n \in Int
  <2>1. I.op \in ops /\ RMas \in Juegos /\ BienFormada(I) BY <1>1, AlEjecutar
  <2>2. I.op = "SET" BY <1>1, <2>1
  <2>3. I.r \in Registros /\ I.n \in Nat BY <2>1, <2>2 DEF BienFormada
  <2>4. QED BY <2>1, <2>2, <2>3
<1>4. Con(RMas, I.r, I.n) = [RMas EXCEPT ![I.r] = I.n % Ancho(I.r)] BY <1>3, Asigna
<1>5. Ancho(I.r) = Abstracta!Bits(I.r) BY DEF Ancho, Abstracta!Bits
<1>6. PICK g : g = [RMas EXCEPT ![I.r] = (I.n % Abstracta!Bits(I.r))] OBVIOUS
<1>7. Sigue(g) BY <1>2, <1>4, <1>5, <1>6
<1>8. PICK p \in Procesos :
        /\ Abstracta!Ins(p) = I /\ Abstracta!Regs(p) = RMas /\ Abstracta!Toca(p, I.op)
        /\ [q \in Procesos |-> Espacio(q)]' = [q \in Procesos |-> Espacio(q)]
        /\ Abstracta!Queda(p, g)
  BY <1>1, <1>2, <1>7, EjecutadaYSigue
<1>9. Abstracta!Queda(p, [RMas EXCEPT ![I.r] = I.n % Abstracta!Bits(I.r)]) BY <1>6, <1>8
<1>10. Abstracta!Set(p) BY <1>3, <1>8, <1>9 DEF Abstracta!Set
<1>11. QED BY <1>10

\* A result that fits is written as it is.
LEMMA Exactitud ==
  ASSUME NEW r \in Registros, NEW x \in Int, x \in 0 .. Abstracta!Tope(r) - 1
  PROVE  Cadena(x) % Ancho(r) = x
<1>1. LARGO \in Nat \ {0} /\ 2 * BASE <= LARGO /\ BASE \in Nat \ {0} BY Anchos
<1>2. PICK L \in Nat \ {0} : L = LARGO BY <1>1
<1>3. PICK B \in Nat \ {0} : B = BASE BY <1>1
<1>4. x < L \div 2 /\ x < L /\ x >= 0 /\ x \in 0 .. Ancho(r) - 1
  BY <1>1, <1>2, <1>3 DEF Abstracta!Tope, Ancho
<1>5. x % L = x BY <1>4
<1>6. ComoInt(x) = x BY <1>2, <1>4, <1>5 DEF ComoInt
<1>7. Cadena(x) = x BY <1>4, <1>6 DEF Cadena
<1>8. Ancho(r) \in Nat \ {0} BY Anchos
<1>9. x % Ancho(r) = x BY <1>4, <1>8
<1>10. QED BY <1>7, <1>9

\* SUM and SUB: what fits is exact, and registers of two types are left as they
\* were.
LEMMA VeAritmetica ==
  ASSUME CInv, DInv, CInv', DInv', EjecutaAritmetica
  PROVE  \E p \in Procesos : Abstracta!SumSub(p)
<1>1. PICK ops : ops = {"SUM", "SUB"} /\ Ejecuta(ops) BY DEF EjecutaAritmetica
<1>2. UNCHANGED memoria /\ Sigue(Aritmetica(I.op, RMas, I.r, I.s)) BY DEF EjecutaAritmetica
<1>3. I.op \in {"SUM", "SUB"} /\ RMas \in Juegos /\ I.r \in Registros /\ I.s \in Registros
  <2>1. I.op \in ops /\ RMas \in Juegos /\ BienFormada(I) BY <1>1, AlEjecutar
  <2>2. I.op \in {"SUM", "SUB"} BY <1>1, <2>1
  <2>3. I.r \in Registros /\ I.s \in Registros BY <2>1, <2>2 DEF BienFormada
  <2>4. QED BY <2>1, <2>2, <2>3
<1>4. PICK g : g = Aritmetica(I.op, RMas, I.r, I.s) OBVIOUS
<1>5. PICK p \in Procesos :
        /\ Abstracta!Ins(p) = I /\ Abstracta!Regs(p) = RMas /\ Abstracta!Toca(p, I.op)
        /\ [q \in Procesos |-> Espacio(q)]' = [q \in Procesos |-> Espacio(q)]
        /\ Abstracta!Queda(p, g)
  BY <1>1, <1>2, <1>4, EjecutadaYSigue
<1>6. Abstracta!Toca(p, "SUM") \/ Abstracta!Toca(p, "SUB") BY <1>3, <1>5
<1>7. PICK x \in Int : x = Operado(I.op, RMas, I.r, I.s) BY <1>3, OperadoEntero
<1>8. x = IF I.op = "SUM" THEN RMas[I.r] + RMas[I.s] ELSE RMas[I.r] - RMas[I.s] BY <1>7 DEF Operado
<1>9. CASE MismoTipo(I.r, I.s)
  <2>1. PICK v : v = Cadena(x) % Ancho(I.r) OBVIOUS
  <2>2. Cadena(x) \in Int /\ Ancho(I.r) \in Nat \ {0} BY <1>3, CadenaNatural, Anchos
  <2>3. Ancho(I.r) = Abstracta!Bits(I.r) BY DEF Ancho, Abstracta!Bits
  <2>4. v \in 0 .. Abstracta!Bits(I.r) - 1 BY <2>1, <2>2, <2>3
  <2>5. x \in 0 .. Abstracta!Tope(I.r) - 1 => v = x BY <1>3, <2>1, Exactitud
  <2>6. g = [RMas EXCEPT ![I.r] = v]
    <3>1. PICK r \in Registros : r = I.r BY <1>3
    <3>2. PICK u \in Int : u = Cadena(x) BY <2>2
    <3>3. Con(RMas, r, u) = [RMas EXCEPT ![r] = u % Ancho(r)] BY <1>3, Asigna
    <3>4. g = Con(RMas, r, u) BY <1>4, <1>7, <1>9, <3>1, <3>2 DEF Aritmetica
    <3>5. v = (u % Ancho(r)) BY <2>1, <3>1, <3>2
    <3>6. QED BY <3>1, <3>3, <3>4, <3>5
  <2>7. Abstracta!Queda(p, [RMas EXCEPT ![I.r] = v]) BY <1>5, <2>6
  <2>8. I.r \in Registros8 <=> I.s \in Registros8 BY <1>9 DEF MismoTipo
  <2>9. Abstracta!SumSub(p) BY <1>5, <1>6, <1>8, <2>4, <2>5, <2>7, <2>8 DEF Abstracta!SumSub
  <2>10. QED BY <2>9
<1>10. CASE ~MismoTipo(I.r, I.s)
  <2>1. g = RMas BY <1>4, <1>10 DEF Aritmetica
  <2>2. ~(I.r \in Registros8 <=> I.s \in Registros8) BY <1>10 DEF MismoTipo
  <2>3. Abstracta!SumSub(p) BY <1>5, <1>6, <2>1, <2>2 DEF Abstracta!SumSub
  <2>4. QED BY <2>3
<1>11. QED BY <1>9, <1>10

\* JNZ
LEMMA VeJnz ==
  ASSUME CInv, DInv, CInv', DInv', EjecutaJnz
  PROVE  \E p \in Procesos : Abstracta!Jnz(p)
<1>1. PICK ops : ops = {"JNZ"} /\ Ejecuta(ops) BY DEF EjecutaJnz
<1>2. UNCHANGED memoria /\ Sigue(Salta(RMas, I.r, I.n)) BY DEF EjecutaJnz
<1>3. I.op = "JNZ" /\ RMas \in Juegos /\ I.n \in 0 .. LARGO - 1
  <2>1. I.op \in ops /\ RMas \in Juegos /\ BienFormada(I) BY <1>1, AlEjecutar
  <2>2. I.op = "JNZ" BY <1>1, <2>1
  <2>3. QED BY <2>1, <2>2 DEF BienFormada
<1>4. "PC" \in Registros /\ Ancho("PC") = LARGO BY DEF Registros, Registros32, Registros8, Ancho
<1>5. Con(RMas, "PC", I.n) = [RMas EXCEPT !["PC"] = I.n] BY <1>3, <1>4, Anchos, Asigna
<1>6. PICK g : g = IF RMas[I.r] # 0 THEN [RMas EXCEPT !["PC"] = I.n] ELSE RMas OBVIOUS
<1>7. Sigue(g) BY <1>2, <1>5, <1>6 DEF Salta
<1>8. PICK p \in Procesos :
        /\ Abstracta!Ins(p) = I /\ Abstracta!Regs(p) = RMas /\ Abstracta!Toca(p, I.op)
        /\ [q \in Procesos |-> Espacio(q)]' = [q \in Procesos |-> Espacio(q)]
        /\ Abstracta!Queda(p, g)
  BY <1>1, <1>2, <1>7, EjecutadaYSigue
<1>9. Abstracta!Queda(p, IF RMas[I.r] # 0 THEN [RMas EXCEPT !["PC"] = I.n] ELSE RMas) BY <1>6, <1>8
<1>10. Abstracta!Jnz(p) BY <1>3, <1>8, <1>9 DEF Abstracta!Jnz
<1>11. QED BY <1>10

\* What the abstract machine reads of a process is what memory gives the MMU.
LEMMA LeidoIgual ==
  ASSUME DInv, NEW p \in Procesos, pcb[p].estado # "EXIT", NEW dir, NEW n, Suyos(p, dir, n)
  PROVE  /\ Leido(Mmu(p, dir, n)) = [b \in 1 .. n |-> Espacio(p)[dir + b - 1]]
         /\ \A b \in 1 .. n : /\ Leido(Mmu(p, dir, n))[b] = Espacio(p)[dir + b - 1]
                              /\ Leido(Mmu(p, dir, n))[b] \in 0 .. BASE - 1
<1>1. Leido(Mmu(p, dir, n)) = [b \in 1 .. n |-> memoria[Fisica(p, dir + b - 1)]] BY LeidoDelAcceso DEF DInv
<1>2. \A b \in 1 .. n : memoria[Fisica(p, dir + b - 1)] \in 0 .. BASE - 1 BY LeidoDelAcceso DEF DInv
<1>3. \A b \in 1 .. n : Espacio(p)[dir + b - 1] = memoria[Fisica(p, dir + b - 1)]
  <2>1. SUFFICES ASSUME NEW b \in 1 .. n PROVE Espacio(p)[dir + b - 1] = memoria[Fisica(p, dir + b - 1)] OBVIOUS
  <2>2. PICK a : a = dir + b - 1 OBVIOUS
  <2>3. a \in Nat /\ a < Len(Tablas[p]) * TAM_PAGINA BY <2>2, DireccionDelAcceso
  <2>4. a \in 0 .. Tamanio(p) - 1 BY <2>3, EspacioVivo
  <2>5. Espacio(p)[a] = memoria[Fisica(p, a)] BY <2>4, EspacioVivo
  <2>6. QED BY <2>2, <2>5
<1>4. QED BY <1>1, <1>2, <1>3

\* MOV_IN reads the bytes of the process, whatever pages they are in.
LEMMA VeMovIn ==
  ASSUME CInv, DInv, CInv', DInv', AccesosEnRango, MovIn
  PROVE  \E p \in Procesos : Abstracta!MovIn(p)
<1>1. PICK ops : ops = {"MOV_IN"} /\ Ejecuta(ops) BY DEF MovIn
<1>2. I.op = "MOV_IN" /\ RMas \in Juegos /\ I.r \in Registros /\ cpu.pid \in Procesos
  <2>1. I.op \in ops /\ RMas \in Juegos /\ BienFormada(I) /\ cpu.pid \in Procesos BY <1>1, AlEjecutar
  <2>2. I.op = "MOV_IN" BY <1>1, <2>1
  <2>3. QED BY <2>1, <2>2 DEF BienFormada
<1>3. Suyos(cpu.pid, RMas[I.s], BytesDe(I.r)) BY <1>1, <1>2, AccesosSuyos
<1>4. PICK bytes : bytes = Leido(Mmu(cpu.pid, RMas[I.s], BytesDe(I.r))) OBVIOUS
<1>5. PICK v : v = Valor(bytes) OBVIOUS
<1>6. v \in 0 .. Ancho(I.r) - 1 BY <1>2, <1>3, <1>4, <1>5, ValorDelAcceso
<1>7. PICK g : g = [RMas EXCEPT ![I.r] = v] OBVIOUS
<1>8. UNCHANGED memoria /\ Sigue(Con(RMas, I.r, v)) BY <1>4, <1>5 DEF MovIn
<1>9. Ancho(I.r) \in Nat BY <1>2, Anchos
<1>10. Con(RMas, I.r, v) = g
  <2>1. PICK r \in Registros : r = I.r BY <1>2
  <2>2. v \in Int /\ v \in 0 .. Ancho(r) - 1 BY <1>6, <1>9, <2>1
  <2>3. Con(RMas, r, v) = [RMas EXCEPT ![r] = v] BY <1>2, <2>2, Asigna
  <2>4. QED BY <1>7, <2>1, <2>3
<1>11. Sigue(g) BY <1>8, <1>10
<1>12. PICK p \in Procesos :
        /\ Abstracta!Ins(p) = I /\ Abstracta!Regs(p) = RMas /\ Abstracta!Toca(p, I.op)
        /\ [q \in Procesos |-> Espacio(q)]' = [q \in Procesos |-> Espacio(q)]
        /\ [q \in Procesos |-> Espacio(q)][p] = Espacio(p)
        /\ Abstracta!Queda(p, g) /\ p = cpu.pid /\ pcb[p].estado = "EXEC"
  BY <1>1, <1>8, <1>11, EjecutadaYSigue
<1>13. bytes = [b \in 1 .. BytesDe(I.r) |-> Espacio(p)[RMas[I.s] + b - 1]]
  <2>1. PICK d : d = RMas[I.s] OBVIOUS
  <2>2. PICK n : n = BytesDe(I.r) OBVIOUS
  <2>3. Suyos(p, d, n) /\ pcb[p].estado # "EXIT" BY <1>3, <1>12, <2>1, <2>2
  <2>4. Leido(Mmu(p, d, n)) = [b \in 1 .. n |-> Espacio(p)[d + b - 1]] BY <2>3, LeidoIgual
  <2>5. bytes = Leido(Mmu(p, d, n)) BY <1>4, <1>12, <2>1, <2>2
  <2>6. QED BY <2>1, <2>2, <2>4, <2>5
<1>14. Abstracta!BytesDe(I.r) = BytesDe(I.r) BY DEF BytesDe, Abstracta!BytesDe
<1>15. Abstracta!Leido(p, RMas[I.s], Abstracta!BytesDe(I.r)) = bytes
  BY <1>12, <1>13, <1>14 DEF Abstracta!Leido
<1>16. Abstracta!Numero(bytes) = Valor(bytes) BY DEF Abstracta!Numero, Valor
<1>17. Abstracta!Queda(p, [RMas EXCEPT ![I.r] = Abstracta!Numero(bytes)]) BY <1>5, <1>7, <1>12, <1>16
<1>18. Abstracta!MovIn(p) BY <1>2, <1>12, <1>15, <1>17 DEF Abstracta!MovIn
<1>19. QED BY <1>18

\* A write of the running process, seen by the abstract machine
LEMMA EscritoIgual ==
  ASSUME CInv, DInv, CInv', DInv', NEW ops, Ejecuta(ops), NEW p \in Procesos, p = cpu.pid, Sigue(RMas),
         NEW dir, NEW n, Suyos(p, dir, n), NEW bytes, \A b \in 1 .. n : bytes[b] \in 0 .. BASE - 1,
         Escribe(Mmu(p, dir, n), bytes)
  PROVE  /\ Abstracta!Ins(p) = I /\ Abstracta!Regs(p) = RMas /\ Abstracta!Toca(p, I.op)
         /\ Abstracta!Queda(p, RMas) /\ pcb[p].estado # "EXIT"
         /\ [q \in Procesos |-> Espacio(q)][p] = Espacio(p)
         /\ [q \in Procesos |-> Espacio(q)]' =
              [[q \in Procesos |-> Espacio(q)] EXCEPT ![p] =
                 [a \in DOMAIN Espacio(p) |->
                    IF a \in dir .. dir + n - 1 THEN bytes[a - dir + 1] ELSE Espacio(p)[a]]]
<1>1. p = kernel BY AlEjecutar
<1>2. \A o \in Procesos, a \in Nat :
        a < Len(Tablas[o]) * TAM_PAGINA =>
          memoria'[Fisica(o, a)] = IF o = p /\ a \in dir .. dir + n - 1 THEN bytes[a - dir + 1]
                                   ELSE memoria[Fisica(o, a)]
  BY EscritoDelAcceso DEF DInv
<1>3. \A q \in Procesos : q # kernel => MemoriaIgual(q) BY <1>1, <1>2 DEF MemoriaIgual
<1>4. MemoriaCon(p, dir, n, bytes) BY <1>2 DEF MemoriaCon
<1>5. /\ Abstracta!Ins(p) = I /\ Abstracta!Regs(p) = RMas /\ Abstracta!Toca(p, I.op)
      /\ \A g : Sigue(g) => Abstracta!Queda(p, g)
      /\ \A e : Espacio(p)' = e =>
           [q \in Procesos |-> Espacio(q)]' = [[q \in Procesos |-> Espacio(q)] EXCEPT ![p] = e]
      /\ [q \in Procesos |-> Espacio(q)][p] = Espacio(p)
      /\ pcb[p].estado = "EXEC" /\ pcb' = pcb
  BY <1>1, <1>3, Ejecutada
<1>6. Espacio(p)' = [a \in DOMAIN Espacio(p) |->
                       IF a \in dir .. dir + n - 1 THEN bytes[a - dir + 1] ELSE Espacio(p)[a]]
  BY <1>4, <1>5, EspacioEscrito
<1>7. QED BY <1>5, <1>6

\* MOV_OUT writes the bytes of the register, and no others.
LEMMA VeMovOut ==
  ASSUME CInv, DInv, CInv', DInv', AccesosEnRango, MovOut
  PROVE  \E p \in Procesos : Abstracta!MovOut(p)
<1>1. PICK ops : ops = {"MOV_OUT"} /\ Ejecuta(ops) BY DEF MovOut
<1>2. I.op = "MOV_OUT" /\ RMas \in Juegos /\ I.s \in Registros /\ cpu.pid \in Procesos
  <2>1. I.op \in ops /\ RMas \in Juegos /\ BienFormada(I) /\ kernel \in Procesos /\ cpu.pid = kernel
    BY <1>1, AlEjecutar
  <2>2. I.op = "MOV_OUT" BY <1>1, <2>1
  <2>3. I.s \in Registros BY <2>1, <2>2 DEF BienFormada
  <2>4. QED BY <2>1, <2>2, <2>3
<1>3. PICK p \in Procesos : p = cpu.pid BY <1>2
<1>4. PICK dir : dir = RMas[I.r] OBVIOUS
<1>5. PICK n \in Nat : n = BytesDe(I.s) BY <1>2, Anchos
<1>6. PICK v : v = RMas[I.s] OBVIOUS
<1>7. Suyos(p, dir, n) BY <1>1, <1>2, <1>3, <1>4, <1>5, AccesosSuyos
<1>8. v \in 0 .. Potencia[n] - 1
  <2>1. v \in 0 .. Ancho(I.s) - 1 BY <1>2, <1>6, Numeros
  <2>2. Ancho(I.s) = Potencia[n] BY <1>2, <1>5, Anchos
  <2>3. QED BY <2>1, <2>2
<1>9. PICK nuevo : nuevo = EnBytes(v, n) OBVIOUS
<1>10. (\A k \in 1 .. n : nuevo[k] \in 0 .. BASE - 1) /\ Valor(nuevo) = v BY <1>8, <1>9, ValorDeBytes
<1>11. nuevo \in [1 .. n -> Abstracta!Bytes] BY <1>9, <1>10 DEF EnBytes, Abstracta!Bytes
<1>12. Escribe(Mmu(p, dir, n), nuevo) /\ Sigue(RMas) BY <1>3, <1>4, <1>5, <1>6, <1>9 DEF MovOut
<1>13. /\ Abstracta!Ins(p) = I /\ Abstracta!Regs(p) = RMas /\ Abstracta!Toca(p, I.op)
       /\ Abstracta!Queda(p, RMas)
       /\ [q \in Procesos |-> Espacio(q)][p] = Espacio(p)
       /\ [q \in Procesos |-> Espacio(q)]' =
              [[q \in Procesos |-> Espacio(q)] EXCEPT ![p] =
                 [a \in DOMAIN Espacio(p) |->
                    IF a \in dir .. dir + n - 1 THEN nuevo[a - dir + 1] ELSE Espacio(p)[a]]]
  BY <1>1, <1>3, <1>7, <1>10, <1>12, EscritoIgual
<1>14. [q \in Procesos |-> Espacio(q)]' =
              [[q \in Procesos |-> Espacio(q)] EXCEPT ![p] =
                 [a \in DOMAIN @ |-> IF a \in dir .. dir + n - 1 THEN nuevo[a - dir + 1] ELSE @[a]]]
  BY <1>13
<1>15. Abstracta!Numero(nuevo) = v
  <2>1. Abstracta!Numero(nuevo) = Valor(nuevo) BY DEF Abstracta!Numero, Valor
  <2>2. QED BY <2>1, <1>10
<1>16. Abstracta!BytesDe(I.s) = n BY <1>5 DEF BytesDe, Abstracta!BytesDe
<1>17. /\ n = Abstracta!BytesDe(Abstracta!Ins(p).s) /\ dir = Abstracta!Regs(p)[Abstracta!Ins(p).r]
       /\ v = Abstracta!Regs(p)[Abstracta!Ins(p).s]
       /\ Abstracta!Toca(p, "MOV_OUT") /\ Abstracta!Queda(p, Abstracta!Regs(p))
  BY <1>2, <1>4, <1>5, <1>6, <1>13, <1>16
<1>18. \E w \in [1 .. Abstracta!BytesDe(Abstracta!Ins(p).s) -> Abstracta!Bytes] :
          /\ Abstracta!Numero(w) = Abstracta!Regs(p)[Abstracta!Ins(p).s]
          /\ [q \in Procesos |-> Espacio(q)]' =
              [[q \in Procesos |-> Espacio(q)] EXCEPT ![p] =
                 [a \in DOMAIN @ |->
                    IF a \in Abstracta!Regs(p)[Abstracta!Ins(p).r]
                              .. Abstracta!Regs(p)[Abstracta!Ins(p).r] + Abstracta!BytesDe(Abstracta!Ins(p).s) - 1
                    THEN w[a - Abstracta!Regs(p)[Abstracta!Ins(p).r] + 1] ELSE @[a]]]
  <2>1. nuevo \in [1 .. Abstracta!BytesDe(Abstracta!Ins(p).s) -> Abstracta!Bytes] BY <1>11, <1>17
  <2>2. Abstracta!Numero(nuevo) = Abstracta!Regs(p)[Abstracta!Ins(p).s] BY <1>15, <1>17
  <2>3. [q \in Procesos |-> Espacio(q)]' =
              [[q \in Procesos |-> Espacio(q)] EXCEPT ![p] =
                 [a \in DOMAIN @ |->
                    IF a \in Abstracta!Regs(p)[Abstracta!Ins(p).r]
                              .. Abstracta!Regs(p)[Abstracta!Ins(p).r] + Abstracta!BytesDe(Abstracta!Ins(p).s) - 1
                    THEN nuevo[a - Abstracta!Regs(p)[Abstracta!Ins(p).r] + 1] ELSE @[a]]]
    BY <1>14, <1>17
  <2>4. QED BY <2>1, <2>2, <2>3
<1>19. Abstracta!MovOut(p) BY <1>17, <1>18 DEF Abstracta!MovOut
<1>20. QED BY <1>19

\* COPY_STRING reads the whole text before it writes.
LEMMA VeCopyString ==
  ASSUME CInv, DInv, CInv', DInv', AccesosEnRango, CopyString
  PROVE  \E p \in Procesos : Abstracta!CopyString(p)
<1>1. PICK ops : ops = {"COPY_STRING"} /\ Ejecuta(ops) BY DEF CopyString
<1>2. I.op = "COPY_STRING" /\ cpu.pid \in Procesos /\ pcb[cpu.pid].estado = "EXEC"
  <2>1. I.op \in ops /\ kernel \in Procesos /\ cpu.pid = kernel BY <1>1, AlEjecutar
  <2>2. pcb[kernel].estado = "EXEC" BY <2>1 DEF CInv, EjecutaElDelKernel
  <2>3. QED BY <1>1, <2>1, <2>2
<1>3. PICK p \in Procesos : p = cpu.pid BY <1>2
<1>4. PICK si : si = RMas["SI"] OBVIOUS
<1>5. PICK di : di = RMas["DI"] OBVIOUS
<1>6. PICK n : n = I.n OBVIOUS
<1>7. Suyos(p, si, n) /\ Suyos(p, di, n) BY <1>1, <1>2, <1>3, <1>4, <1>5, <1>6, AccesosSuyos
<1>8. PICK bytes : bytes = Leido(Mmu(p, si, n)) OBVIOUS
<1>9. \A b \in 1 .. n : bytes[b] = Espacio(p)[si + b - 1] /\ bytes[b] \in 0 .. BASE - 1
  <2>1. pcb[p].estado # "EXIT" BY <1>2, <1>3
  <2>2. QED BY <2>1, <1>7, <1>8, LeidoIgual
<1>10. Escribe(Mmu(p, di, n), bytes) /\ Sigue(RMas) BY <1>3, <1>4, <1>5, <1>6, <1>8 DEF CopyString
<1>11. /\ Abstracta!Ins(p) = I /\ Abstracta!Regs(p) = RMas /\ Abstracta!Toca(p, I.op)
       /\ Abstracta!Queda(p, RMas)
       /\ [q \in Procesos |-> Espacio(q)][p] = Espacio(p)
       /\ [q \in Procesos |-> Espacio(q)]' =
              [[q \in Procesos |-> Espacio(q)] EXCEPT ![p] =
                 [a \in DOMAIN Espacio(p) |->
                    IF a \in di .. di + n - 1 THEN bytes[a - di + 1] ELSE Espacio(p)[a]]]
       /\ pcb[p].estado # "EXIT"
  BY <1>1, <1>3, <1>7, <1>9, <1>10, EscritoIgual
<1>12. ASSUME NEW a \in DOMAIN Espacio(p)
       PROVE  (IF a \in di .. di + n - 1 THEN bytes[a - di + 1] ELSE Espacio(p)[a])
              = IF a \in di .. di + n - 1 THEN Espacio(p)[a - di + si] ELSE Espacio(p)[a]
  <2>1. CASE a \in di .. di + n - 1
    <3>1. si \in Nat /\ di \in Nat /\ n \in Nat /\ a \in Nat BY <1>7, <1>11, <1>12, EspacioVivo DEF Suyos
    <3>2. PICK b : b = a - di + 1 OBVIOUS
    <3>3. b \in 1 .. n /\ si + b - 1 = a - di + si BY <2>1, <3>1, <3>2
    <3>4. bytes[b] = Espacio(p)[si + b - 1] BY <1>9, <3>3
    <3>5. QED BY <2>1, <3>2, <3>3, <3>4
  <2>2. CASE a \notin di .. di + n - 1 BY <2>2
  <2>3. QED BY <2>1, <2>2
<1>13. PICK e : e = [a \in DOMAIN Espacio(p) |->
                       IF a \in di .. di + n - 1 THEN Espacio(p)[a - di + si] ELSE Espacio(p)[a]]
  OBVIOUS
<1>14. e = [a \in DOMAIN Espacio(p) |->
              IF a \in di .. di + n - 1 THEN bytes[a - di + 1] ELSE Espacio(p)[a]]
  BY <1>12, <1>13
<1>15. [q \in Procesos |-> Espacio(q)]' = [[q \in Procesos |-> Espacio(q)] EXCEPT ![p] = e] BY <1>11, <1>14
<1>16. [q \in Procesos |-> Espacio(q)]' =
              [[q \in Procesos |-> Espacio(q)] EXCEPT ![p] =
                 [a \in DOMAIN @ |-> IF a \in di .. di + n - 1 THEN @[a - di + si] ELSE @[a]]]
  BY <1>11, <1>13, <1>15
<1>17. Abstracta!CopyString(p) BY <1>2, <1>4, <1>5, <1>6, <1>11, <1>16 DEF Abstracta!CopyString
<1>18. QED BY <1>17

\* A message with the reason takes the machine out of the running ones.
LEMMA Mandado ==
  ASSUME CInv, DInv, CInv', DInv', NEW ops, Ejecuta(ops), UNCHANGED memoria,
         NEW m, desalojos' = Append(desalojos, m), m.registros = AgregarRegistros(RMas)
  PROVE  \E p \in Procesos :
           /\ Abstracta!Ins(p) = I /\ Abstracta!Regs(p) = RMas /\ Abstracta!Toca(p, I.op)
           /\ [q \in Procesos |-> Espacio(q)]' = [q \in Procesos |-> Espacio(q)]
           /\ [q \in Procesos |-> Maquina(q)]' =
                [[q \in Procesos |-> Maquina(q)] EXCEPT ![p] =
                   [modo |-> AlVolver(m.op), regs |-> RMas, es |-> Logicas(p, m.piezas)]]
           /\ p = cpu.pid
<1>1. PICK p \in Procesos : p = kernel BY AlEjecutar
<1>2. \A q \in Procesos : q # kernel => MemoriaIgual(q) BY DEF MemoriaIgual
<1>3. /\ Abstracta!Ins(p) = I /\ Abstracta!Regs(p) = RMas /\ Abstracta!Toca(p, I.op)
      /\ \A d : Maquina(p)' = d =>
           [q \in Procesos |-> Maquina(q)]' = [[q \in Procesos |-> Maquina(q)] EXCEPT ![p] = d]
      /\ [q \in Procesos |-> Espacio(q)]' = [q \in Procesos |-> Espacio(q)]
      /\ p = cpu.pid
  BY <1>1, <1>2, Ejecutada
<1>4. PICK d : d = [modo |-> AlVolver(m.op), regs |-> RMas, es |-> Logicas(p, m.piezas)] OBVIOUS
<1>5. Maquina(p)' = d BY <1>1, <1>4, DespuesDeMandar
<1>6. QED BY <1>3, <1>4, <1>5

\* EXIT
LEMMA VeExit ==
  ASSUME CInv, DInv, CInv', DInv', EjecutaExit
  PROVE  \E p \in Procesos : Abstracta!Exit(p)
<1>1. PICK ops : ops = {"EXIT"} /\ Ejecuta(ops) BY DEF EjecutaExit
<1>2. PICK m : /\ m = [op |-> "EXIT_PROCESO", registros |-> AgregarRegistros(RMas), piezas |-> <<>>]
               /\ desalojos' = Append(desalojos, m)
  BY DEF EjecutaExit, Mensaje
<1>3. UNCHANGED memoria BY DEF EjecutaExit
<1>4. m.registros = AgregarRegistros(RMas) /\ m.op = "EXIT_PROCESO" /\ m.piezas = <<>> BY <1>2
<1>5. PICK p \in Procesos :
           /\ Abstracta!Ins(p) = I /\ Abstracta!Regs(p) = RMas /\ Abstracta!Toca(p, I.op)
           /\ [q \in Procesos |-> Espacio(q)]' = [q \in Procesos |-> Espacio(q)]
           /\ [q \in Procesos |-> Maquina(q)]' =
                [[q \in Procesos |-> Maquina(q)] EXCEPT ![p] =
                   [modo |-> AlVolver(m.op), regs |-> RMas, es |-> Logicas(p, m.piezas)]]
  BY <1>1, <1>2, <1>3, <1>4, Mandado
<1>6. I.op = "EXIT"
  <2>1. I.op \in ops BY <1>1, AlEjecutar
  <2>2. QED BY <1>1, <2>1
<1>7. AlVolver(m.op) = "termina" /\ Logicas(p, m.piezas) = <<>>
  <2>1. AlVolver("EXIT_PROCESO") = "termina" BY DEF AlVolver, Motivos
  <2>2. QED BY <1>4, <2>1, SinPiezas
<1>8. Abstracta!Exit(p) BY <1>5, <1>6, <1>7 DEF Abstracta!Exit
<1>9. QED BY <1>8

\* WAIT, SIGNAL and the instructions of the interfaces
LEMMA VePide ==
  ASSUME CInv, DInv, CInv', DInv', NEW ops, Ejecuta(ops), UNCHANGED memoria,
         ops \subseteq InstruccionesIO \cup InstruccionesRecurso,
         NEW m, desalojos' = Append(desalojos, m), m.registros = AgregarRegistros(RMas), m.op = I.op,
         I.op \in OpsTexto => m.piezas = Mmu(cpu.pid, RMas[I.r], RMas[I.s]) /\ Suyos(cpu.pid, RMas[I.r], RMas[I.s]),
         I.op \notin OpsTexto => m.piezas = <<>>
  PROVE  \E p \in Procesos : Abstracta!Pide(p)
<1>1. PICK p \in Procesos :
           /\ Abstracta!Ins(p) = I /\ Abstracta!Regs(p) = RMas /\ Abstracta!Toca(p, I.op)
           /\ [q \in Procesos |-> Espacio(q)]' = [q \in Procesos |-> Espacio(q)]
           /\ [q \in Procesos |-> Maquina(q)]' =
                [[q \in Procesos |-> Maquina(q)] EXCEPT ![p] =
                   [modo |-> AlVolver(m.op), regs |-> RMas, es |-> Logicas(p, m.piezas)]]
           /\ p = cpu.pid
  BY Mandado
<1>2. I.op \in InstruccionesIO \cup InstruccionesRecurso BY AlEjecutar
<1>3. I.op \in {"WAIT", "SIGNAL", "IO_STDIN_READ", "IO_STDOUT_WRITE", "IO_GEN_SLEEP"}
  BY <1>2 DEF InstruccionesIO, InstruccionesRecurso
<1>4. AlVolver(m.op) = I.op BY <1>3 DEF AlVolver, Motivos
<1>5. PICK dirs : dirs = IF I.op \in {"IO_STDIN_READ", "IO_STDOUT_WRITE"}
                         THEN [k \in 1 .. RMas[I.s] |-> RMas[I.r] + k - 1] ELSE <<>>
  OBVIOUS
<1>6. Logicas(p, m.piezas) = dirs
  <2>1. CASE I.op \in OpsTexto
    <3>1. PICK d : d = RMas[I.r] OBVIOUS
    <3>2. PICK n : n = RMas[I.s] OBVIOUS
    <3>3. PICK z : z = m.piezas OBVIOUS
    <3>4. Suyos(p, d, n) /\ z = Mmu(p, d, n) BY <1>1, <2>1, <3>1, <3>2, <3>3
    <3>5. Logicas(p, z) = [b \in 1 .. n |-> d + b - 1] BY <3>4, LogicasDelAcceso
    <3>6. QED BY <1>5, <2>1, <3>1, <3>2, <3>3, <3>5 DEF OpsTexto
  <2>2. CASE I.op \notin OpsTexto BY <1>5, <2>2, SinPiezas DEF OpsTexto
  <2>3. QED BY <2>1, <2>2
<1>7. [q \in Procesos |-> Maquina(q)]' =
        [[q \in Procesos |-> Maquina(q)] EXCEPT ![p] = [modo |-> I.op, regs |-> RMas, es |-> dirs]]
  BY <1>1, <1>4, <1>6
<1>8. \E op \in {"WAIT", "SIGNAL", "IO_STDIN_READ", "IO_STDOUT_WRITE", "IO_GEN_SLEEP"} : Abstracta!Toca(p, op)
  BY <1>1, <1>3
<1>9. Abstracta!Pide(p) BY <1>1, <1>5, <1>7, <1>8 DEF Abstracta!Pide
<1>10. QED BY <1>9

\* The instructions of the interfaces take the addresses of the program to the
\* kernel.
LEMMA VeEjecutaIO ==
  ASSUME CInv, DInv, CInv', DInv', AccesosEnRango, EjecutaIO
  PROVE  \E p \in Procesos : Abstracta!Pide(p)
<1>1. PICK ops : ops = InstruccionesIO /\ Ejecuta(ops) BY DEF EjecutaIO
<1>2. PICK m : /\ m = [op |-> I.op, registros |-> AgregarRegistros(RMas),
                       piezas |-> IF I.op = "IO_GEN_SLEEP" THEN <<>> ELSE Mmu(cpu.pid, RMas[I.r], RMas[I.s])]
               /\ desalojos' = Append(desalojos, m)
  BY DEF EjecutaIO, Mensaje
<1>3. UNCHANGED memoria BY DEF EjecutaIO
<1>4. I.op \in InstruccionesIO BY <1>1, AlEjecutar
<1>5. I.op \in OpsTexto => m.piezas = Mmu(cpu.pid, RMas[I.r], RMas[I.s]) /\ Suyos(cpu.pid, RMas[I.r], RMas[I.s])
  BY <1>1, <1>2, AccesosSuyos DEF OpsTexto
<1>6. I.op \notin OpsTexto => m.piezas = <<>> BY <1>2, <1>4 DEF OpsTexto, InstruccionesIO
<1>7. m.registros = AgregarRegistros(RMas) /\ m.op = I.op BY <1>2
<1>8. ops \subseteq InstruccionesIO \cup InstruccionesRecurso BY <1>1
<1>9. QED BY <1>1, <1>2, <1>3, <1>5, <1>6, <1>7, <1>8, VePide

\* WAIT and SIGNAL
LEMMA VeEjecutaRecurso ==
  ASSUME CInv, DInv, CInv', DInv', EjecutaRecurso
  PROVE  \E p \in Procesos : Abstracta!Pide(p)
<1>1. PICK ops : ops = InstruccionesRecurso /\ Ejecuta(ops) BY DEF EjecutaRecurso
<1>2. PICK m : /\ m = [op |-> I.op, registros |-> AgregarRegistros(RMas), piezas |-> <<>>]
               /\ desalojos' = Append(desalojos, m)
  BY DEF EjecutaRecurso, Mensaje
<1>3. UNCHANGED memoria BY DEF EjecutaRecurso
<1>4. I.op \in InstruccionesRecurso BY <1>1, AlEjecutar
<1>5. I.op \notin OpsTexto BY <1>4 DEF OpsTexto, InstruccionesRecurso
<1>6. m.registros = AgregarRegistros(RMas) /\ m.op = I.op /\ m.piezas = <<>> BY <1>2
<1>7. ops \subseteq InstruccionesIO \cup InstruccionesRecurso BY <1>1
<1>8. QED BY <1>1, <1>2, <1>3, <1>5, <1>6, <1>7, VePide

-----------------------------------------------------------------------------
(* Every step is one of the abstract machine, or leaves it as it was *)

PasoAbstracto == Abstracta!Next \/ UNCHANGED Abstracta!vars

\* What counts as a step of the abstract machine.
LEMMA UnoDeEllos ==
  ASSUME NEW p \in Procesos,
         Abstracta!Instruccion(p) \/ Abstracta!Prosigue(p) \/ Abstracta!Pedir(p) \/ Abstracta!Terminar(p)
  PROVE  PasoAbstracto
BY DEF PasoAbstracto, Abstracta!Next

\* The steps of the kernel, one by one
LEMMA VeKernel == ASSUME CInv, DInv, CInv', DInv', Kernel PROVE PasoAbstracto
<1>1. CASE Planificar BY <1>1, VePlanificar DEF PasoAbstracto
<1>2. CASE RecibeFin BY <1>2, VeRecibeFin, UnoDeEllos
<1>3. CASE RecibeFinQuantum BY <1>3, VeRecibeFinQuantum DEF PasoAbstracto
<1>4. CASE RecibeIO
  <2>1. (\E p \in Procesos : Abstracta!Terminar(p)) \/ UNCHANGED Abstracta!vars BY <1>4, VeRecibeIO
  <2>2. CASE \E p \in Procesos : Abstracta!Terminar(p) BY <2>2, UnoDeEllos
  <2>3. QED BY <2>1, <2>2 DEF PasoAbstracto
<1>5. CASE RecibeRecursoContinua BY <1>5, VeRecibeRecursoContinua DEF PasoAbstracto
<1>6. CASE RecibeRecursoDesaloja
  <2>1. (\E p \in Procesos : Abstracta!Terminar(p)) \/ UNCHANGED Abstracta!vars BY <1>6, VeRecibeRecursoDesaloja
  <2>2. CASE \E p \in Procesos : Abstracta!Terminar(p) BY <2>2, UnoDeEllos
  <2>3. QED BY <2>1, <2>2 DEF PasoAbstracto
<1>7. CASE \E p \in Procesos : Desbloquear(p)
  <2>1. PICK p \in Procesos : Desbloquear(p) BY <1>7
  <2>2. Abstracta!Prosigue(p) \/ UNCHANGED Abstracta!vars BY <2>1, VeDesbloquear
  <2>3. CASE Abstracta!Prosigue(p) BY <2>3, UnoDeEllos
  <2>4. QED BY <2>2, <2>3 DEF PasoAbstracto
<1>8. QED BY <1>1, <1>2, <1>3, <1>4, <1>5, <1>6, <1>7 DEF Kernel

\* The instructions, one by one
LEMMA VeInstruccion == ASSUME CInv, DInv, CInv', DInv', AccesosEnRango, Instruccion PROVE PasoAbstracto
<1>1. CASE Cae BY <1>1, VeCae DEF PasoAbstracto
<1>2. ASSUME NEW p \in Procesos, Abstracta!Instruccion(p) PROVE PasoAbstracto BY <1>2, UnoDeEllos
<1>3. CASE EjecutaSet BY <1>2, <1>3, VeSet DEF Abstracta!Instruccion
<1>4. CASE EjecutaAritmetica BY <1>2, <1>4, VeAritmetica DEF Abstracta!Instruccion
<1>5. CASE EjecutaJnz BY <1>2, <1>5, VeJnz DEF Abstracta!Instruccion
<1>6. CASE MovIn BY <1>2, <1>6, VeMovIn DEF Abstracta!Instruccion
<1>7. CASE MovOut BY <1>2, <1>7, VeMovOut DEF Abstracta!Instruccion
<1>8. CASE CopyString BY <1>2, <1>8, VeCopyString DEF Abstracta!Instruccion
<1>9. CASE EjecutaExit BY <1>2, <1>9, VeExit DEF Abstracta!Instruccion
<1>10. CASE EjecutaIO BY <1>2, <1>10, VeEjecutaIO DEF Abstracta!Instruccion
<1>11. CASE EjecutaRecurso BY <1>2, <1>11, VeEjecutaRecurso DEF Abstracta!Instruccion
<1>12. QED
  BY <1>1, <1>3, <1>4, <1>5, <1>6, <1>7, <1>8, <1>9, <1>10, <1>11 DEF Instruccion

\* The devices, one by one
LEMMA VeDispositivo == ASSUME CInv, DInv, CInv', DInv', NEW p \in Procesos, Dispositivo(p) PROVE PasoAbstracto
<1>1. Abstracta!Prosigue(p) \/ UNCHANGED Abstracta!vars
  BY VeIoStdinRead, VeIoStdoutWrite, VeIoGenSleep DEF Dispositivo
<1>2. CASE Abstracta!Prosigue(p) BY <1>2, UnoDeEllos
<1>3. QED BY <1>1, <1>2 DEF PasoAbstracto

\* Every step
LEMMA VePaso == ASSUME CInv, DInv, CInv', DInv', AccesosEnRango, [Next]_vars PROVE PasoAbstracto
<1>1. CASE Kernel BY <1>1, VeKernel
<1>2. CASE ControlQuantum
  <2>1. UNCHANGED <<programa, memoria, pcb, ordenes, kernel, dispatch, desalojos, cpu, pantalla>>
    BY <1>2 DEF ControlQuantum
  <2>2. QED BY <2>1, TodoQuieto DEF PasoAbstracto
<1>3. CASE RecibirProceso BY <1>3, VeRecibirProceso DEF PasoAbstracto
<1>4. CASE Instruccion BY <1>4, VeInstruccion
<1>5. CASE RecibirRespuesta
  <2>1. (\E p \in Procesos : Abstracta!Prosigue(p)) \/ UNCHANGED Abstracta!vars BY <1>5, VeRecibirRespuesta
  <2>2. CASE \E p \in Procesos : Abstracta!Prosigue(p) BY <2>2, UnoDeEllos
  <2>3. QED BY <2>1, <2>2 DEF PasoAbstracto
<1>6. CASE CheckInterrupt BY <1>6, VeCheckInterrupt DEF PasoAbstracto
<1>7. CASE RecibirInterrupcion
  <2>1. UNCHANGED <<programa, memoria, pcb, ordenes, kernel, dispatch, desalojos, cpu, pantalla>>
    BY <1>7 DEF RecibirInterrupcion, nucleo
  <2>2. QED BY <2>1, TodoQuieto DEF PasoAbstracto
<1>8. CASE \E p \in Procesos : Dispositivo(p) BY <1>8, VeDispositivo
<1>9. CASE \E p \in Finalizables : FinalizarEnEjecucion(p) \/ FinalizarFuera(p)
  <2>1. PICK p \in Procesos : FinalizarEnEjecucion(p) \/ FinalizarFuera(p) BY <1>9, ProcesosFinitos
  <2>2. Abstracta!Pedir(p) \/ Abstracta!Terminar(p) BY <2>1, VeFinalizarEnEjecucion, VeFinalizarFuera
  <2>3. QED BY <2>2, UnoDeEllos
<1>10. CASE UNCHANGED vars
  <2>1. UNCHANGED <<programa, memoria, pcb, ordenes, kernel, dispatch, desalojos, cpu, pantalla>>
    BY <1>10 DEF vars
  <2>2. QED BY <2>1, TodoQuieto DEF PasoAbstracto
<1>11. QED
  BY <1>1, <1>2, <1>3, <1>4, <1>5, <1>6, <1>7, <1>8, <1>9, <1>10 DEF Next, Dispatch

\* All machines start with their registers and their memory in zero.
LEMMA EmpiezaIgual == ASSUME Init PROVE Abstracta!Init
<1>1. CInv /\ DInv BY CInvInicial, DatosAlEmpezar
<1>2. \A p \in Procesos : Maquina(p) = Corre(EnCero)
  <2>1. SUFFICES ASSUME NEW p \in Procesos PROVE Maquina(p) = Corre(EnCero) OBVIOUS
  <2>2. p # kernel BY ProcesosFinitos DEF Init
  <2>3. Maquina(p) = Reposo(p, pcb[p], ordenes[p]) BY <1>1, <2>2, Vistas DEF TodasLasVistas, Vista
  <2>4. pcb[p].estado = "READY" /\ pcb[p].registros = EnCero /\ ordenes[p] = SinOrden BY DEF Init
  <2>5. QED BY <2>3, <2>4, EnReposo
<1>3. Corre(EnCero) = Abstracta!Encendida BY DEF Corre, EnCero, Abstracta!Encendida, Abstracta!Apagada
<1>4. [p \in Procesos |-> Maquina(p)] = [p \in Procesos |-> Abstracta!Encendida] BY <1>2, <1>3
<1>5. \A p \in Procesos : Espacio(p) = [a \in 0 .. Tamanio(p) - 1 |-> 0]
  <2>1. SUFFICES ASSUME NEW p \in Procesos PROVE Espacio(p) = [a \in 0 .. Tamanio(p) - 1 |-> 0] OBVIOUS
  <2>2. pcb[p].estado = "READY" /\ memoria = [a \in 0 .. MARCOS * TAM_PAGINA - 1 |-> 0] BY DEF Init
  <2>3. \A a \in 0 .. Tamanio(p) - 1 : memoria[Fisica(p, a)] = 0 BY <2>2, EspacioVivo, FisicaEnMemoria
  <2>4. Espacio(p) = [a \in 0 .. Tamanio(p) - 1 |-> IF pcb[p].estado = "EXIT" THEN 0 ELSE memoria[Fisica(p, a)]]
    BY VistaEspacio
  <2>5. QED BY <2>2, <2>3, <2>4
<1>6. [p \in Procesos |-> Espacio(p)] = [p \in Procesos |-> Abstracta!Vacio(p)] BY <1>5 DEF Abstracta!Vacio
<1>7. {p \in Procesos : pcb[p].pedido} = {} BY DEF Init
<1>8. [p \in Procesos |-> IF pcb[p].estado = "EXIT" THEN <<>> ELSE pantalla[p]] = [p \in Procesos |-> <<>>]
  BY DEF Init
<1>9. QED BY <1>4, <1>6, <1>7, <1>8 DEF Abstracta!Init

\* Programs that stay within their memory run each as on a machine of its own:
\* for any programs, widths, pages and order of the interrupts, the devices
\* and the requests to end, every step of the CPU and of the kernel is a step
\* of MaquinaPropia or one it does not see (ciclo_instruccion, mmu,
\* recibir_proceso_desalojado, check_interrupt).
THEOREM CadaUnoEnSuMaquina == Spec /\ []AccesosEnRango => ImplementaMaquinaPropia
<1>1. Init => Abstracta!Init BY EmpiezaIgual
<1>2. CInv /\ DInv /\ CInv' /\ DInv' /\ AccesosEnRango /\ [Next]_vars => PasoAbstracto BY VePaso
<1>3. PasoAbstracto => [Abstracta!Next]_(Abstracta!vars) BY DEF PasoAbstracto
<1>4. QED BY <1>1, <1>2, <1>3, InvarianteDatos, PTL DEF Spec, ImplementaMaquinaPropia, Abstracta!Spec
============================================================================
