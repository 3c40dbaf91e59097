--------------------------- MODULE MaquinaPropia ---------------------------
(***************************************************************************)
(* What the CPU, its MMU, the dispatch, the interrupts and the devices     *)
(* promise to programs: each process runs its own program, one instruction *)
(* after another, on a machine of its own, with registers and a memory     *)
(* without pages that nobody else touches; SUM and SUB are exact whenever  *)
(* the result fits.                                                        *)
(***************************************************************************)
EXTENDS Integers, Sequences

CONSTANTS Procesos, BASE, BYTES, LARGO, Registros, Registros8, Tamanio(_)

VARIABLES
  programa,  \* pid -> its instructions
  maquina,   \* pid -> mode, registers, addresses a device is to work on
  espacio,   \* pid -> its memory, from address 0
  pedido,    \* the processes somebody wants to end
  pantalla   \* pid -> the last thing a device showed of it

vars == <<programa, maquina, espacio, pedido, pantalla>>

Bytes     == 0 .. BASE - 1
Apagada   == [modo |-> "fin", regs |-> [r \in Registros |-> 0], es |-> <<>>]
Encendida == [Apagada EXCEPT !.modo = "corre"]

Vacio(p) == [a \in 0 .. Tamanio(p) - 1 |-> 0]

Init ==
  /\ maquina = [p \in Procesos |-> Encendida]
  /\ espacio = [p \in Procesos |-> Vacio(p)]
  /\ pedido = {}
  /\ pantalla = [p \in Procesos |-> <<>>]

PC(p)  == maquina[p].regs["PC"]
Ins(p) == programa[p][PC(p) + 1]

\* The registers an instruction sees: the PC is already that of the next one.
Regs(p) == [maquina[p].regs EXCEPT !["PC"] = @ + 1]

\* The running process executes an instruction of the kind op ...
Toca(p, op) ==
  /\ maquina[p].modo = "corre"
  /\ PC(p) < Len(programa[p])
  /\ Ins(p).op = op
  /\ UNCHANGED <<programa, pedido, pantalla>>

\* ... which leaves these registers.
Queda(p, regs) == maquina' = [maquina EXCEPT ![p].regs = regs]

Bits(r) == IF r \in Registros8 THEN BASE ELSE LARGO
Tope(r) == IF r \in Registros8 THEN BASE ELSE LARGO \div 2

\* The lowest byte comes first.
Numero(bytes) == LET n[k \in 0 .. Len(bytes)] ==
                       IF k = 0 THEN 0 ELSE bytes[Len(bytes) + 1 - k] + BASE * n[k - 1]
                 IN n[Len(bytes)]

Leido(p, dir, n) == [k \in 1 .. n |-> espacio[p][dir + k - 1]]
BytesDe(r) == IF r \in Registros8 THEN 1 ELSE BYTES

Set(p) ==
  /\ Toca(p, "SET")
  /\ Queda(p, [Regs(p) EXCEPT ![Ins(p).r] = Ins(p).n % Bits(Ins(p).r)])
  /\ UNCHANGED espacio

\* Exact if it fits; nothing is promised of a result that does not.
SumSub(p) ==
  LET i == Ins(p)
      exacto == IF i.op = "SUM" THEN Regs(p)[i.r] + Regs(p)[i.s] ELSE Regs(p)[i.r] - Regs(p)[i.s]
  IN /\ Toca(p, "SUM") \/ Toca(p, "SUB")
     /\ IF i.r \in Registros8 <=> i.s \in Registros8
        THEN \E v \in 0 .. Bits(i.r) - 1 :
               /\ exacto \in 0 .. Tope(i.r) - 1 => v = exacto
               /\ Queda(p, [Regs(p) EXCEPT ![i.r] = v])
        ELSE Queda(p, Regs(p))
     /\ UNCHANGED espacio

Jnz(p) ==
  /\ Toca(p, "JNZ")
  /\ Queda(p, IF Regs(p)[Ins(p).r] # 0 THEN [Regs(p) EXCEPT !["PC"] = Ins(p).n] ELSE Regs(p))
  /\ UNCHANGED espacio

MovIn(p) ==
  LET i == Ins(p)
  IN /\ Toca(p, "MOV_IN")
     /\ Queda(p, [Regs(p) EXCEPT ![i.r] = Numero(Leido(p, Regs(p)[i.s], BytesDe(i.r)))])
     /\ UNCHANGED espacio

\* Only the bytes of that value change, to that value.
MovOut(p) ==
  LET i == Ins(p)
      dir == Regs(p)[i.r]
      n == BytesDe(i.s)
  IN /\ Toca(p, "MOV_OUT")
     /\ Queda(p, Regs(p))
     /\ \E nuevo \in [1 .. n -> Bytes] :
          /\ Numero(nuevo) = Regs(p)[i.s]
          /\ espacio' = [espacio EXCEPT ![p] =
               [a \in DOMAIN @ |-> IF a \in dir .. dir + n - 1 THEN nuevo[a - dir + 1] ELSE @[a]]]

CopyString(p) ==
  LET n == Ins(p).n
      si == Regs(p)["SI"]
      di == Regs(p)["DI"]
  IN /\ Toca(p, "COPY_STRING")
     /\ Queda(p, Regs(p))
     /\ espacio' = [espacio EXCEPT ![p] =
          [a \in DOMAIN @ |-> IF a \in di .. di + n - 1 THEN @[a - di + si] ELSE @[a]]]

\* The program depends on the kernel to go on: a resource, or a device that
\* works on the addresses given.
Pide(p) ==
  LET i == Ins(p)
      dirs == IF i.op \in {"IO_STDIN_READ", "IO_STDOUT_WRITE"}
              THEN [k \in 1 .. Regs(p)[i.s] |-> Regs(p)[i.r] + k - 1] ELSE <<>>
  IN /\ \E op \in {"WAIT", "SIGNAL", "IO_STDIN_READ", "IO_STDOUT_WRITE", "IO_GEN_SLEEP"} : Toca(p, op)
     /\ maquina' = [maquina EXCEPT ![p] = [modo |-> i.op, regs |-> Regs(p), es |-> dirs]]
     /\ UNCHANGED espacio

Exit(p) ==
  /\ Toca(p, "EXIT")
  /\ maquina' = [maquina EXCEPT ![p] = [modo |-> "termina", regs |-> Regs(p), es |-> <<>>]]
  /\ UNCHANGED espacio

Instruccion(p) ==
  Set(p) \/ SumSub(p) \/ Jnz(p) \/ MovIn(p) \/ MovOut(p) \/ CopyString(p) \/ Pide(p) \/ Exit(p)

\* What it depended on is done; only a STDIN device writes, and only there.
Prosigue(p) ==
  LET m == maquina[p]
  IN /\ m.modo \notin {"corre", "termina", "fin"}
     /\ maquina' = [maquina EXCEPT ![p] = [modo |-> "corre", regs |-> m.regs, es |-> <<>>]]
     /\ IF m.modo = "IO_STDIN_READ"
        THEN \E nuevo \in [DOMAIN m.es -> Bytes] :
               espacio' = [espacio EXCEPT ![p] =
                 [a \in DOMAIN @ |-> IF \E k \in DOMAIN m.es : m.es[k] = a
                                     THEN nuevo[CHOOSE k \in DOMAIN m.es : m.es[k] = a] ELSE @[a]]]
        ELSE UNCHANGED espacio
     /\ pantalla' = IF m.modo = "IO_STDOUT_WRITE"
                    THEN [pantalla EXCEPT ![p] = [k \in DOMAIN m.es |-> espacio[p][m.es[k]]]]
                    ELSE pantalla
     /\ UNCHANGED <<programa, pedido>>

Pedir(p) ==
  /\ pedido' = pedido \cup {p}
  /\ UNCHANGED <<programa, maquina, espacio, pantalla>>

\* A process ends because its program says so, because it asked for something
\* that does not exist, or because somebody wants it to; never otherwise.
\* Nothing is promised of what was its memory.
Terminar(p) ==
  /\ maquina[p].modo # "fin"
  /\ pedido' \in {pedido, pedido \cup {p}}
  /\ maquina[p].modo = "corre" => p \in pedido'
  /\ maquina' = [maquina EXCEPT ![p] = Apagada]
  /\ espacio' = [espacio EXCEPT ![p] = Vacio(p)]
  /\ pantalla' = [pantalla EXCEPT ![p] = <<>>]
  /\ UNCHANGED programa

Next == \E p \in Procesos : Instruccion(p) \/ Prosigue(p) \/ Pedir(p) \/ Terminar(p)

Spec == Init /\ [][Next]_vars
=============================================================================
