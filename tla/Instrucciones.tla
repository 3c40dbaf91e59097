---------------------------- MODULE Instrucciones ----------------------------
(***************************************************************************)
(* The registers of the CPU and what instrucciones.c and buffer.c do with  *)
(* their values.  A byte has BASE values and a uint32_t is BYTES bytes.    *)
(***************************************************************************)
EXTENDS Integers, SequencesExt

CONSTANTS BASE, BYTES      \* 256 and 4 in the code

ASSUME AnchosPares ==
  /\ BASE \in Nat \ {0, 1} /\ BYTES \in Nat \ {0, 1}
  /\ BASE % 2 = 0

Potencia[n \in Nat] == IF n = 0 THEN 1 ELSE BASE * Potencia[n - 1]

LARGO == Potencia[BYTES]

Registros8  == {"AX", "BX", "CX", "DX"}
Registros32 == {"PC", "EAX", "EBX", "ECX", "EDX", "SI", "DI"}
Registros   == Registros8 \cup Registros32

\* obtenerTipo, as the number of bytes and of values of a register
BytesDe(r) == IF r \in Registros8 THEN 1 ELSE BYTES
Ancho(r)   == IF r \in Registros8 THEN BASE ELSE LARGO

Juegos == {g \in [Registros -> 0 .. LARGO - 1] : \A r \in Registros8 : g[r] < BASE}

EnCero == [r \in Registros |-> 0]

\* Definitions whose name ends in Mut are mistaken forms of the one that
\* follows; no definition uses them (PROJECT.json, "mutants").

ConMut(regs, r, valor) == [regs EXCEPT ![r] = valor]

\* set: the value is cast to the type of the register.
Con(regs, r, valor) == [regs EXCEPT ![r] = valor % Ancho(r)]

\* An int that holds the low bits of v.
ComoInt(v) == LET w == v % LARGO IN IF w < LARGO \div 2 THEN w ELSE w - LARGO

\* The result of SUM and SUB is an int that goes to the register as decimal
\* text without its sign.
Cadena(v) == IF ComoInt(v) < 0 THEN -ComoInt(v) ELSE ComoInt(v)

\* The least int has no opposite: contar_digitos takes the logarithm of a
\* negative number and the text is written outside its array.
SinCadena(v) == ComoInt(v) = -(LARGO \div 2)

MismoTipo(r, s) == r \in Registros8 <=> s \in Registros8

Operado(op, regs, r, s) == IF op = "SUM" THEN regs[r] + regs[s] ELSE regs[r] - regs[s]

\* SUM and SUB do nothing with registers of different types.
Aritmetica(op, regs, r, s) ==
  IF MismoTipo(r, s) THEN Con(regs, r, Cadena(Operado(op, regs, r, s))) ELSE regs

\* jnz
Salta(regs, r, destino) == IF regs[r] # 0 THEN Con(regs, "PC", destino) ELSE regs

\* The bytes of a value, the lowest first, and back.
EnBytes(v, n) == [k \in 1 .. n |-> (v \div Potencia[k - 1]) % BASE]

\* ultimos[k] is the value of the last k bytes.
Valor(bytes) ==
  LET ultimos[k \in 0 .. Len(bytes)] ==
        IF k = 0 THEN 0 ELSE bytes[Len(bytes) + 1 - k] + BASE * ultimos[k - 1]
  IN ultimos[Len(bytes)]

\* The order in which buffer_add_registros writes them and
\* buffer_read_registros reads them.
OrdenAlAgregar == <<"PC", "AX", "BX", "CX", "DX", "EAX", "EBX", "ECX", "EDX", "SI", "DI">>

OrdenAlLeerMut == <<"PC", "AX", "BX", "CX", "DX", "EAX", "EBX", "ECX", "SI", "DI", "EDX">>

OrdenAlLeer == <<"PC", "AX", "BX", "CX", "DX", "EAX", "EBX", "ECX", "EDX", "SI", "DI">>

AgregarRegistros(regs) == [k \in DOMAIN OrdenAlAgregar |-> regs[OrdenAlAgregar[k]]]

LeerRegistros(buffer) ==
  [r \in Registros |-> buffer[CHOOSE k \in DOMAIN OrdenAlLeer : OrdenAlLeer[k] = r]]
=============================================================================
