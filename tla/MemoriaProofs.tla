--------------------------- MODULE MemoriaProofs ---------------------------
(***************************************************************************)
(* Who has each frame of the memory, for every number of frames, of        *)
(* processes and of TLB entries: the bitmap marks exactly the frames of    *)
(* the page tables, of the process that is being removed and of the RESIZE *)
(* under way, and nobody has a frame of somebody else.                     *)
(*                                                                         *)
(* The proof separates the frames from the steps.  Reparto says that a     *)
(* sequence of frames per process and a reserve account for a bitmap       *)
(* without repeating a frame; four lemmas say what giving and taking       *)
(* frames does to it.  Then every action is one of those four, or leaves   *)
(* the frames alone.                                                       *)
(***************************************************************************)
EXTENDS Memoria, TLAPS, FiniteSetTheorems, SequenceTheorems

USE ConstantesMemoria

-----------------------------------------------------------------------------
(* The invariant *)

Usos == [p \in Procesos |-> EnUso(p)]

\* The positions of s hold different frames.
SinRepetir(s) == \A j, k \in 1 .. Len(s) : s[j] = s[k] => j = k

\* The sequences of u and r hold different frames, at most CANT_MARCOS each,
\* and they are those that b marks.
Reparto(u, r, b) ==
  /\ \A p \in Procesos : SinRepetir(u[p]) /\ Len(u[p]) <= CANT_MARCOS
  /\ \A p, q \in Procesos : p # q => ToSet(u[p]) \cap ToSet(u[q]) = {}
  /\ SinRepetir(r)
  /\ \A p \in Procesos : ToSet(u[p]) \cap ToSet(r) = {}
  /\ \A m \in Marcos : b[m] <=> (\E p \in Procesos : m \in ToSet(u[p])) \/ m \in ToSet(r)

RepartoExacto == Reparto(Usos, Reservados, bitmap_marcos)

\* A RESIZE asks for no more frames than the memory has, and what the search
\* has found lies before the position it has reached.
BusquedaOrdenada ==
  /\ cpu.fase \in {"busca", "amplia"} =>
       /\ cpu.cant + Paginas(cpu.pid) <= CANT_MARCOS
       /\ Len(cpu.marcos) <= cpu.cant
       /\ SinRepetir(cpu.marcos)
  /\ cpu.fase = "busca" => \A m \in ToSet(cpu.marcos) : m < cpu.i
  /\ cpu.fase = "amplia" => Len(cpu.marcos) = cpu.cant

\* The CPU works for a loaded process, and only on pages it has.
CpuConCargado ==
  /\ cpu.fase = "libre" => cpu = CpuLibre
  /\ cpu.fase # "libre" => cpu.pid \in Cargados
  /\ cpu.fase = "ejecuta" => cpu = Ejecutando(cpu.pid)
  /\ cpu.fase # "traduce" => cpu.paginas = <<>>
  /\ \A g \in ToSet(cpu.paginas) : g < Paginas(cpu.pid)
  /\ cpu.fase \in {"traduce", "escribe"} /\ cpu.paginas = <<>> => cpu.marcos # <<>>

\* A process is removed once, and never loaded again.
ListaSinReuso ==
  /\ Cargados \subseteq nacidos
  /\ kernel.pid \notin Cargados
  /\ kernel.pid = Nadie => kernel = EnReposo
  /\ kernel.pid # Nadie => kernel.pid \in nacidos

Inv ==
  /\ TypeOK
  /\ BusquedaVigente /\ BusquedaOrdenada
  /\ CpuConCargado
  /\ ListaSinReuso
  /\ RepartoExacto

-----------------------------------------------------------------------------
(* Sequences and minima *)

\* The elements of a sequence, by position.
LEMMA ElementosSec ==
  ASSUME NEW S, NEW s \in Seq(S)
  PROVE  /\ \A x : x \in ToSet(s) <=> \E j \in 1 .. Len(s) : s[j] = x
         /\ ToSet(s) \subseteq S
<1>1. DOMAIN s = 1 .. Len(s) OBVIOUS
<1>2. QED BY <1>1 DEF ToSet

\* The empty sequence has no elements and repeats none.
LEMMA ElementosVacia == ToSet(<<>>) = {} /\ SinRepetir(<<>>) /\ Len(<<>>) = 0
<1>1. Len(<<>>) = 0 /\ DOMAIN <<>> = {} OBVIOUS
<1>2. QED BY <1>1 DEF ToSet, SinRepetir

\* Appending a new element keeps a sequence free of repetitions.
LEMMA AgregarNuevo ==
  ASSUME NEW S, NEW s \in Seq(S), NEW x \in S, SinRepetir(s), x \notin ToSet(s)
  PROVE  /\ SinRepetir(Append(s, x))
         /\ ToSet(Append(s, x)) = ToSet(s) \cup {x}
<1> DEFINE t == Append(s, x)
<1>1. /\ t \in Seq(S) /\ Len(t) = Len(s) + 1
      /\ \A j \in 1 .. Len(s) : t[j] = s[j]
      /\ t[Len(s) + 1] = x
  BY AppendProperties
<1>2. Len(s) \in Nat OBVIOUS
<1> HIDE DEF t
<1>3. \A j \in 1 .. Len(t) : j \in 1 .. Len(s) \/ j = Len(s) + 1 BY <1>1, <1>2
<1>4. \A j \in 1 .. Len(s) : s[j] # x BY ElementosSec
<1>5. SinRepetir(t)
  <2> SUFFICES ASSUME NEW j \in 1 .. Len(t), NEW k \in 1 .. Len(t), t[j] = t[k] PROVE j = k
    BY DEF SinRepetir
  <2>1. CASE j \in 1 .. Len(s) /\ k \in 1 .. Len(s) BY <2>1, <1>1 DEF SinRepetir
  <2>2. CASE j = Len(s) + 1 /\ k \in 1 .. Len(s) BY <2>2, <1>1, <1>4
  <2>3. CASE k = Len(s) + 1 /\ j \in 1 .. Len(s) BY <2>3, <1>1, <1>4
  <2>4. QED BY <2>1, <2>2, <2>3, <1>3
<1>6. \A y : y \in ToSet(t) <=> y \in ToSet(s) \cup {x}
  <2>1. \A y : y \in ToSet(t) <=> \E j \in 1 .. Len(t) : t[j] = y BY <1>1, ElementosSec
  <2>2. \A y : y \in ToSet(s) <=> \E j \in 1 .. Len(s) : s[j] = y BY ElementosSec
  <2>3. 1 .. Len(s) \subseteq 1 .. Len(t) /\ Len(s) + 1 \in 1 .. Len(t) BY <1>1, <1>2
  <2>4. QED BY <2>1, <2>2, <2>3, <1>1, <1>3
<1>7. QED BY <1>5, <1>6 DEF t

\* A prefix, and what is left of the sequence.
LEMMA Prefijo ==
  ASSUME NEW S, NEW s \in Seq(S), NEW n \in 0 .. Len(s), SinRepetir(s)
  PROVE  LET resto == {s[j] : j \in n + 1 .. Len(s)}
             t     == SubSeq(s, 1, n)
         IN  /\ t \in Seq(S) /\ Len(t) = n
             /\ SinRepetir(t)
             /\ ToSet(s) = ToSet(t) \cup resto
             /\ ToSet(t) \cap resto = {}
<1> DEFINE t == SubSeq(s, 1, n)
           resto == {s[j] : j \in n + 1 .. Len(s)}
<1>1. t \in Seq(S) /\ Len(t) = n /\ \A j \in 1 .. n : t[j] = s[j]
  <2>1. \A j \in 1 .. n : s[j] \in S BY ElementOfSeq
  <2>2. QED BY <2>1, SubSeqProperties
<1> HIDE DEF t
<1>2. \A j \in 1 .. Len(s) : j \in 1 .. n \/ j \in n + 1 .. Len(s) OBVIOUS
<1>3. 1 .. n \subseteq 1 .. Len(s) /\ n + 1 .. Len(s) \subseteq 1 .. Len(s) OBVIOUS
<1>4. SinRepetir(t) BY <1>1, <1>3 DEF SinRepetir
<1>5. /\ \A x : x \in ToSet(s) <=> \E j \in 1 .. Len(s) : s[j] = x
      /\ \A x : x \in ToSet(t) <=> \E j \in 1 .. n : t[j] = x
  BY <1>1, ElementosSec
<1>6. ToSet(s) = ToSet(t) \cup resto
  <2>1. \A x : x \in ToSet(s) <=> x \in ToSet(t) \cup resto BY <1>1, <1>2, <1>3, <1>5
  <2>2. QED BY <2>1
<1>7. ToSet(t) \cap resto = {}
  <2> SUFFICES ASSUME NEW x \in ToSet(t), x \in resto PROVE FALSE OBVIOUS
  <2>1. PICK j \in 1 .. n : t[j] = x BY <1>5
  <2>2. PICK k \in n + 1 .. Len(s) : s[k] = x OBVIOUS
  <2>3. j = k BY <2>1, <2>2, <1>1, <1>3 DEF SinRepetir
  <2>4. QED BY <2>3
<1>8. QED BY <1>1, <1>4, <1>6, <1>7 DEF t

\* Joining two sequences that share no element.
LEMMA Juntar ==
  ASSUME NEW S, NEW s \in Seq(S), NEW r \in Seq(S), SinRepetir(s), SinRepetir(r),
         ToSet(s) \cap ToSet(r) = {}
  PROVE  /\ s \o r \in Seq(S) /\ Len(s \o r) = Len(s) + Len(r)
         /\ SinRepetir(s \o r)
         /\ ToSet(s \o r) = ToSet(s) \cup ToSet(r)
<1> DEFINE t == s \o r
<1>1. /\ t \in Seq(S) /\ Len(t) = Len(s) + Len(r)
      /\ \A j \in 1 .. Len(s) + Len(r) : t[j] = IF j <= Len(s) THEN s[j] ELSE r[j - Len(s)]
  BY ConcatProperties
<1>2. Len(s) \in Nat /\ Len(r) \in Nat OBVIOUS
<1> HIDE DEF t
<1>3. \A j \in 1 .. Len(t) :
        \/ j \in 1 .. Len(s) /\ t[j] = s[j]
        \/ j - Len(s) \in 1 .. Len(r) /\ ~ (j <= Len(s)) /\ t[j] = r[j - Len(s)]
  BY <1>1, <1>2
<1>4. /\ \A x : x \in ToSet(s) <=> \E j \in 1 .. Len(s) : s[j] = x
      /\ \A x : x \in ToSet(r) <=> \E j \in 1 .. Len(r) : r[j] = x
      /\ \A x : x \in ToSet(t) <=> \E j \in 1 .. Len(t) : t[j] = x
  <2>1. \A x : x \in ToSet(s) <=> \E j \in 1 .. Len(s) : s[j] = x BY ElementosSec
  <2>2. \A x : x \in ToSet(r) <=> \E j \in 1 .. Len(r) : r[j] = x BY ElementosSec
  <2>3. t \in Seq(S) BY <1>1
  <2>4. \A x : x \in ToSet(t) <=> \E j \in 1 .. Len(t) : t[j] = x BY <2>3, ElementosSec
  <2>5. QED BY <2>1, <2>2, <2>4
<1>5. SinRepetir(t)
  <2> SUFFICES ASSUME NEW j \in 1 .. Len(t), NEW k \in 1 .. Len(t), t[j] = t[k] PROVE j = k
    BY DEF SinRepetir
  <2>1. CASE j \in 1 .. Len(s) /\ k \in 1 .. Len(s)
    <3>1. t[j] = s[j] /\ t[k] = s[k] BY <2>1, <1>3, <1>2
    <3>2. QED BY <3>1, <2>1 DEF SinRepetir
  <2>2. CASE ~ (j <= Len(s)) /\ ~ (k <= Len(s))
    <3>1. /\ j - Len(s) \in 1 .. Len(r) /\ t[j] = r[j - Len(s)]
          /\ k - Len(s) \in 1 .. Len(r) /\ t[k] = r[k - Len(s)]
      BY <2>2, <1>3, <1>2
    <3>2. j - Len(s) = k - Len(s) BY <3>1 DEF SinRepetir
    <3>3. QED BY <3>2, <1>2
  <2>3. CASE j \in 1 .. Len(s) /\ ~ (k <= Len(s))
    <3>1. t[j] = s[j] /\ k - Len(s) \in 1 .. Len(r) /\ t[k] = r[k - Len(s)]
      BY <2>3, <1>3, <1>2
    <3>2. t[j] \in ToSet(s) /\ t[k] \in ToSet(r) BY <2>3, <3>1, <1>4
    <3>3. QED BY <3>2
  <2>4. CASE k \in 1 .. Len(s) /\ ~ (j <= Len(s))
    <3>1. t[k] = s[k] /\ j - Len(s) \in 1 .. Len(r) /\ t[j] = r[j - Len(s)]
      BY <2>4, <1>3, <1>2
    <3>2. t[k] \in ToSet(s) /\ t[j] \in ToSet(r) BY <2>4, <3>1, <1>4
    <3>3. QED BY <3>2
  <2>5. QED BY <2>1, <2>2, <2>3, <2>4, <1>1, <1>2
<1>6. ToSet(t) = ToSet(s) \cup ToSet(r)
  <2>1. ToSet(t) \subseteq ToSet(s) \cup ToSet(r) BY <1>3, <1>4
  <2>2. ToSet(s) \subseteq ToSet(t)
    <3>1. \A j \in 1 .. Len(s) : j \in 1 .. Len(t) /\ t[j] = s[j] BY <1>1, <1>2
    <3>2. QED BY <3>1, <1>4
  <2>3. ToSet(r) \subseteq ToSet(t)
    <3>1. \A j \in 1 .. Len(r) : Len(s) + j \in 1 .. Len(t) /\ t[Len(s) + j] = r[j]
      <4> TAKE j \in 1 .. Len(r)
      <4>1. /\ Len(s) + j \in 1 .. Len(s) + Len(r) /\ ~ (Len(s) + j <= Len(s))
            /\ (Len(s) + j) - Len(s) = j
        BY <1>2
      <4>2. QED BY <4>1, <1>1
    <3>2. QED BY <3>1, <1>4
  <2>4. QED BY <2>1, <2>2, <2>3
<1>7. QED BY <1>1, <1>5, <1>6 DEF t

\* The minimum of a finite set of numbers is in the set.
LEMMA MinimoFinito ==
  ASSUME NEW I \in SUBSET Nat, IsFiniteSet(I), I # {}
  PROVE  Min(I) \in I /\ \A y \in I : Min(I) <= y
<1> DEFINE Hasta(x) == {y \in I : y <= x}
           T == {Hasta(x) : x \in I}
           R == StrictSubsetOrdering(I)
<1>1. IsWellFoundedOn(R, FiniteSubsetsOf(I))
  BY FS_StrictSubsetOrderingWellFounded
<1>2. T \subseteq FiniteSubsetsOf(I) /\ T # {}
  <2>1. \A x \in I : IsFiniteSet(Hasta(x)) BY FS_Subset
  <2>2. QED BY <2>1 DEF FiniteSubsetsOf
<1>3. PICK h \in T : \A g \in T : ~ (<<g, h>> \in R)
  <2> HIDE DEF T, R
  <2>1. QED BY <1>1, <1>2, WFMin
<1>4. PICK x \in I : h = Hasta(x) OBVIOUS
<1>5. \A y \in I : x <= y
  <2> SUFFICES ASSUME NEW y \in I, y < x PROVE FALSE OBVIOUS
  <2>1. \A z \in I : z <= y => z <= x OBVIOUS
  <2>2. x <= x /\ ~ (x <= y) OBVIOUS
  <2>3. Hasta(y) \subseteq Hasta(x) /\ x \in Hasta(x) /\ x \notin Hasta(y) BY <2>1, <2>2
  <2>4. <<Hasta(y), Hasta(x)>> \in R
    BY <2>3 DEF StrictSubsetOrdering
  <2>5. QED BY <2>4, <1>3, <1>4
<1>6. QED BY <1>5 DEF Min

-----------------------------------------------------------------------------
(* Giving and taking frames *)

\* A process gives back its frames from position n + 1 on: liberar_paginas.
LEMMA RepartoLibera ==
  ASSUME NEW u \in [Procesos -> Seq(Marcos)], NEW r \in Seq(Marcos),
         NEW b \in [Marcos -> BOOLEAN], Reparto(u, r, b),
         NEW p \in Procesos, NEW n \in 0 .. Len(u[p]),
         NEW v, v = [u EXCEPT ![p] = SubSeq(u[p], 1, n)],
         NEW c, c = Liberar(b, {u[p][j] : j \in n + 1 .. Len(u[p])})
  PROVE  Reparto(v, r, c)
<1> DEFINE resto == {u[p][j] : j \in n + 1 .. Len(u[p])}
           t == SubSeq(u[p], 1, n)
<1>1. /\ t \in Seq(Marcos) /\ Len(t) = n /\ SinRepetir(t)
      /\ ToSet(u[p]) = ToSet(t) \cup resto
      /\ ToSet(t) \cap resto = {}
  <2>1. PICK s \in Seq(Marcos) : s = u[p]
    OBVIOUS
  <2>2. n \in 0 .. Len(s) /\ SinRepetir(s)
    BY <2>1 DEF Reparto
  <2>3. PICK x, y : x = SubSeq(s, 1, n) /\ y = {s[j] : j \in n + 1 .. Len(s)}
    OBVIOUS
  <2>4. /\ x \in Seq(Marcos) /\ Len(x) = n /\ SinRepetir(x)
        /\ ToSet(s) = ToSet(x) \cup y
        /\ ToSet(x) \cap y = {}
    BY <2>2, <2>3, Prefijo
  <2>5. x = t /\ y = resto
    BY <2>1, <2>3, Zenon
  <2>6. QED BY <2>1, <2>4, <2>5, Zenon
<1>2. v[p] = t /\ \A q \in Procesos : q # p => v[q] = u[q] OBVIOUS
<1>3. \A m \in Marcos : c[m] <=> b[m] /\ m \notin resto BY DEF Liberar
<1>4. n <= CANT_MARCOS /\ Len(u[p]) <= CANT_MARCOS BY DEF Reparto
<1> HIDE DEF t, resto
<1>5. \A q \in Procesos : SinRepetir(v[q]) /\ Len(v[q]) <= CANT_MARCOS
  BY <1>1, <1>2, <1>4 DEF Reparto
<1>6. \A q \in Procesos : ToSet(v[q]) \subseteq ToSet(u[q])
  BY <1>1, <1>2
<1>7. /\ \A q1, q2 \in Procesos : q1 # q2 => ToSet(v[q1]) \cap ToSet(v[q2]) = {}
      /\ SinRepetir(r)
      /\ \A q \in Procesos : ToSet(v[q]) \cap ToSet(r) = {}
  BY <1>6 DEF Reparto
<1>8. ASSUME NEW m \in Marcos
      PROVE  c[m] <=> (\E q \in Procesos : m \in ToSet(v[q])) \/ m \in ToSet(r)
  <2>1. b[m] <=> (\E q \in Procesos : m \in ToSet(u[q])) \/ m \in ToSet(r)
    BY DEF Reparto
  <2>2. CASE m \in resto
    <3>1. m \in ToSet(u[p]) /\ m \notin ToSet(t) BY <2>2, <1>1
    <3>2. m \notin ToSet(r) /\ \A q \in Procesos : q # p => m \notin ToSet(u[q])
      BY <3>1 DEF Reparto
    <3>3. QED BY <2>2, <3>1, <3>2, <1>2, <1>3
  <2>3. CASE m \notin resto
    <3>1. \A q \in Procesos : m \in ToSet(v[q]) <=> m \in ToSet(u[q])
      BY <2>3, <1>1, <1>2
    <3>2. QED BY <3>1, <2>1, <2>3, <1>3
  <2>4. QED BY <2>2, <2>3
<1>9. QED BY <1>5, <1>7, <1>8 DEF Reparto

\* The frames of a RESIZE, found free, are marked together: buscar_marcos_libres.
LEMMA RepartoMarca ==
  ASSUME NEW u \in [Procesos -> Seq(Marcos)], NEW r \in Seq(Marcos),
         NEW b \in [Marcos -> BOOLEAN], Reparto(u, <<>>, b),
         SinRepetir(r), \A m \in ToSet(r) : ~ b[m]
  PROVE  Reparto(u, r, Ocupar(b, ToSet(r)))
<1> DEFINE c == Ocupar(b, ToSet(r))
<1>1. \A m \in Marcos : c[m] <=> b[m] \/ m \in ToSet(r) BY DEF Ocupar
<1>2. ToSet(r) \subseteq Marcos BY ElementosSec
<1>3. \A m \in Marcos : b[m] <=> \E q \in Procesos : m \in ToSet(u[q])
  BY ElementosVacia DEF Reparto
<1> HIDE DEF c
<1>4. \A p \in Procesos : ToSet(u[p]) \cap ToSet(r) = {} BY <1>2, <1>3
<1>5. Reparto(u, r, c) BY <1>1, <1>3, <1>4 DEF Reparto
<1>6. QED BY <1>5 DEF c

\* The marked frames go to the page table of the process: ampliar_proceso.
LEMMA RepartoAmplia ==
  ASSUME NEW u \in [Procesos -> Seq(Marcos)], NEW r \in Seq(Marcos),
         NEW b \in [Marcos -> BOOLEAN], Reparto(u, r, b),
         NEW p \in Procesos, Len(u[p]) + Len(r) <= CANT_MARCOS
  PROVE  Reparto([u EXCEPT ![p] = u[p] \o r], <<>>, b)
<1> DEFINE t == u[p] \o r
           v == [u EXCEPT ![p] = t]
<1>1. /\ Len(t) = Len(u[p]) + Len(r) /\ SinRepetir(t)
      /\ ToSet(t) = ToSet(u[p]) \cup ToSet(r)
  <2>1. u[p] \in Seq(Marcos) /\ SinRepetir(u[p]) /\ SinRepetir(r)
        /\ ToSet(u[p]) \cap ToSet(r) = {}
    BY DEF Reparto
  <2>2. QED BY <2>1, Juntar
<1>2. v[p] = t /\ \A q \in Procesos : q # p => v[q] = u[q] OBVIOUS
<1> HIDE DEF t, v
<1>3. \A q \in Procesos : SinRepetir(v[q]) /\ Len(v[q]) <= CANT_MARCOS
  BY <1>1, <1>2 DEF Reparto
<1>4. \A q1, q2 \in Procesos : q1 # q2 => ToSet(v[q1]) \cap ToSet(v[q2]) = {}
  <2>1. /\ \A q1, q2 \in Procesos : q1 # q2 => ToSet(u[q1]) \cap ToSet(u[q2]) = {}
        /\ \A q \in Procesos : ToSet(u[q]) \cap ToSet(r) = {}
    BY DEF Reparto
  <2>2. \A q \in Procesos : q # p => ToSet(v[q]) = ToSet(u[q]) BY <1>2
  <2>3. ToSet(v[p]) = ToSet(u[p]) \cup ToSet(r) BY <1>1, <1>2
  <2>4. QED BY <2>1, <2>2, <2>3
<1>5. \A m \in Marcos : b[m] <=> \E q \in Procesos : m \in ToSet(v[q])
  <2> TAKE m \in Marcos
  <2>1. b[m] <=> (\E q \in Procesos : m \in ToSet(u[q])) \/ m \in ToSet(r)
    BY DEF Reparto
  <2>2. m \in ToSet(v[p]) <=> m \in ToSet(u[p]) \/ m \in ToSet(r) BY <1>1, <1>2
  <2>3. QED BY <2>1, <2>2, <1>2
<1>6. Reparto(v, <<>>, b) BY <1>3, <1>4, <1>5, ElementosVacia DEF Reparto
<1>7. QED BY <1>6 DEF v, t

\* A sequence that repeats nothing has as many elements as positions.
LEMMA CardinalSec ==
  ASSUME NEW S, NEW s \in Seq(S), SinRepetir(s)
  PROVE  IsFiniteSet(ToSet(s)) /\ Cardinality(ToSet(s)) = Len(s)
<1>1. Len(s) \in Nat /\ s \in [1 .. Len(s) -> S] /\ DOMAIN s = 1 .. Len(s) BY LenProperties
<1>2. s \in Bijection(1 .. Len(s), ToSet(s))
  BY <1>1 DEF ToSet, SinRepetir, Bijection, Injection, Surjection, IsInjective
<1>3. ExistsBijection(1 .. Len(s), ToSet(s)) BY <1>2 DEF ExistsBijection
<1>4. QED BY <1>1, <1>3, FS_CountingElements, FS_NatBijection

\* The accounting of the frames, in the form the runs check.
LEMMA RepartoCuenta == TypeOK /\ RepartoExacto => MarcosContados
<1> SUFFICES ASSUME TypeOK, RepartoExacto PROVE MarcosContados OBVIOUS
<1> DEFINE usos == {<<p, j>> : p \in Procesos, j \in 1 .. CANT_MARCOS}
           U == {u \in usos : u[2] \in DOMAIN EnUso(u[1])}
           Marco(u) == EnUso(u[1])[u[2]]
           f == [u \in U |-> Marco(u)]
           A == {Marco(u) : u \in U}
           B == ToSet(Reservados)
<1>1. \A p \in Procesos : EnUso(p) \in Seq(Marcos) /\ Usos[p] = EnUso(p)
  BY DEF EnUso, TypeOK, Usos
<1>2. Reservados \in Seq(Marcos) BY DEF Reservados, TypeOK
<1>3. /\ \A p \in Procesos : /\ DOMAIN EnUso(p) = 1 .. Len(EnUso(p))
                             /\ Len(EnUso(p)) \in 0 .. CANT_MARCOS
                             /\ SinRepetir(EnUso(p))
                             /\ ToSet(EnUso(p)) \cap B = {}
      /\ \A p, q \in Procesos : p # q => ToSet(EnUso(p)) \cap ToSet(EnUso(q)) = {}
  <2>1. \A p \in Procesos : DOMAIN EnUso(p) = 1 .. Len(EnUso(p)) /\ Len(EnUso(p)) \in Nat
    BY <1>1
  <2>2. QED BY <1>1, <2>1, SMTT(30) DEF RepartoExacto, Reparto
<1>4. \A u \in U : /\ u[1] \in Procesos /\ u[2] \in 1 .. Len(EnUso(u[1]))
                   /\ u = <<u[1], u[2]>>
                   /\ Marco(u) \in ToSet(EnUso(u[1]))
  BY <1>3 DEF ToSet
<1>5. ASSUME NEW p \in Procesos, NEW m \in ToSet(EnUso(p)) PROVE \E u \in U : Marco(u) = m
  <2>1. PICK j \in DOMAIN EnUso(p) : EnUso(p)[j] = m BY DEF ToSet
  <2>2. j \in 1 .. CANT_MARCOS BY <1>3
  <2>3. <<p, j>> \in U /\ Marco(<<p, j>>) = m BY <2>1, <2>2
  <2> HIDE DEF U, Marco
  <2>4. QED BY <2>3
<1>6. ASSUME NEW u \in U, NEW w \in U, Marco(u) = Marco(w) PROVE u = w
  <2> HIDE DEF U
  <2>1. u[1] \in Procesos /\ w[1] \in Procesos BY <1>4
  <2>2. Marco(u) \in ToSet(EnUso(u[1])) /\ Marco(u) \in ToSet(EnUso(w[1])) BY <1>4, <1>6
  <2>3. u[1] = w[1] BY <2>1, <2>2, <1>3
  <2>4. SinRepetir(EnUso(u[1])) BY <2>1, <1>3
  <2>5. u[2] \in 1 .. Len(EnUso(u[1])) /\ w[2] \in 1 .. Len(EnUso(u[1])) BY <2>3, <1>4
  <2>6. u[2] = w[2] BY <2>3, <2>4, <2>5, <1>6 DEF SinRepetir
  <2>7. QED BY <2>3, <2>6, <1>4
<1> HIDE DEF U, Marco
<1>7. f \in Bijection(U, A)
  <2>1. f \in [U -> A] /\ (\A m \in A : \E u \in U : f[u] = m) OBVIOUS
  <2>2. \A u, w \in U : f[u] = f[w] => u = w BY <1>6
  <2>3. QED BY <2>1, <2>2 DEF Bijection, Injection, Surjection, IsInjective
<1>8. \A m : m \in A <=> \E p \in Procesos : m \in ToSet(EnUso(p))
  BY <1>4, <1>5
<1> HIDE DEF f, A, B
<1>9. A \subseteq Marcos
  <2>1. \A p \in Procesos : ToSet(EnUso(p)) \subseteq Marcos BY <1>1, ElementosSec
  <2>2. QED BY <2>1, <1>8
<1>10. IsFiniteSet(A)
  <2>1. CANT_MARCOS - 1 \in Int /\ 0 \in Int OBVIOUS
  <2>2. IsFiniteSet(Marcos) BY <2>1, FS_Interval DEF Marcos
  <2>3. QED BY <2>2, <1>9, FS_Subset
<1>11. IsFiniteSet(U) /\ Cardinality(A) = Cardinality(U)
  <2>1. f \in Injection(U, A) BY <1>7 DEF Bijection
  <2>2. IsFiniteSet(U) BY <2>1, <1>10, FS_Injection
  <2>3. QED BY <2>2, <1>7, FS_Bijection DEF ExistsBijection
<1>12. IsFiniteSet(B) /\ Cardinality(B) = Len(Reservados)
  <2>1. SinRepetir(Reservados) BY DEF RepartoExacto, Reparto
  <2>2. QED BY <2>1, <1>2, CardinalSec DEF B
<1>13. A \cap B = {} BY <1>3, <1>8
<1>14. Cardinality(A \cup B) = Cardinality(U) + Len(Reservados)
  <2>1. Cardinality(A \cup B) = Cardinality(A) + Cardinality(B) - Cardinality(A \cap B)
    BY <1>10, <1>12, FS_Union
  <2>2. Cardinality(A \cap B) = 0 BY <1>13, FS_EmptySet
  <2>3. Cardinality(A) \in Nat /\ Cardinality(B) \in Nat
    BY <1>10, <1>12, FS_CardinalityType
  <2>4. QED BY <2>1, <2>2, <2>3, <1>11, <1>12
<1>15. A \cup B = {m \in Marcos : bitmap_marcos[m]}
  <2>1. B \subseteq Marcos BY <1>2, ElementosSec DEF B
  <2>2. \A m \in Marcos : bitmap_marcos[m] <=>
                           (\E p \in Procesos : m \in ToSet(EnUso(p))) \/ m \in B
    BY <1>1 DEF RepartoExacto, Reparto, B
  <2>3. QED BY <2>1, <2>2, <1>8, <1>9
<1>16. QED BY <1>14, <1>15 DEF MarcosContados, A, B, U, Marco

-----------------------------------------------------------------------------
(* The steps *)

\* The type of the CPU, named for the lemmas below.
TipoCpu(c) ==
  c \in [pid : Procesos \cup {Nadie},
         fase : {"libre", "ejecuta", "busca", "amplia", "traduce", "escribe"},
         cant : 0 .. CANT_MARCOS, i : 0 .. CANT_MARCOS,
         marcos : Seq(Marcos), paginas : Seq(Marcos)]

\* The two values the CPU returns to between instructions.
LEMMA TipoCpuReposo == TipoCpu(CpuLibre) /\ \A p \in Procesos : TipoCpu(Ejecutando(p))
<1>1. 0 \in 0 .. CANT_MARCOS /\ <<>> \in Seq(Marcos) OBVIOUS
<1>2. TipoCpu(CpuLibre) BY <1>1 DEF TipoCpu, CpuLibre
<1>3. \A p \in Procesos : TipoCpu(Ejecutando(p))
  BY <1>2 DEF TipoCpu, Ejecutando
<1>4. QED BY <1>2, <1>3

\* An entry that the search finds is an entry of the TLB.
LEMMA EntradaHallada ==
  ASSUME TypeOK, NEW pid, NEW pagina
  PROVE  LET k == BuscarMarcoTlb(pid, pagina)
         IN  k # 0 => k \in 1 .. Len(tlb) /\ tlb[k].pid = pid /\ tlb[k].pagina = pagina
<1> DEFINE I == {j \in 1 .. Len(tlb) : tlb[j].pid = pid /\ tlb[j].pagina = pagina}
           k == BuscarMarcoTlb(pid, pagina)
<1>1. k = IF I # {} THEN Min(I) ELSE 0 BY DEF BuscarMarcoTlb, SelectInSeq
<1>2. I \in SUBSET Nat /\ IsFiniteSet(I)
  <2>1. Len(tlb) \in Nat BY DEF TypeOK
  <2>2. IsFiniteSet(1 .. Len(tlb)) BY <2>1, FS_Interval
  <2>3. I \in SUBSET (1 .. Len(tlb)) OBVIOUS
  <2>4. IsFiniteSet(I) BY <2>2, <2>3, FS_Subset
  <2>5. QED BY <2>4, <2>1
<1>3. I # {} => k \in I BY <1>1, <1>2, MinimoFinito, ZenonT(60)
<1>4. QED BY <1>1, <1>3

\* Moving an entry to the end of the TLB keeps its length.
LEMMA TlbAlFinal ==
  ASSUME NEW S, NEW s \in Seq(S), NEW k \in 1 .. Len(s)
  PROVE  /\ Append(RemoveAt(s, k), s[k]) \in Seq(S)
         /\ Len(Append(RemoveAt(s, k), s[k])) = Len(s)
<1>1. Len(s) \in Nat /\ \A j \in 1 .. Len(s) : s[j] \in S BY ElementOfSeq
<1>2. /\ SubSeq(s, 1, k - 1) \in Seq(S) /\ Len(SubSeq(s, 1, k - 1)) = k - 1
      /\ SubSeq(s, k + 1, Len(s)) \in Seq(S) /\ Len(SubSeq(s, k + 1, Len(s))) = Len(s) - k
  <2>1. \A j \in 1 .. k - 1 : s[j] \in S BY <1>1
  <2>2. \A j \in k + 1 .. Len(s) : s[j] \in S BY <1>1
  <2>3. k - 1 \in Int /\ k + 1 \in Int /\ Len(s) \in Int /\ 1 \in Int BY <1>1
  <2>4. /\ SubSeq(s, 1, k - 1) \in Seq(S)
        /\ Len(SubSeq(s, 1, k - 1)) = IF 1 <= k - 1 THEN k - 1 - 1 + 1 ELSE 0
    BY <2>1, <2>3, SubSeqProperties
  <2>5. /\ SubSeq(s, k + 1, Len(s)) \in Seq(S)
        /\ Len(SubSeq(s, k + 1, Len(s))) = IF k + 1 <= Len(s) THEN Len(s) - (k + 1) + 1 ELSE 0
    BY <2>2, <2>3, SubSeqProperties
  <2>6. QED BY <2>4, <2>5, <1>1
<1>3. RemoveAt(s, k) \in Seq(S) /\ Len(RemoveAt(s, k)) = Len(s) - 1
  <2> DEFINE a == SubSeq(s, 1, k - 1)
             b == SubSeq(s, k + 1, Len(s))
  <2>1. a \in Seq(S) /\ b \in Seq(S) /\ Len(a) = k - 1 /\ Len(b) = Len(s) - k BY <1>2
  <2>2. RemoveAt(s, k) = a \o b BY DEF RemoveAt
  <2> HIDE DEF a, b
  <2>3. a \o b \in Seq(S) /\ Len(a \o b) = Len(a) + Len(b) BY <2>1, ConcatProperties
  <2>4. QED BY <2>1, <2>2, <2>3, <1>1
<1>4. QED BY <1>1, <1>3, AppendProperties

\* Consecutive pages of a process are pages.
LEMMA PaginasSeguidas ==
  ASSUME NEW pagina \in Nat, NEW cant \in Nat, pagina + cant <= CANT_MARCOS
  PROVE  LET s == [j \in 1 .. cant |-> pagina + j - 1]
         IN  s \in Seq(Marcos) /\ Len(s) = cant /\ \A g \in ToSet(s) : g < pagina + cant
<1> DEFINE s == [j \in 1 .. cant |-> pagina + j - 1]
<1>1. \A j \in 1 .. cant : pagina + j - 1 \in Marcos /\ pagina + j - 1 < pagina + cant
  BY DEF Marcos
<1>2. s \in [1 .. cant -> Marcos] BY <1>1
<1>3. s \in Seq(Marcos)
  <2> HIDE DEF s
  <2>1. QED BY <1>2
<1>4. DOMAIN s = 1 .. cant OBVIOUS
<1>5. Len(s) = cant BY <1>3, <1>4
<1>6. \A g \in ToSet(s) : g < pagina + cant BY <1>1 DEF ToSet
<1>7. QED BY <1>3, <1>5, <1>6

\* The steps of the memory and its clients, one by one.
LEMMA PasosMemoria ==
  ASSUME [Next]_vars
  PROVE  \/ UNCHANGED vars
         \/ \E p \in Procesos : IniciarProceso(p) \/ SacarDeLista(p) \/ RecibeProceso(p)
         \/ LiberarTodas
         \/ DevuelveProceso \/ ResizeExcesivo \/ BuscaMarco \/ FaltanMarcos
         \/ MarcaOcupados \/ AmpliarProceso
         \/ \E n \in 0 .. CANT_MARCOS : ResizeAmplia(n) \/ ReducirProceso(n)
         \/ \E pagina \in 0 .. CANT_MARCOS - 1, cant \in 1 .. 2 : PideAcceso(pagina, cant)
         \/ TlbHit \/ TlbMiss \/ CpuLee \/ CpuPideIO
         \/ \E d \in Datos : CpuEscribe(d)
         \/ \E p \in Procesos : DispositivoLee(p)
         \/ \E p \in Procesos, d \in Datos : DispositivoEscribe(p, d)
BY DEF Next, Kernel, Resize, Acceso, Dispositivo

\* The invariant is a fact about the initial state.
LEMMA Comienzo == Init => Inv
<1> SUFFICES ASSUME Init PROVE Inv OBVIOUS
<1> USE DEF Init
<1>1. Cargados = {} /\ Reservados = <<>> /\ \A p \in Procesos : EnUso(p) = <<>>
  BY DEF Cargados, Reservados, EnUso, CpuLibre, EnReposo
<1>2. TypeOK
  <2>1. tablas \in [Cargados -> Seq(Marcos)] BY <1>1
  <2>2. TipoCpu(cpu) BY TipoCpuReposo
  <2>3. kernel \in [pid : Procesos \cup {Nadie}, marcos : Seq(Marcos)] BY DEF EnReposo
  <2>4. tlb \in Seq(Entradas) /\ Len(tlb) <= ENTRADAS_TLB OBVIOUS
  <2>5. io \in [Procesos -> Seq(Marcos)] OBVIOUS
  <2>6. nacidos \subseteq Procesos /\ Cargados \subseteq Procesos BY <1>1
  <2>7. bitmap_marcos \in [Marcos -> BOOLEAN] /\ memoria \in [Marcos -> Datos] OBVIOUS
  <2>8. QED BY <2>1, <2>2, <2>3, <2>4, <2>5, <2>6, <2>7 DEF TypeOK, TipoCpu
<1>3. RepartoExacto
  <2>1. \A p \in Procesos : Usos[p] = <<>> BY <1>1 DEF Usos
  <2>2. QED BY <1>1, <2>1, ElementosVacia DEF RepartoExacto, Reparto
<1>4. CpuConCargado /\ BusquedaVigente /\ BusquedaOrdenada
  BY ElementosVacia DEF CpuConCargado, BusquedaVigente, BusquedaOrdenada, CpuLibre
<1>5. ListaSinReuso BY <1>1 DEF ListaSinReuso, EnReposo
<1>6. QED BY <1>2, <1>3, <1>4, <1>5 DEF Inv

\* Every step keeps the types.
LEMMA TipoPaso ==
  ASSUME Inv, [Next]_vars
  PROVE  TypeOK'
<1> USE DEF TypeOK, Inv
<1>0. TypeOK OBVIOUS
<1>1. CASE UNCHANGED vars
  BY <1>1 DEF vars, Cargados
<1>2. ASSUME NEW p \in Procesos, IniciarProceso(p) PROVE TypeOK'
  <2>1. DOMAIN tablas' = Cargados \cup {p} /\ tablas' \in [Cargados' -> Seq(Marcos)]
    BY <1>2 DEF IniciarProceso, Cargados
  <2>2. QED BY <1>2, <2>1 DEF IniciarProceso, Cargados
<1>3. ASSUME NEW p \in Procesos, SacarDeLista(p) PROVE TypeOK'
  <2>1. DOMAIN tablas' = Cargados \ {p} /\ tablas' \in [Cargados' -> Seq(Marcos)]
    BY <1>3 DEF SacarDeLista, Cargados
  <2>2. kernel' \in [pid : Procesos \cup {Nadie}, marcos : Seq(Marcos)]
    BY <1>3 DEF SacarDeLista
  <2>3. QED BY <1>3, <2>1, <2>2 DEF SacarDeLista, Cargados
<1>4. ASSUME NEW p \in Procesos, RecibeProceso(p) PROVE TypeOK'
  BY <1>4, TipoCpuReposo DEF RecibeProceso, Cargados, TipoCpu
<1>5. CASE LiberarTodas
  BY <1>5 DEF LiberarTodas, Liberar, EnReposo, Cargados
<1>6. CASE DevuelveProceso \/ ResizeExcesivo \/ FaltanMarcos
  BY <1>6, TipoCpuReposo DEF DevuelveProceso, ResizeExcesivo, FaltanMarcos, Cargados, TipoCpu
<1>7. CASE BuscaMarco
  <2>1. Append(cpu.marcos, cpu.i) \in Seq(Marcos) /\ cpu.i + 1 \in 0 .. CANT_MARCOS
    BY <1>7 DEF BuscaMarco, Marcos
  <2>2. TipoCpu(cpu') BY <1>7, <2>1 DEF BuscaMarco, TipoCpu
  <2>3. QED BY <1>7, <2>2 DEF BuscaMarco, Cargados, TipoCpu
<1>8. CASE MarcaOcupados
  BY <1>8 DEF MarcaOcupados, Ocupar, Cargados
<1>9. CASE AmpliarProceso
  <2>1. cpu.pid \in Cargados /\ cpu.pid \in Procesos BY <1>9 DEF AmpliarProceso, CpuConCargado
  <2>2. tablas[cpu.pid] \o cpu.marcos \in Seq(Marcos) BY <2>1
  <2>3. tablas' \in [Cargados' -> Seq(Marcos)] /\ Cargados' = Cargados
    BY <1>9, <2>1, <2>2 DEF AmpliarProceso, Cargados
  <2>4. TipoCpu(cpu') BY <1>9, <2>1, TipoCpuReposo DEF AmpliarProceso
  <2>5. QED BY <1>9, <2>3, <2>4 DEF AmpliarProceso, TipoCpu
<1>10. ASSUME NEW n \in 0 .. CANT_MARCOS, ResizeAmplia(n) PROVE TypeOK'
  <2>1. cpu.pid \in Cargados BY <1>10 DEF ResizeAmplia, CpuConCargado
  <2>2. n - Paginas(cpu.pid) \in 0 .. CANT_MARCOS BY <1>10, <2>1 DEF ResizeAmplia, Paginas
  <2>3. TipoCpu(cpu') BY <1>10, <2>2 DEF ResizeAmplia, TipoCpu
  <2>4. QED BY <1>10, <2>3 DEF ResizeAmplia, TipoCpu, Cargados
<1>11. ASSUME NEW n \in 0 .. CANT_MARCOS, ReducirProceso(n) PROVE TypeOK'
  <2>1. cpu.pid \in Cargados BY <1>11 DEF ReducirProceso, CpuConCargado
  <2>2. SubSeq(tablas[cpu.pid], 1, n) \in Seq(Marcos)
    BY <1>11, <2>1 DEF ReducirProceso, Paginas
  <2>3. tablas' \in [Cargados' -> Seq(Marcos)] /\ Cargados' = Cargados
    BY <1>11, <2>1, <2>2 DEF ReducirProceso, Cargados
  <2>4. bitmap_marcos' \in [Marcos -> BOOLEAN] BY <1>11 DEF ReducirProceso, Liberar
  <2>5. QED BY <1>11, <2>3, <2>4 DEF ReducirProceso
<1>12. ASSUME NEW pagina \in 0 .. CANT_MARCOS - 1, NEW cant \in 1 .. 2, PideAcceso(pagina, cant)
       PROVE  TypeOK'
  <2>1. cpu.pid \in Cargados /\ cpu.pid \in Procesos BY <1>12 DEF PideAcceso, CpuConCargado
  <2>2. Paginas(cpu.pid) <= CANT_MARCOS
    BY <2>1 DEF RepartoExacto, Reparto, Usos, EnUso, Paginas
  <2>3. pagina + cant <= CANT_MARCOS BY <1>12, <2>1, <2>2 DEF PideAcceso, Paginas
  <2>4. [j \in 1 .. cant |-> pagina + j - 1] \in Seq(Marcos)
    <3>1. pagina \in Nat /\ cant \in Nat OBVIOUS
    <3>2. QED BY <3>1, <2>3, PaginasSeguidas
  <2>5. TipoCpu(cpu') BY <1>12, <2>4 DEF PideAcceso, TipoCpu
  <2>6. QED BY <1>12, <2>5 DEF PideAcceso, TipoCpu, Cargados
<1>13. CASE TlbHit
  <2> DEFINE k == BuscarMarcoTlb(cpu.pid, Head(cpu.paginas))
  <2>1. k \in 1 .. Len(tlb) BY <1>13, EntradaHallada DEF TlbHit
  <2> HIDE DEF k
  <2>2. tlb[k] \in Entradas /\ tlb[k].marco \in Marcos
    <3>1. tlb[k] \in Entradas BY <2>1
    <3>2. QED BY <3>1 DEF Entradas
  <2>3. /\ Append(RemoveAt(tlb, k), tlb[k]) \in Seq(Entradas)
        /\ Len(Append(RemoveAt(tlb, k), tlb[k])) = Len(tlb)
    BY <2>1, TlbAlFinal
  <2>4. tlb' \in Seq(Entradas) /\ Len(tlb') <= ENTRADAS_TLB BY <1>13, <2>3 DEF TlbHit, k
  <2>5. cpu.paginas # <<>> /\ cpu' = [cpu EXCEPT !.paginas = Tail(@), !.marcos = Append(@, tlb[k].marco)]
    BY <1>13 DEF TlbHit, k
  <2>6. Tail(cpu.paginas) \in Seq(Marcos) /\ Append(cpu.marcos, tlb[k].marco) \in Seq(Marcos)
    BY <2>2, <2>5
  <2>7. TipoCpu(cpu') BY <2>5, <2>6 DEF TipoCpu
  <2>8. QED BY <1>13, <2>4, <2>7 DEF TlbHit, TipoCpu, Cargados
<1>14. CASE TlbMiss
  <2> DEFINE pagina == Head(cpu.paginas)
             marco  == tablas[cpu.pid][pagina + 1]
             e      == [pid |-> cpu.pid, pagina |-> pagina, marco |-> marco]
  <2>1. cpu.pid \in Cargados /\ cpu.pid \in Procesos /\ cpu.paginas # <<>>
    BY <1>14 DEF TlbMiss, CpuConCargado
  <2>2. pagina \in Marcos /\ pagina \in ToSet(cpu.paginas)
    BY <2>1 DEF ToSet
  <2>3. pagina + 1 \in 1 .. Len(tablas[cpu.pid])
    <3>1. pagina < Len(tablas[cpu.pid]) BY <2>2 DEF CpuConCargado, Paginas
    <3>2. pagina \in Nat /\ Len(tablas[cpu.pid]) \in Nat BY <2>1, <2>2 DEF Marcos
    <3> HIDE DEF pagina
    <3>3. QED BY <3>1, <3>2
  <2>4. marco \in Marcos BY <2>1, <2>3
  <2> HIDE DEF pagina, marco
  <2>5. e \in Entradas BY <2>1, <2>2, <2>4 DEF Entradas
  <2> HIDE DEF e
  <2>6. tlb' = AgregarMarcoTlb(e) BY <1>14 DEF TlbMiss, e, marco, pagina
  <2>7. tlb' \in Seq(Entradas) /\ Len(tlb') <= ENTRADAS_TLB
    BY <2>5, <2>6 DEF AgregarMarcoTlb
  <2>8. cpu' = [cpu EXCEPT !.paginas = Tail(@), !.marcos = Append(@, marco)]
    BY <1>14 DEF TlbMiss, marco, pagina
  <2>9. Tail(cpu.paginas) \in Seq(Marcos) /\ Append(cpu.marcos, marco) \in Seq(Marcos)
    BY <2>1, <2>4
  <2>10. TipoCpu(cpu') BY <2>8, <2>9 DEF TipoCpu
  <2>11. QED BY <1>14, <2>7, <2>10 DEF TlbMiss, TipoCpu, Cargados
<1>15. CASE CpuLee
  <2>1. cpu.pid \in Procesos BY <1>15 DEF CpuLee, CpuConCargado
  <2>2. QED BY <1>15, <2>1, TipoCpuReposo DEF CpuLee, TipoCpu, Cargados
<1>16. CASE CpuPideIO
  BY <1>16, TipoCpuReposo DEF CpuPideIO, TipoCpu, Cargados
<1>17. ASSUME NEW d \in Datos, CpuEscribe(d) PROVE TypeOK'
  <2>1. cpu.pid \in Procesos /\ cpu.marcos # <<>> BY <1>17 DEF CpuEscribe, CpuConCargado
  <2>2. TipoCpu(Ejecutando(cpu.pid)) BY <2>1, TipoCpuReposo
  <2>3. Tail(cpu.marcos) \in Seq(Marcos) BY <2>1
  <2>4. TipoCpu([cpu EXCEPT !.fase = "escribe", !.marcos = Tail(@)])
    BY <2>3 DEF TipoCpu
  <2>5. TipoCpu(cpu') BY <1>17, <2>2, <2>4 DEF CpuEscribe
  <2>6. QED BY <1>17, <2>5 DEF CpuEscribe, TipoCpu, Cargados
<1>18. ASSUME NEW p \in Procesos, DispositivoLee(p) PROVE TypeOK'
  BY <1>18 DEF DispositivoLee, Cargados
<1>19. ASSUME NEW p \in Procesos, NEW d \in Datos, DispositivoEscribe(p, d) PROVE TypeOK'
  BY <1>19 DEF DispositivoEscribe, Cargados
<1>20. QED
  BY <1>1, <1>2, <1>3, <1>4, <1>5, <1>6, <1>7, <1>8, <1>9, <1>10, <1>11, <1>12, <1>13,
     <1>14, <1>15, <1>16, <1>17, <1>18, <1>19, PasosMemoria

\* The list of processes is only written by the kernel's thread.
LEMMA ListaPaso ==
  ASSUME Inv, [Next]_vars
  PROVE  ListaSinReuso'
<1> USE DEF ListaSinReuso, Cargados
<1>1. ListaSinReuso /\ TypeOK BY DEF Inv
<1>2. ASSUME NEW p \in Procesos, IniciarProceso(p) PROVE ListaSinReuso'
  BY <1>1, <1>2 DEF IniciarProceso, EnReposo
<1>3. ASSUME NEW p \in Procesos, SacarDeLista(p) PROVE ListaSinReuso'
  BY <1>1, <1>3 DEF SacarDeLista, EnReposo
<1>4. CASE LiberarTodas
  <2>1. Nadie \notin Cargados BY <1>1 DEF TypeOK
  <2>2. QED BY <1>1, <1>4, <2>1 DEF LiberarTodas, EnReposo
<1>5. (UNCHANGED <<nacidos, kernel>> /\ Cargados' = Cargados) => ListaSinReuso'
  BY <1>1
<1>6. ASSUME UNCHANGED <<nacidos, tablas, kernel>> PROVE ListaSinReuso'
  BY <1>5, <1>6
<1>7. CASE AmpliarProceso
  BY <1>1, <1>5, <1>7 DEF AmpliarProceso, TypeOK
<1>8. ASSUME NEW n \in 0 .. CANT_MARCOS, ReducirProceso(n) PROVE ListaSinReuso'
  BY <1>1, <1>5, <1>8 DEF ReducirProceso, TypeOK
<1>9. QED
  BY <1>2, <1>3, <1>4, <1>6, <1>7, <1>8, PasosMemoria
  DEF vars, RecibeProceso, DevuelveProceso, ResizeExcesivo, BuscaMarco, FaltanMarcos,
      MarcaOcupados, ResizeAmplia, PideAcceso, TlbHit, TlbMiss, CpuLee, CpuPideIO, CpuEscribe,
      DispositivoLee, DispositivoEscribe

\* What the CPU has translated so far, and the pages still to translate.
LEMMA CpuPaso ==
  ASSUME Inv, [Next]_vars
  PROVE  CpuConCargado'
<1> USE DEF CpuConCargado, Cargados, Paginas
<1>1. CpuConCargado /\ TypeOK /\ TypeOK' BY TipoPaso DEF Inv
<1>2. UNCHANGED <<cpu, tablas>> => CpuConCargado' BY <1>1
<1>3. ASSUME NEW p \in Procesos, IniciarProceso(p) PROVE CpuConCargado'
  <2>1. cpu' = cpu /\ Cargados \subseteq Cargados' /\ \A q \in Cargados : tablas'[q] = tablas[q]
    BY <1>3 DEF IniciarProceso, Inv, ListaSinReuso
  <2>2. QED BY <1>1, <2>1, ElementosVacia DEF CpuLibre
<1>4. ASSUME NEW p \in Procesos, SacarDeLista(p) PROVE CpuConCargado'
  <2>1. /\ cpu' = cpu /\ cpu.pid # p /\ Cargados' = Cargados \ {p}
        /\ \A q \in Cargados : q # p => tablas'[q] = tablas[q]
    BY <1>4 DEF SacarDeLista
  <2>2. QED BY <1>1, <2>1, ElementosVacia DEF CpuLibre
<1>5. ASSUME cpu' = CpuLibre PROVE CpuConCargado'
  BY <1>5, ElementosVacia DEF CpuLibre
<1>6. ASSUME cpu'.pid \in Cargados', cpu' = Ejecutando(cpu'.pid) PROVE CpuConCargado'
  BY <1>6, ElementosVacia DEF Ejecutando, CpuLibre
<1>7. CASE BuscaMarco BY <1>1, <1>7 DEF BuscaMarco, TypeOK
<1>8. CASE MarcaOcupados BY <1>1, <1>8 DEF MarcaOcupados, TypeOK
<1>9. ASSUME NEW n \in 0 .. CANT_MARCOS, ResizeAmplia(n) PROVE CpuConCargado'
  BY <1>1, <1>9 DEF ResizeAmplia, TypeOK
<1>10. CASE AmpliarProceso
  <2>1. cpu.pid \in Cargados /\ Cargados' = Cargados /\ cpu'.pid = cpu.pid
        /\ cpu' = Ejecutando(cpu.pid)
    BY <1>1, <1>10 DEF AmpliarProceso, Ejecutando, CpuLibre, TypeOK
  <2>2. QED BY <1>6, <2>1
<1>11. ASSUME NEW n \in 0 .. CANT_MARCOS, ReducirProceso(n) PROVE CpuConCargado'
  <2>1. cpu' = cpu /\ Cargados' = Cargados /\ cpu.fase = "ejecuta"
    BY <1>1, <1>11 DEF ReducirProceso, TypeOK
  <2>2. QED BY <1>6, <1>1, <2>1
<1>12. ASSUME NEW pagina \in 0 .. CANT_MARCOS - 1, NEW cant \in 1 .. 2, PideAcceso(pagina, cant)
       PROVE  CpuConCargado'
  <2> DEFINE s == [j \in 1 .. cant |-> pagina + j - 1]
  <2>1. cpu.pid \in Cargados /\ pagina + cant <= Paginas(cpu.pid) BY <1>12, <1>1 DEF PideAcceso
  <2>2. Paginas(cpu.pid) <= CANT_MARCOS /\ Paginas(cpu.pid) \in Nat
    BY <2>1, <1>1 DEF TypeOK, Inv, RepartoExacto, Reparto, Usos, EnUso
  <2>3. pagina \in Nat /\ cant \in Nat /\ pagina + cant <= CANT_MARCOS BY <2>1, <2>2
  <2>4. s \in Seq(Marcos) /\ Len(s) = cant /\ \A g \in ToSet(s) : g < pagina + cant
    BY <2>3, PaginasSeguidas
  <2> HIDE DEF s
  <2>5. cpu' = [cpu EXCEPT !.fase = "traduce", !.paginas = s] /\ tablas' = tablas
    BY <1>12 DEF PideAcceso, s
  <2>6. /\ cpu'.fase = "traduce" /\ cpu'.paginas = s /\ cpu'.pid = cpu.pid
        /\ Cargados' = Cargados
    BY <2>5, <1>1 DEF TypeOK
  <2>7. \A g \in ToSet(s) : g < Paginas(cpu.pid)
    <3>1. \A g \in ToSet(s) : g \in Nat BY <2>4, ElementosSec DEF Marcos
    <3>2. QED BY <3>1, <2>1, <2>2, <2>3, <2>4
  <2>8. s # <<>> BY <2>4
  <2>9. QED BY <2>1, <2>5, <2>6, <2>7, <2>8
<1>13. ASSUME NEW m \in Marcos, cpu.fase = "traduce", cpu.paginas # <<>>, tablas' = tablas,
              cpu' = [cpu EXCEPT !.paginas = Tail(@), !.marcos = Append(@, m)]
       PROVE  CpuConCargado'
  <2>1. /\ cpu'.fase = "traduce" /\ cpu'.paginas = Tail(cpu.paginas)
        /\ cpu'.marcos = Append(cpu.marcos, m) /\ cpu'.pid = cpu.pid
    BY <1>1, <1>13 DEF TypeOK
  <2>2. ToSet(Tail(cpu.paginas)) \subseteq ToSet(cpu.paginas)
    <3> DEFINE g == cpu.paginas
    <3>1. g \in Seq(Marcos) /\ g # <<>> BY <1>1, <1>13 DEF TypeOK
    <3> HIDE DEF g
    <3>2. /\ Tail(g) \in Seq(Marcos) /\ Len(Tail(g)) = Len(g) - 1
          /\ \A j \in 1 .. Len(Tail(g)) : Tail(g)[j] = g[j + 1]
      BY <3>1, HeadTailProperties
    <3>3. \A j \in 1 .. Len(Tail(g)) : j + 1 \in 1 .. Len(g) BY <3>1, <3>2
    <3>4. \A x \in ToSet(Tail(g)) : x \in ToSet(g)
      <4>1. \A x : x \in ToSet(g) <=> \E j \in 1 .. Len(g) : g[j] = x BY <3>1, ElementosSec
      <4>2. Tail(g) \in Seq(Marcos) BY <3>2
      <4>3. \A x : x \in ToSet(Tail(g)) <=> \E j \in 1 .. Len(Tail(g)) : Tail(g)[j] = x
        BY <4>2, ElementosSec
      <4>4. QED BY <4>1, <4>3, <3>2, <3>3
    <3>5. QED BY <3>4 DEF g
  <2>3. Append(cpu.marcos, m) # <<>>
    <3>1. cpu.marcos \in Seq(Marcos) BY <1>1 DEF TypeOK
    <3>2. QED BY <3>1, AppendProperties
  <2>4. QED BY <1>1, <1>13, <2>1, <2>2, <2>3
<1>14. CASE TlbHit
  <2> DEFINE k == BuscarMarcoTlb(cpu.pid, Head(cpu.paginas))
  <2>1. k \in 1 .. Len(tlb) BY <1>1, <1>14, EntradaHallada DEF TlbHit
  <2>2. tlb[k] \in Entradas BY <1>1, <2>1 DEF TypeOK
  <2>3. tlb[k].marco \in Marcos BY <2>2 DEF Entradas
  <2>4. QED BY <1>13, <1>14, <2>3 DEF TlbHit
<1>15. CASE TlbMiss
  <2> DEFINE marco == tablas[cpu.pid][Head(cpu.paginas) + 1]
  <2>1. /\ cpu.fase = "traduce" /\ cpu.paginas # <<>> /\ tablas' = tablas
        /\ cpu' = [cpu EXCEPT !.paginas = Tail(@), !.marcos = Append(@, marco)]
    BY <1>15 DEF TlbMiss
  <2>2. marco \in Marcos
    <3>1. cpu.pid \in Cargados /\ cpu.paginas \in Seq(Marcos) BY <2>1, <1>1 DEF TypeOK
    <3>2. Head(cpu.paginas) \in Marcos /\ Head(cpu.paginas) \in ToSet(cpu.paginas)
      BY <3>1, <2>1 DEF ToSet
    <3>3. tablas[cpu.pid] \in Seq(Marcos) BY <3>1, <1>1 DEF TypeOK
    <3>4. Head(cpu.paginas) < Len(tablas[cpu.pid]) BY <3>2, <1>1
    <3>5. Head(cpu.paginas) + 1 \in 1 .. Len(tablas[cpu.pid]) BY <3>2, <3>3, <3>4 DEF Marcos
    <3>6. QED BY <3>3, <3>5
  <2> HIDE DEF marco
  <2>3. QED BY <1>13, <2>1, <2>2
<1>16. CASE CpuLee
  <2>1. cpu.pid \in Cargados' /\ cpu'.pid = cpu.pid /\ cpu' = Ejecutando(cpu.pid)
    BY <1>1, <1>16 DEF CpuLee, Ejecutando, CpuLibre
  <2>2. QED BY <1>6, <2>1
<1>17. ASSUME NEW d \in Datos, CpuEscribe(d) PROVE CpuConCargado'
  <2>1. cpu.pid \in Cargados /\ Cargados' = Cargados /\ cpu.paginas = <<>> /\ cpu.marcos # <<>>
    BY <1>1, <1>17 DEF CpuEscribe
  <2>2. CASE Len(cpu.marcos) = 1
    <3>1. cpu'.pid = cpu.pid /\ cpu' = Ejecutando(cpu.pid)
      BY <2>2, <1>17 DEF CpuEscribe, Ejecutando, CpuLibre
    <3>2. QED BY <1>6, <2>1, <3>1
  <2>3. CASE Len(cpu.marcos) # 1
    <3>1. cpu' = [cpu EXCEPT !.fase = "escribe", !.marcos = Tail(@)]
      BY <2>3, <1>17 DEF CpuEscribe
    <3>2. cpu.marcos \in Seq(Marcos) BY <1>1 DEF TypeOK
    <3>3. Tail(cpu.marcos) # <<>>
      <4>1. Len(Tail(cpu.marcos)) = Len(cpu.marcos) - 1 BY <3>2, <2>1, HeadTailProperties
      <4>2. Len(cpu.marcos) \in Nat BY <3>2
      <4>3. Len(Tail(cpu.marcos)) # 0 BY <4>1, <4>2, <2>3
      <4>4. QED BY <4>3, ElementosVacia
    <3>4. /\ cpu'.fase = "escribe" /\ cpu'.marcos = Tail(cpu.marcos) /\ cpu'.pid = cpu.pid
          /\ cpu'.paginas = <<>>
      BY <3>1, <2>1, <1>1 DEF TypeOK
    <3>5. QED BY <2>1, <3>3, <3>4, ElementosVacia
  <2>4. QED BY <2>2, <2>3
<1>18. ASSUME NEW p \in Procesos, RecibeProceso(p) PROVE CpuConCargado'
  <2>1. cpu'.pid = p /\ cpu' = Ejecutando(p) /\ p \in Cargados'
    BY <1>18 DEF RecibeProceso, Ejecutando, CpuLibre
  <2>2. QED BY <1>6, <2>1
<1>19. QED
  BY <1>2, <1>3, <1>4, <1>5, <1>7, <1>8, <1>9, <1>10, <1>11, <1>12, <1>14, <1>15, <1>16,
     <1>17, <1>18, PasosMemoria
  DEF vars, LiberarTodas, DevuelveProceso, ResizeExcesivo, FaltanMarcos, CpuPideIO,
      DispositivoLee, DispositivoEscribe

\* A step that writes nothing of the search keeps it.
LEMMA BusquedaAparte ==
  ASSUME Inv, TypeOK',
         \/ cpu'.fase \notin {"busca", "amplia"}
         \/ /\ cpu' = cpu
            /\ Paginas(cpu.pid)' = Paginas(cpu.pid)
            /\ \A m \in Marcos : bitmap_marcos'[m] => bitmap_marcos[m]
  PROVE  BusquedaOrdenada' /\ BusquedaVigente'
<1>1. BusquedaOrdenada /\ BusquedaVigente /\ TypeOK BY DEF Inv
<1>2. CASE cpu'.fase \notin {"busca", "amplia"}
  BY <1>2 DEF BusquedaOrdenada, BusquedaVigente
<1>3. CASE /\ cpu' = cpu
           /\ Paginas(cpu.pid)' = Paginas(cpu.pid)
           /\ \A m \in Marcos : bitmap_marcos'[m] => bitmap_marcos[m]
  <2>1. BusquedaOrdenada' BY <1>1, <1>3 DEF BusquedaOrdenada
  <2>2. ToSet(cpu.marcos) \subseteq Marcos BY <1>1, ElementosSec DEF TypeOK
  <2>3. QED BY <2>1, <2>2, <1>1, <1>3 DEF BusquedaVigente
<1>4. QED BY <1>2, <1>3

\* What buscar_marcos_libres has found stays free and in order: between the
\* search and the marking, the other threads only free frames.
LEMMA BusquedaPaso ==
  ASSUME Inv, [Next]_vars
  PROVE  BusquedaOrdenada' /\ BusquedaVigente'
<1>1. /\ BusquedaOrdenada /\ BusquedaVigente /\ TypeOK /\ CpuConCargado /\ TypeOK'
  BY TipoPaso DEF Inv
<1> DEFINE Meta == BusquedaOrdenada' /\ BusquedaVigente'
<1>2. ASSUME cpu'.fase \notin {"busca", "amplia"} PROVE Meta
  BY <1>2, BusquedaAparte, <1>1
<1>3. ASSUME UNCHANGED <<cpu, tablas, bitmap_marcos>> PROVE Meta
  <2>1. Paginas(cpu.pid)' = Paginas(cpu.pid) BY <1>3 DEF Paginas
  <2>2. QED BY <1>3, <2>1, BusquedaAparte, <1>1
<1>4. ASSUME NEW p \in Procesos, IniciarProceso(p) \/ SacarDeLista(p) PROVE Meta
  <2>1. cpu' = cpu /\ bitmap_marcos' = bitmap_marcos BY <1>4 DEF IniciarProceso, SacarDeLista
  <2>2. CASE cpu.fase = "libre" BY <2>1, <2>2, <1>2
  <2>3. CASE cpu.fase # "libre"
    <3>1. cpu.pid \in Cargados /\ cpu.pid \in Cargados' /\ tablas'[cpu.pid] = tablas[cpu.pid]
      BY <2>3, <1>1, <1>4 DEF IniciarProceso, SacarDeLista, CpuConCargado, Cargados, Inv,
        ListaSinReuso
    <3>2. Paginas(cpu.pid)' = Paginas(cpu.pid) BY <2>1, <3>1 DEF Paginas
    <3>3. QED BY <2>1, <3>2, BusquedaAparte, <1>1
  <2>4. QED BY <2>2, <2>3
<1>5. CASE LiberarTodas
  <2>1. /\ cpu' = cpu /\ tablas' = tablas
        /\ \A m \in Marcos : bitmap_marcos'[m] => bitmap_marcos[m]
    BY <1>5 DEF LiberarTodas, Liberar
  <2>2. Paginas(cpu.pid)' = Paginas(cpu.pid) BY <2>1 DEF Paginas
  <2>3. QED BY <2>1, <2>2, BusquedaAparte, <1>1
<1>6. ASSUME cpu' = CpuLibre PROVE Meta BY <1>6, <1>2 DEF CpuLibre
<1>7. ASSUME NEW p \in Procesos, cpu' = Ejecutando(p) PROVE Meta
  <2>1. cpu'.fase = "ejecuta" BY <1>7 DEF Ejecutando, CpuLibre
  <2>2. QED BY <2>1, <1>2
<1>8. ASSUME NEW n \in 0 .. CANT_MARCOS, ResizeAmplia(n) PROVE Meta
  <2>1. cpu = Ejecutando(cpu.pid) /\ cpu.pid \in Cargados
    BY <1>8, <1>1 DEF ResizeAmplia, CpuConCargado
  <2>2. cpu.marcos = <<>> BY <2>1 DEF Ejecutando, CpuLibre
  <2>3. /\ cpu'.fase = "busca" /\ cpu'.marcos = <<>> /\ cpu'.pid = cpu.pid
        /\ cpu'.cant = n - Paginas(cpu.pid) /\ Paginas(cpu.pid)' = Paginas(cpu.pid)
        /\ n > Paginas(cpu.pid)
    BY <2>2, <1>8, <1>1 DEF ResizeAmplia, TypeOK, Paginas
  <2>4. Paginas(cpu.pid) \in Nat BY <2>1, <1>1 DEF TypeOK, Paginas
  <2>5. cpu'.cant + Paginas(cpu.pid)' = n /\ 0 <= cpu'.cant BY <2>3, <2>4
  <2>6. QED
    BY <2>3, <2>5, ElementosVacia DEF BusquedaOrdenada, BusquedaVigente
<1>9. CASE BuscaMarco
  <2>1. /\ cpu.fase = "busca" /\ cpu.i < CANT_MARCOS /\ Len(cpu.marcos) < cpu.cant
        /\ bitmap_marcos' = bitmap_marcos /\ tablas' = tablas
    BY <1>9 DEF BuscaMarco
  <2>2. /\ cpu'.fase = "busca" /\ cpu'.i = cpu.i + 1 /\ cpu'.pid = cpu.pid
        /\ cpu'.cant = cpu.cant
        /\ cpu'.marcos = IF bitmap_marcos[cpu.i] THEN cpu.marcos ELSE Append(cpu.marcos, cpu.i)
    BY <1>9, <1>1 DEF BuscaMarco, TypeOK
  <2>3. cpu.marcos \in Seq(Marcos) /\ cpu.i \in Marcos /\ cpu.cant \in Nat
    BY <2>1, <1>1 DEF TypeOK, Marcos
  <2>4. /\ cpu.cant + Paginas(cpu.pid) <= CANT_MARCOS /\ SinRepetir(cpu.marcos)
        /\ \A m \in ToSet(cpu.marcos) : m \in Marcos /\ m < cpu.i /\ ~ bitmap_marcos[m]
    BY <2>1, <2>3, <1>1, ElementosSec DEF BusquedaOrdenada, BusquedaVigente
  <2>5. Paginas(cpu.pid)' = Paginas(cpu.pid) BY <2>1, <2>2 DEF Paginas
  <2>6. CASE bitmap_marcos[cpu.i]
    <3>1. cpu'.marcos = cpu.marcos BY <2>2, <2>6
    <3>2. \A m \in ToSet(cpu.marcos) : m < cpu.i + 1 BY <2>3, <2>4 DEF Marcos
    <3>3. Len(cpu.marcos) <= cpu.cant BY <2>1, <2>3
    <3>4. QED BY <3>1, <3>2, <3>3, <2>1, <2>2, <2>4, <2>5 DEF BusquedaOrdenada, BusquedaVigente
  <2>7. CASE ~ bitmap_marcos[cpu.i]
    <3> DEFINE t == Append(cpu.marcos, cpu.i)
    <3>1. cpu'.marcos = t BY <2>2, <2>7
    <3>2. cpu.i \notin ToSet(cpu.marcos) BY <2>3, <2>4 DEF Marcos
    <3>3. SinRepetir(t) /\ ToSet(t) = ToSet(cpu.marcos) \cup {cpu.i}
      BY <2>3, <2>4, <3>2, AgregarNuevo
    <3>4. Len(t) <= cpu.cant BY <2>1, <2>3
    <3> HIDE DEF t
    <3>5. \A m \in ToSet(t) : m < cpu.i + 1 /\ ~ bitmap_marcos[m]
      BY <2>3, <2>4, <2>7, <3>3 DEF Marcos
    <3>6. QED
      BY <3>1, <3>3, <3>4, <3>5, <2>1, <2>2, <2>4, <2>5 DEF BusquedaOrdenada, BusquedaVigente
  <2>8. QED BY <2>6, <2>7
<1>10. CASE MarcaOcupados
  <2>1. /\ cpu.fase = "busca" /\ Len(cpu.marcos) = cpu.cant /\ tablas' = tablas
        /\ cpu'.fase = "amplia" /\ cpu'.marcos = cpu.marcos /\ cpu'.pid = cpu.pid
        /\ cpu'.cant = cpu.cant
    BY <1>10, <1>1 DEF MarcaOcupados, TypeOK
  <2>2. Paginas(cpu.pid)' = Paginas(cpu.pid) BY <2>1 DEF Paginas
  <2>3. QED BY <2>1, <2>2, <1>1 DEF BusquedaOrdenada, BusquedaVigente
<1>11. CASE AmpliarProceso \/ CpuLee
  <2>1. cpu.pid \in Procesos /\ cpu' = Ejecutando(cpu.pid)
    BY <1>11, <1>1 DEF AmpliarProceso, CpuLee, CpuConCargado, TypeOK
  <2>2. QED BY <2>1, <1>7
<1>12. ASSUME NEW n \in 0 .. CANT_MARCOS, ReducirProceso(n) PROVE Meta
  <2>1. cpu'.fase = "ejecuta" BY <1>12 DEF ReducirProceso
  <2>2. QED BY <2>1, <1>2
<1>13. ASSUME NEW g \in 0 .. CANT_MARCOS - 1, NEW c \in 1 .. 2, PideAcceso(g, c) PROVE Meta
  <2>1. cpu'.fase = "traduce" BY <1>13, <1>1 DEF PideAcceso, TypeOK
  <2>2. QED BY <2>1, <1>2
<1>14. CASE TlbHit \/ TlbMiss
  <2>1. cpu'.fase = "traduce" BY <1>14, <1>1 DEF TlbHit, TlbMiss, TypeOK
  <2>2. QED BY <2>1, <1>2
<1>15. ASSUME NEW d \in Datos, CpuEscribe(d) PROVE Meta
  <2>1. cpu.pid \in Procesos BY <1>15, <1>1 DEF CpuEscribe, CpuConCargado, TypeOK
  <2>2. CASE Len(cpu.marcos) = 1
    BY <2>1, <2>2, <1>7, <1>15 DEF CpuEscribe
  <2>3. CASE Len(cpu.marcos) # 1
    <3>1. cpu'.fase = "escribe" BY <2>3, <1>15, <1>1 DEF CpuEscribe, TypeOK
    <3>2. QED BY <3>1, <1>2
  <2>4. QED BY <2>2, <2>3
<1>16. ASSUME NEW p \in Procesos, RecibeProceso(p) PROVE Meta
  BY <1>16, <1>7 DEF RecibeProceso
<1>17. CASE \/ DevuelveProceso \/ ResizeExcesivo \/ FaltanMarcos \/ CpuPideIO
  BY <1>17, <1>6 DEF DevuelveProceso, ResizeExcesivo, FaltanMarcos, CpuPideIO
<1>18. CASE UNCHANGED vars \/ (\E p \in Procesos : DispositivoLee(p))
            \/ (\E p \in Procesos, d \in Datos : DispositivoEscribe(p, d))
  BY <1>18, <1>3 DEF vars, DispositivoLee, DispositivoEscribe
<1>19. QED
  BY <1>4, <1>5, <1>8, <1>9, <1>10, <1>11, <1>12, <1>13, <1>14, <1>15, <1>16, <1>17, <1>18,
     PasosMemoria

\* A step after which everybody has the same frames and the bitmap is the same.
LEMMA RepartoAparte ==
  ASSUME RepartoExacto, bitmap_marcos' = bitmap_marcos, Reservados' = Reservados,
         \A p \in Procesos : EnUso(p)' = EnUso(p)
  PROVE  RepartoExacto'
<1>1. Usos' = Usos BY DEF Usos
<1>2. QED BY <1>1 DEF RepartoExacto, Reparto

\* Every step keeps the accounting of the frames.
LEMMA RepartoPaso ==
  ASSUME Inv, [Next]_vars
  PROVE  RepartoExacto'
<1>1. /\ RepartoExacto /\ TypeOK /\ CpuConCargado /\ ListaSinReuso
      /\ BusquedaOrdenada /\ BusquedaVigente
  BY DEF Inv
<1>2. /\ Usos \in [Procesos -> Seq(Marcos)]
      /\ \A p \in Procesos : Usos[p] = EnUso(p)
      /\ Reservados \in Seq(Marcos)
      /\ bitmap_marcos \in [Marcos -> BOOLEAN]
  BY <1>1 DEF Usos, EnUso, Reservados, TypeOK
<1>3. ASSUME UNCHANGED <<tablas, kernel, bitmap_marcos>>, Reservados' = Reservados
      PROVE  RepartoExacto'
  BY <1>1, <1>3, RepartoAparte DEF EnUso, Cargados
<1>4. ASSUME NEW p \in Procesos, IniciarProceso(p) PROVE RepartoExacto'
  <2>1. /\ Reservados' = Reservados /\ bitmap_marcos' = bitmap_marcos /\ kernel' = kernel
        /\ kernel.pid = Nadie /\ p \notin Cargados
    BY <1>1, <1>4 DEF IniciarProceso, Reservados, EnReposo, ListaSinReuso
  <2>2. /\ Cargados' = Cargados \cup {p} /\ tablas'[p] = <<>>
        /\ \A q \in Cargados : tablas'[q] = tablas[q]
    BY <2>1, <1>4 DEF IniciarProceso, Cargados
  <2>3. \A q \in Procesos : EnUso(q)' = EnUso(q)
    <3> TAKE q \in Procesos
    <3>1. q # Nadie OBVIOUS
    <3>2. QED BY <3>1, <2>1, <2>2 DEF EnUso
  <2>4. QED BY <2>1, <2>3, <1>1, RepartoAparte
<1>5. ASSUME NEW p \in Procesos, SacarDeLista(p) PROVE RepartoExacto'
  <2>1. /\ Reservados' = Reservados /\ bitmap_marcos' = bitmap_marcos
        /\ kernel.pid = Nadie /\ kernel'.pid = p /\ kernel'.marcos = tablas[p]
        /\ p \in Cargados /\ Cargados' = Cargados \ {p}
        /\ \A q \in Cargados : q # p => tablas'[q] = tablas[q]
    BY <1>5 DEF SacarDeLista, Reservados, EnReposo, Cargados
  <2>2. \A q \in Procesos : EnUso(q)' = EnUso(q)
    <3> TAKE q \in Procesos
    <3>1. q # Nadie OBVIOUS
    <3>2. QED BY <3>1, <2>1 DEF EnUso
  <2>3. QED BY <2>1, <2>2, <1>1, RepartoAparte
<1>6. ASSUME NEW p \in Procesos, NEW n \in 0 .. Len(EnUso(p)),
             Reservados' = Reservados,
             \A q \in Procesos : EnUso(q)' = IF q = p THEN SubSeq(EnUso(p), 1, n) ELSE EnUso(q),
             bitmap_marcos' =
               Liberar(bitmap_marcos, {EnUso(p)[j] : j \in n + 1 .. Len(EnUso(p))})
      PROVE  RepartoExacto'
  <2>1. n \in 0 .. Len(Usos[p]) BY <1>2
  <2>2. Usos' = [Usos EXCEPT ![p] = SubSeq(Usos[p], 1, n)]
    <3>1. Usos' = [q \in Procesos |-> EnUso(q)'] BY DEF Usos
    <3>2. QED BY <3>1, <1>2, <1>6
  <2>3. bitmap_marcos' = Liberar(bitmap_marcos, {Usos[p][j] : j \in n + 1 .. Len(Usos[p])})
    BY <1>2, <1>6
  <2>4. Reparto(Usos, Reservados, bitmap_marcos) BY <1>1 DEF RepartoExacto
  <2>5. Reparto(Usos', Reservados, bitmap_marcos')
    BY <1>2, <2>1, <2>2, <2>3, <2>4, RepartoLibera, ZenonT(60)
  <2>6. QED BY <2>5, <1>6 DEF RepartoExacto
<1>7. CASE LiberarTodas
  <2>1. /\ Reservados' = Reservados /\ Cargados' = Cargados /\ tablas' = tablas
        /\ kernel.pid \in Procesos /\ kernel.pid \notin Cargados
        /\ kernel'.pid = Nadie
        /\ bitmap_marcos' = Liberar(bitmap_marcos, ToSet(kernel.marcos))
    BY <1>1, <1>7 DEF LiberarTodas, Reservados, Cargados, EnReposo, ListaSinReuso, TypeOK
  <2>2. EnUso(kernel.pid) = kernel.marcos /\ kernel.marcos \in Seq(Marcos)
    BY <2>1, <1>1 DEF EnUso, TypeOK
  <2>3. 0 \in 0 .. Len(EnUso(kernel.pid)) BY <2>2
  <2>4. \A q \in Procesos :
          EnUso(q)' = IF q = kernel.pid THEN SubSeq(EnUso(kernel.pid), 1, 0) ELSE EnUso(q)
    <3> TAKE q \in Procesos
    <3>1. q # Nadie OBVIOUS
    <3>2. SubSeq(EnUso(kernel.pid), 1, 0) = <<>> BY SubSeqEmpty
    <3>3. QED BY <3>1, <3>2, <2>1 DEF EnUso
  <2>5. ToSet(kernel.marcos) = {EnUso(kernel.pid)[j] : j \in 0 + 1 .. Len(EnUso(kernel.pid))}
    <3>1. DOMAIN kernel.marcos = 0 + 1 .. Len(kernel.marcos) BY <2>2
    <3>2. QED BY <3>1, <2>2 DEF ToSet
  <2>6. QED BY <1>6, <2>1, <2>3, <2>4, <2>5
<1>8. ASSUME NEW n \in 0 .. CANT_MARCOS, ReducirProceso(n) PROVE RepartoExacto'
  <2> DEFINE p == cpu.pid
  <2>1. /\ p \in Cargados /\ p \in Procesos /\ n < Len(tablas[p])
        /\ Reservados' = Reservados /\ kernel' = kernel
        /\ tablas' = [tablas EXCEPT ![p] = SubSeq(tablas[p], 1, n)]
        /\ bitmap_marcos' =
             Liberar(bitmap_marcos, {tablas[p][j] : j \in n + 1 .. Len(tablas[p])})
    BY <1>1, <1>8 DEF ReducirProceso, Reservados, CpuConCargado, Paginas, TypeOK
  <2> HIDE DEF p
  <2>2. /\ Cargados' = Cargados /\ tablas'[p] = SubSeq(tablas[p], 1, n)
        /\ \A q \in Cargados : q # p => tablas'[q] = tablas[q]
    BY <2>1, <1>1 DEF TypeOK, Cargados
  <2>3. EnUso(p) = tablas[p] /\ n \in 0 .. Len(EnUso(p)) BY <2>1, <1>1 DEF EnUso, TypeOK
  <2>4. \A q \in Procesos : EnUso(q)' = IF q = p THEN SubSeq(EnUso(p), 1, n) ELSE EnUso(q)
    BY <2>1, <2>2, <2>3 DEF EnUso
  <2>5. QED BY <1>6, <2>1, <2>3, <2>4
<1>9. CASE MarcaOcupados
  <2>1. /\ cpu.fase = "busca" /\ cpu'.fase = "amplia" /\ cpu'.marcos = cpu.marcos
        /\ bitmap_marcos' = Ocupar(bitmap_marcos, ToSet(cpu.marcos))
        /\ UNCHANGED <<tablas, kernel>>
    BY <1>1, <1>9 DEF MarcaOcupados, TypeOK
  <2>2. Reservados = <<>> /\ Reservados' = cpu.marcos BY <2>1 DEF Reservados
  <2>3. Usos' = Usos BY <2>1 DEF Usos, EnUso, Cargados
  <2>4. cpu.marcos \in Seq(Marcos) BY <1>1 DEF TypeOK
  <2>5. SinRepetir(cpu.marcos) /\ \A m \in ToSet(cpu.marcos) : ~ bitmap_marcos[m]
    BY <2>1, <1>1 DEF BusquedaOrdenada, BusquedaVigente
  <2>6. Reparto(Usos, <<>>, bitmap_marcos) BY <2>2, <1>1 DEF RepartoExacto
  <2>7. Reparto(Usos, cpu.marcos, Ocupar(bitmap_marcos, ToSet(cpu.marcos)))
    BY <1>2, <2>4, <2>5, <2>6, RepartoMarca
  <2>8. QED BY <2>1, <2>2, <2>3, <2>7 DEF RepartoExacto
<1>10. CASE AmpliarProceso
  <2> DEFINE p == cpu.pid
             r == cpu.marcos
  <2>1. /\ cpu.fase = "amplia" /\ p \in Cargados /\ p \in Procesos
        /\ cpu'.fase = "ejecuta" /\ UNCHANGED <<kernel, bitmap_marcos>>
        /\ tablas' = [tablas EXCEPT ![p] = tablas[p] \o r]
        /\ r \in Seq(Marcos)
    BY <1>1, <1>10 DEF AmpliarProceso, CpuConCargado, Ejecutando, CpuLibre, TypeOK
  <2>2. Reservados = r /\ Reservados' = <<>> BY <2>1 DEF Reservados
  <2>3. EnUso(p) = tablas[p] BY <2>1 DEF EnUso
  <2>4. Len(Usos[p]) + Len(r) <= CANT_MARCOS
    <3>1. Len(tablas[p]) \in Nat /\ Len(r) \in Nat /\ Len(r) = cpu.cant
          /\ cpu.cant + Len(tablas[p]) <= CANT_MARCOS
      BY <2>1, <1>1 DEF BusquedaOrdenada, Paginas, TypeOK
    <3>2. QED BY <3>1, <2>1, <2>3, <1>2
  <2> HIDE DEF p, r
  <2>5. /\ Cargados' = Cargados /\ tablas'[p] = tablas[p] \o r
        /\ \A q \in Cargados : q # p => tablas'[q] = tablas[q]
    BY <2>1, <1>1 DEF TypeOK, Cargados
  <2>6. \A q \in Procesos : EnUso(q)' = IF q = p THEN EnUso(p) \o r ELSE EnUso(q)
    BY <2>1, <2>3, <2>5 DEF EnUso
  <2>7. Usos' = [Usos EXCEPT ![p] = Usos[p] \o r]
    <3>1. Usos' = [q \in Procesos |-> EnUso(q)'] BY DEF Usos
    <3>2. QED BY <3>1, <2>1, <2>6, <1>2
  <2>8. Reparto(Usos, r, bitmap_marcos) BY <2>2, <1>1 DEF RepartoExacto
  <2>9. Reparto([Usos EXCEPT ![p] = Usos[p] \o r], <<>>, bitmap_marcos)
    BY <2>1, <2>4, <2>8, <1>2, RepartoAmplia
  <2>10. QED BY <2>1, <2>2, <2>7, <2>9 DEF RepartoExacto
<1>11. ASSUME cpu.fase # "amplia", cpu'.fase # "amplia", UNCHANGED <<tablas, kernel, bitmap_marcos>>
       PROVE  RepartoExacto'
  BY <1>3, <1>11 DEF Reservados
<1>12. CASE \/ \E p \in Procesos : RecibeProceso(p)
            \/ DevuelveProceso \/ ResizeExcesivo \/ FaltanMarcos \/ CpuPideIO \/ CpuLee
  <2>1. CpuLibre.fase = "libre" /\ \A p : Ejecutando(p).fase = "ejecuta"
    BY DEF Ejecutando, CpuLibre
  <2>2. QED
    BY <1>11, <1>12, <2>1 DEF RecibeProceso, DevuelveProceso, ResizeExcesivo, FaltanMarcos,
      CpuPideIO, CpuLee
<1>13. CASE \/ BuscaMarco \/ TlbHit \/ TlbMiss
            \/ \E n \in 0 .. CANT_MARCOS : ResizeAmplia(n)
            \/ \E g \in 0 .. CANT_MARCOS - 1, c \in 1 .. 2 : PideAcceso(g, c)
  BY <1>1, <1>11, <1>13 DEF BuscaMarco, ResizeAmplia, PideAcceso, TlbHit, TlbMiss, TypeOK
<1>14. ASSUME NEW d \in Datos, CpuEscribe(d) PROVE RepartoExacto'
  <2>1. cpu.fase # "amplia" /\ UNCHANGED <<tablas, kernel, bitmap_marcos>>
    BY <1>14 DEF CpuEscribe
  <2>2. cpu'.fase # "amplia"
    BY <1>1, <1>14 DEF CpuEscribe, Ejecutando, CpuLibre, TypeOK
  <2>3. QED BY <2>1, <2>2, <1>11
<1>15. CASE UNCHANGED vars \/ (\E p \in Procesos : DispositivoLee(p))
            \/ (\E p \in Procesos, d \in Datos : DispositivoEscribe(p, d))
  BY <1>3, <1>15 DEF vars, DispositivoLee, DispositivoEscribe, Reservados
<1>16. QED
  BY <1>4, <1>5, <1>7, <1>8, <1>9, <1>10, <1>12, <1>13, <1>14, <1>15, PasosMemoria

-----------------------------------------------------------------------------
(* Theorems *)

\* In every state the bitmap, the page tables and the frames of the requests
\* under way agree (memoria/src/paginacion.c).
THEOREM Invariante == Spec => []Inv
<1>1. Inv /\ [Next]_vars => Inv'
  BY TipoPaso, ListaPaso, CpuPaso, BusquedaPaso, RepartoPaso DEF Inv
<1>2. QED BY Comienzo, <1>1, PTL DEF Spec

\* Every variable of the memory keeps its type and the TLB its size.
THEOREM TipoCorrecto == Spec => []TypeOK
<1>1. Inv => TypeOK BY DEF Inv
<1>2. QED BY <1>1, Invariante, PTL

\* The bitmap marks exactly the frames in use, and no frame is in use twice.
THEOREM MarcosExactos == Spec => []MarcosContados
<1>1. Inv => MarcosContados BY RepartoCuenta DEF Inv
<1>2. QED BY <1>1, Invariante, PTL

\* What a RESIZE finds stays free until it marks it, although the search and
\* the marking are different critical sections.
THEOREM HalladosLibres == Spec => []BusquedaVigente
<1>1. Inv => BusquedaVigente BY DEF Inv
<1>2. QED BY <1>1, Invariante, PTL

-----------------------------------------------------------------------------
(* Refinement: page tables, bitmap, TLB and the addresses given to the     *)
(* devices implement the private address spaces of EspacioLogico, as long  *)
(* as no TLB entry is stale and no device works for a process that was     *)
(* removed.  Those two things do happen (HallazgoTlb); the theorem says    *)
(* that nothing else goes wrong.                                           *)

-----------------------------------------------------------------------------
(* The invariant of the translations *)

\* What the CPU has translated are frames of its process, of consecutive
\* pages; the last of them is the page before the next one to translate.
TraduccionEnOrden ==
  /\ cpu.fase \in {"traduce", "escribe"} => ToSet(cpu.marcos) \subseteq ToSet(tablas[cpu.pid])
  /\ cpu.fase = "traduce" =>
       /\ \A j \in 1 .. Len(cpu.paginas) : j + 1 <= Len(cpu.paginas) =>
            cpu.paginas[j + 1] = cpu.paginas[j] + 1
       /\ cpu.marcos # <<>> /\ cpu.paginas # <<>> =>
            /\ Head(cpu.paginas) \in 1 .. Paginas(cpu.pid)
            /\ tablas[cpu.pid][Head(cpu.paginas)] = cpu.marcos[Len(cpu.marcos)]

\* What a device still has to touch are frames of its process, which is not
\* in the CPU.
PedidosPropios ==
  /\ \A p \in Cargados : ToSet(io[p]) \subseteq ToSet(tablas[p])
  /\ cpu.fase # "libre" => io[cpu.pid] = <<>>

InvTraduccion == TraduccionEnOrden /\ PedidosPropios

-----------------------------------------------------------------------------
(* Sequences *)

\* The tail of a sequence has no other elements, and the last one stays last.
LEMMA ColaDeSec ==
  ASSUME NEW S, NEW s \in Seq(S), s # <<>>
  PROVE  /\ ToSet(Tail(s)) \subseteq ToSet(s)
         /\ Tail(s) # <<>> => Head(Tail(s)) = s[2] /\ 2 \in 1 .. Len(s)
         /\ Head(s) \in ToSet(s) /\ Head(s) = s[1]
<1>1. /\ Tail(s) \in Seq(S) /\ Len(Tail(s)) = Len(s) - 1 /\ Len(s) \in Nat
      /\ \A j \in 1 .. Len(Tail(s)) : Tail(s)[j] = s[j + 1]
  BY HeadTailProperties
<1>2. \A j \in 1 .. Len(Tail(s)) : j + 1 \in 1 .. Len(s) BY <1>1
<1>3. \A x : x \in ToSet(s) <=> \E j \in 1 .. Len(s) : s[j] = x BY ElementosSec
<1>4. \A x : x \in ToSet(Tail(s)) <=> \E j \in 1 .. Len(Tail(s)) : Tail(s)[j] = x
  BY <1>1, ElementosSec
<1>5. ToSet(Tail(s)) \subseteq ToSet(s) BY <1>1, <1>2, <1>3, <1>4
<1>6. Head(s) = s[1] /\ 1 \in 1 .. Len(s) BY EmptySeq
<1>7. ASSUME Tail(s) # <<>> PROVE Head(Tail(s)) = s[2] /\ 2 \in 1 .. Len(s)
  <2>1. 1 \in 1 .. Len(Tail(s)) /\ Head(Tail(s)) = Tail(s)[1] BY <1>1, <1>7, EmptySeq
  <2>2. QED BY <2>1, <1>1, <1>2
<1>8. QED BY <1>3, <1>5, <1>6, <1>7

\* The elements of a sequence with one more.
LEMMA ElementosAppend ==
  ASSUME NEW S, NEW s \in Seq(S), NEW x \in S
  PROVE  /\ ToSet(Append(s, x)) = ToSet(s) \cup {x}
         /\ Append(s, x)[Len(Append(s, x))] = x
<1> DEFINE t == Append(s, x)
<1>1. /\ t \in Seq(S) /\ Len(t) = Len(s) + 1
      /\ \A j \in 1 .. Len(s) : t[j] = s[j]
      /\ t[Len(s) + 1] = x
  BY AppendProperties
<1>2. Len(s) \in Nat OBVIOUS
<1> HIDE DEF t
<1>3. \A j \in 1 .. Len(t) : j \in 1 .. Len(s) \/ j = Len(s) + 1 BY <1>1, <1>2
<1>4. 1 .. Len(s) \subseteq 1 .. Len(t) /\ Len(s) + 1 \in 1 .. Len(t) BY <1>1, <1>2
<1>5. \A y : y \in ToSet(t) <=> \E j \in 1 .. Len(t) : t[j] = y BY <1>1, ElementosSec
<1>6. \A y : y \in ToSet(s) <=> \E j \in 1 .. Len(s) : s[j] = y BY ElementosSec
<1>7. ToSet(t) = ToSet(s) \cup {x} BY <1>1, <1>3, <1>4, <1>5, <1>6
<1>8. QED BY <1>1, <1>7 DEF t

-----------------------------------------------------------------------------
(* The steps keep the invariant *)

\* The page the MMU asks for is one of its process, and its frame.
LEMMA PaginaPedida ==
  ASSUME Inv, cpu.fase = "traduce", cpu.paginas # <<>>
  PROVE  /\ Head(cpu.paginas) \in Nat
         /\ Head(cpu.paginas) + 1 \in 1 .. Paginas(cpu.pid)
         /\ cpu.pid \in Cargados /\ cpu.pid \in Procesos
         /\ tablas[cpu.pid][Head(cpu.paginas) + 1] \in Marcos
         /\ tablas[cpu.pid][Head(cpu.paginas) + 1] \in ToSet(tablas[cpu.pid])
<1>1. TypeOK /\ CpuConCargado BY DEF Inv
<1>2. cpu.pid \in Cargados /\ cpu.pid \in Procesos /\ cpu.paginas \in Seq(Marcos)
  BY <1>1 DEF CpuConCargado, TypeOK
<1>3. tablas[cpu.pid] \in Seq(Marcos) BY <1>1, <1>2 DEF TypeOK
<1>4. Head(cpu.paginas) \in Marcos /\ Head(cpu.paginas) \in ToSet(cpu.paginas)
  BY <1>2 DEF ToSet
<1>5. Head(cpu.paginas) < Paginas(cpu.pid) BY <1>1, <1>4 DEF CpuConCargado
<1>6. Head(cpu.paginas) \in Nat /\ Paginas(cpu.pid) \in Nat BY <1>3, <1>4 DEF Marcos, Paginas
<1>7. Head(cpu.paginas) + 1 \in 1 .. Paginas(cpu.pid) BY <1>5, <1>6
<1>8. QED BY <1>2, <1>3, <1>6, <1>7, ElementosSec DEF Paginas

\* A hit or a miss gives the frame of the page asked for.
LEMMA MarcoTraducido ==
  ASSUME Inv, TlbVigente, TlbHit \/ TlbMiss
  PROVE  LET m == tablas[cpu.pid][Head(cpu.paginas) + 1]
         IN  /\ cpu.fase = "traduce" /\ cpu.paginas # <<>>
             /\ cpu' = [cpu EXCEPT !.paginas = Tail(@), !.marcos = Append(@, m)]
             /\ UNCHANGED <<nacidos, tablas, bitmap_marcos, memoria, kernel, io>>
<1>1. CASE TlbMiss BY <1>1 DEF TlbMiss
<1>2. CASE TlbHit
  <2> DEFINE k == BuscarMarcoTlb(cpu.pid, Head(cpu.paginas))
  <2>1. cpu.fase = "traduce" /\ cpu.paginas # <<>> /\ k # 0 BY <1>2 DEF TlbHit
  <2>2. k \in 1 .. Len(tlb) /\ tlb[k].pid = cpu.pid /\ tlb[k].pagina = Head(cpu.paginas)
    BY <2>1, EntradaHallada DEF Inv
  <2>3. cpu' = [cpu EXCEPT !.paginas = Tail(@), !.marcos = Append(@, tlb[k].marco)]
    BY <1>2 DEF TlbHit
  <2> HIDE DEF k
  <2>4. tlb \in Seq(Entradas) BY DEF Inv, TypeOK
  <2>5. tlb[k] \in ToSet(tlb) BY <2>2, <2>4, ElementosSec
  <2>6. cpu.pid \in Cargados /\ Head(cpu.paginas) < Paginas(cpu.pid)
    <3>1. /\ Head(cpu.paginas) \in Nat /\ Head(cpu.paginas) + 1 \in 1 .. Paginas(cpu.pid)
          /\ cpu.pid \in Cargados
      BY <2>1, PaginaPedida
    <3>2. Paginas(cpu.pid) \in Nat BY <3>1 DEF Inv, TypeOK, Paginas
    <3>3. QED BY <3>1, <3>2
  <2>7. tlb[k].marco = tablas[cpu.pid][Head(cpu.paginas) + 1]
    BY <2>2, <2>5, <2>6 DEF TlbVigente
  <2>8. QED BY <1>2, <2>1, <2>3, <2>7 DEF TlbHit
<1>3. QED BY <1>1, <1>2

\* Every step from a sane state keeps the translations in order.
LEMMA TraduccionPaso ==
  ASSUME Inv, InvTraduccion, Sano, [Next]_vars
  PROVE  TraduccionEnOrden'
<1>1. /\ TypeOK /\ CpuConCargado /\ TraduccionEnOrden /\ TypeOK' /\ ListaSinReuso
  BY TipoPaso DEF Inv, InvTraduccion
<1>2. ASSUME cpu'.fase \notin {"traduce", "escribe"} PROVE TraduccionEnOrden'
  BY <1>2 DEF TraduccionEnOrden
<1>3. ASSUME cpu' = cpu,
             cpu.fase \in {"traduce", "escribe"} => tablas'[cpu.pid] = tablas[cpu.pid]
      PROVE  TraduccionEnOrden'
  BY <1>1, <1>3 DEF TraduccionEnOrden, Paginas
<1>4. ASSUME NEW p \in Procesos, IniciarProceso(p) \/ SacarDeLista(p) PROVE TraduccionEnOrden'
  <2>1. cpu' = cpu BY <1>4 DEF IniciarProceso, SacarDeLista
  <2>2. cpu.fase # "libre" => tablas'[cpu.pid] = tablas[cpu.pid]
    BY <1>1, <1>4 DEF IniciarProceso, SacarDeLista, CpuConCargado, Cargados, ListaSinReuso
  <2>3. QED BY <2>1, <2>2, <1>3
<1>5. ASSUME NEW n \in 0 .. CANT_MARCOS, ResizeAmplia(n) \/ ReducirProceso(n)
      PROVE  TraduccionEnOrden'
  <2>1. cpu'.fase \in {"ejecuta", "busca"}
    BY <1>1, <1>5 DEF ResizeAmplia, ReducirProceso, TypeOK
  <2>2. QED BY <2>1, <1>2
<1>6. CASE BuscaMarco \/ MarcaOcupados
  <2>1. cpu'.fase \in {"busca", "amplia"} BY <1>1, <1>6 DEF BuscaMarco, MarcaOcupados, TypeOK
  <2>2. QED BY <2>1, <1>2
<1>7. CASE \/ \E p \in Procesos : RecibeProceso(p)
           \/ DevuelveProceso \/ ResizeExcesivo \/ FaltanMarcos \/ AmpliarProceso
           \/ CpuPideIO \/ CpuLee
  <2>1. CpuLibre.fase = "libre" /\ \A p : Ejecutando(p).fase = "ejecuta"
    BY DEF Ejecutando, CpuLibre
  <2>2. QED
    BY <1>2, <1>7, <2>1 DEF RecibeProceso, DevuelveProceso, ResizeExcesivo, FaltanMarcos,
      AmpliarProceso, CpuPideIO, CpuLee
<1>8. ASSUME NEW g \in 0 .. CANT_MARCOS - 1, NEW c \in 1 .. 2, PideAcceso(g, c)
      PROVE  TraduccionEnOrden'
  <2> DEFINE s == [j \in 1 .. c |-> g + j - 1]
  <2>1. cpu = Ejecutando(cpu.pid) /\ cpu.pid \in Cargados
    BY <1>1, <1>8 DEF PideAcceso, CpuConCargado
  <2>2. cpu.marcos = <<>> BY <2>1 DEF Ejecutando, CpuLibre
  <2>3. Len(s) = c
    <3>1. g + c <= CANT_MARCOS
      <4>1. Paginas(cpu.pid) <= CANT_MARCOS /\ Paginas(cpu.pid) \in Nat
        BY <2>1, <1>1 DEF TypeOK, Inv, RepartoExacto, Reparto, Usos, EnUso, Paginas
      <4>2. g + c <= Paginas(cpu.pid) BY <1>8 DEF PideAcceso
      <4>3. QED BY <4>1, <4>2
    <3>2. g \in Nat /\ c \in Nat OBVIOUS
    <3>3. QED BY <3>1, <3>2, PaginasSeguidas
  <2>4. \A j \in 1 .. Len(s) : j + 1 <= Len(s) => s[j + 1] = s[j] + 1
    BY <2>3
  <2> HIDE DEF s
  <2>5. /\ cpu'.fase = "traduce" /\ cpu'.paginas = s /\ cpu'.marcos = <<>>
    BY <1>1, <1>8, <2>2 DEF PideAcceso, TypeOK, s
  <2>6. QED BY <2>4, <2>5, ElementosVacia DEF TraduccionEnOrden
<1>9. CASE TlbHit \/ TlbMiss
  <2> DEFINE g == cpu.paginas
             m == tablas[cpu.pid][Head(g) + 1]
  <2>1. /\ cpu.fase = "traduce" /\ g # <<>> /\ g \in Seq(Marcos) /\ cpu.marcos \in Seq(Marcos)
        /\ cpu' = [cpu EXCEPT !.paginas = Tail(@), !.marcos = Append(@, m)]
        /\ tablas' = tablas
    BY <1>1, <1>9, MarcoTraducido DEF Sano, TypeOK
  <2>2. /\ Head(g) + 1 \in 1 .. Paginas(cpu.pid)
        /\ m \in Marcos /\ m \in ToSet(tablas[cpu.pid])
    BY <2>1, PaginaPedida
  <2> HIDE DEF g, m
  <2>3. /\ cpu'.fase = "traduce" /\ cpu'.paginas = Tail(g) /\ cpu'.marcos = Append(cpu.marcos, m)
        /\ cpu'.pid = cpu.pid
    BY <1>1, <2>1 DEF TypeOK, g
  <2>4. ToSet(cpu'.marcos) \subseteq ToSet(tablas'[cpu'.pid])
    <3>1. ToSet(cpu'.marcos) = ToSet(cpu.marcos) \cup {m} BY <2>1, <2>2, <2>3, ElementosAppend
    <3>2. QED BY <3>1, <2>1, <2>2, <2>3, <1>1 DEF TraduccionEnOrden
  <2>5. \A j \in 1 .. Len(g) : j + 1 <= Len(g) => g[j + 1] = g[j] + 1
    BY <1>1, <2>1 DEF TraduccionEnOrden, g
  <2>6. \A j \in 1 .. Len(Tail(g)) : j + 1 <= Len(Tail(g)) => Tail(g)[j + 1] = Tail(g)[j] + 1
    <3>1. /\ Len(Tail(g)) = Len(g) - 1 /\ Len(g) \in Nat
          /\ \A j \in 1 .. Len(Tail(g)) : Tail(g)[j] = g[j + 1]
      BY <2>1, HeadTailProperties
    <3>2. ASSUME NEW j \in 1 .. Len(Tail(g)), j + 1 <= Len(Tail(g))
          PROVE  Tail(g)[j + 1] = Tail(g)[j] + 1
      <4>1. j + 1 \in 1 .. Len(Tail(g)) /\ j + 1 \in 1 .. Len(g) /\ (j + 1) + 1 <= Len(g)
        BY <3>1, <3>2
      <4>2. QED BY <3>1, <4>1, <2>5
    <3>3. QED BY <3>2
  <2>7. ASSUME Tail(g) # <<>>
        PROVE  /\ Head(Tail(g)) \in 1 .. Paginas(cpu.pid)
               /\ tablas[cpu.pid][Head(Tail(g))] = m
    <3>1. Head(Tail(g)) = g[2] /\ Head(g) = g[1] /\ 2 \in 1 .. Len(g)
      BY <2>1, <2>7, ColaDeSec
    <3>2. 1 \in 1 .. Len(g) /\ 1 + 1 <= Len(g) BY <3>1, <2>1
    <3>3. g[2] = g[1] + 1 BY <3>2, <2>5
    <3>4. QED BY <3>1, <3>3, <2>2 DEF m
  <2>8. cpu'.marcos[Len(cpu'.marcos)] = m BY <2>1, <2>2, <2>3, ElementosAppend
  <2>9. Paginas(cpu.pid)' = Paginas(cpu.pid) BY <2>1, <2>3 DEF Paginas
  <2>10. QED BY <2>1, <2>3, <2>4, <2>6, <2>7, <2>8, <2>9 DEF TraduccionEnOrden
<1>10. ASSUME NEW d \in Datos, CpuEscribe(d) PROVE TraduccionEnOrden'
  <2>1. CASE Len(cpu.marcos) = 1
    <3>1. cpu'.fase = "ejecuta" BY <1>10, <2>1 DEF CpuEscribe, Ejecutando, CpuLibre
    <3>2. QED BY <3>1, <1>2
  <2>2. CASE Len(cpu.marcos) # 1
    <3>1. /\ cpu'.fase = "escribe" /\ cpu'.marcos = Tail(cpu.marcos) /\ cpu'.pid = cpu.pid
          /\ tablas' = tablas /\ cpu.fase \in {"traduce", "escribe"}
      BY <1>1, <1>10, <2>2 DEF CpuEscribe, TypeOK
    <3>2. cpu.marcos \in Seq(Marcos) /\ cpu.marcos # <<>>
      BY <1>1, <1>10 DEF TypeOK, CpuConCargado, CpuEscribe
    <3>3. ToSet(Tail(cpu.marcos)) \subseteq ToSet(cpu.marcos) BY <3>2, ColaDeSec
    <3>4. QED BY <3>1, <3>3, <1>1 DEF TraduccionEnOrden
  <2>3. QED BY <2>1, <2>2
<1>11. CASE \/ UNCHANGED vars \/ LiberarTodas \/ (\E p \in Procesos : DispositivoLee(p))
            \/ (\E p \in Procesos, d \in Datos : DispositivoEscribe(p, d))
  BY <1>3, <1>11 DEF vars, LiberarTodas, DispositivoLee, DispositivoEscribe
<1>12. QED
  BY <1>4, <1>5, <1>6, <1>7, <1>8, <1>9, <1>10, <1>11, PasosMemoria

\* So does it keep the requests of the devices on frames of their process.
LEMMA PedidosPaso ==
  ASSUME Inv, InvTraduccion, Sano, [Next]_vars
  PROVE  PedidosPropios'
<1>1. /\ TypeOK /\ CpuConCargado /\ PedidosPropios /\ TraduccionEnOrden /\ TypeOK'
      /\ ListaSinReuso
  BY TipoPaso DEF Inv, InvTraduccion
<1>2. ASSUME io' = io, \A p \in Cargados' : p \in Cargados /\ tablas'[p] = tablas[p],
             cpu'.fase # "libre" => cpu.fase # "libre" /\ cpu'.pid = cpu.pid
      PROVE  PedidosPropios'
  BY <1>1, <1>2 DEF PedidosPropios
<1>3. ASSUME UNCHANGED <<io, tablas>>,
             cpu'.fase # "libre" => cpu.fase # "libre" /\ cpu'.pid = cpu.pid
      PROVE  PedidosPropios'
  BY <1>2, <1>3 DEF Cargados
<1>4. ASSUME NEW p \in Procesos, IniciarProceso(p) PROVE PedidosPropios'
  <2>1. /\ p \notin Cargados /\ Cargados' = Cargados \cup {p} /\ tablas'[p] = <<>>
        /\ \A q \in Cargados : tablas'[q] = tablas[q]
        /\ UNCHANGED <<cpu, io>>
    BY <1>1, <1>4 DEF IniciarProceso, ListaSinReuso, Cargados
  <2>2. io[p] = <<>> BY <2>1 DEF Sano, SinIOHuerfana
  <2>3. QED BY <2>1, <2>2, <1>1, ElementosVacia DEF PedidosPropios
<1>5. ASSUME NEW p \in Procesos, SacarDeLista(p) PROVE PedidosPropios'
  BY <1>2, <1>5 DEF SacarDeLista, Cargados
<1>6. ASSUME NEW p \in Procesos, RecibeProceso(p) PROVE PedidosPropios'
  <2>1. cpu'.pid = p BY <1>6 DEF RecibeProceso, Ejecutando, CpuLibre
  <2>2. io[p] = <<>> /\ io' = io /\ tablas' = tablas BY <1>6 DEF RecibeProceso
  <2>3. QED BY <2>1, <2>2, <1>1 DEF PedidosPropios, Cargados
<1>7. CASE DevuelveProceso \/ ResizeExcesivo \/ FaltanMarcos
  <2>1. cpu'.fase = "libre" BY <1>7 DEF DevuelveProceso, ResizeExcesivo, FaltanMarcos, CpuLibre
  <2>2. QED BY <2>1, <1>3, <1>7 DEF DevuelveProceso, ResizeExcesivo, FaltanMarcos
<1>8. CASE \/ BuscaMarco \/ MarcaOcupados \/ TlbHit \/ TlbMiss
           \/ (\E n \in 0 .. CANT_MARCOS : ResizeAmplia(n))
           \/ (\E g \in 0 .. CANT_MARCOS - 1, c \in 1 .. 2 : PideAcceso(g, c))
  <2>1. cpu.fase # "libre" /\ cpu'.pid = cpu.pid /\ UNCHANGED <<io, tablas>>
    <3>1. cpu.fase # "libre" /\ UNCHANGED <<io, tablas>>
      BY <1>8 DEF BuscaMarco, MarcaOcupados, TlbHit, TlbMiss, ResizeAmplia, PideAcceso
    <3>2. CASE BuscaMarco \/ MarcaOcupados \/ TlbHit \/ TlbMiss
      BY <1>1, <3>1, <3>2 DEF BuscaMarco, MarcaOcupados, TlbHit, TlbMiss, TypeOK
    <3>3. CASE \/ (\E n \in 0 .. CANT_MARCOS : ResizeAmplia(n))
               \/ (\E g \in 0 .. CANT_MARCOS - 1, c \in 1 .. 2 : PideAcceso(g, c))
      BY <1>1, <3>1, <3>3 DEF ResizeAmplia, PideAcceso, TypeOK
    <3>4. QED BY <1>8, <3>2, <3>3
  <2>2. QED BY <2>1, <1>3
<1>9. CASE AmpliarProceso \/ (\E n \in 0 .. CANT_MARCOS : ReducirProceso(n))
  <2>1. /\ cpu.fase # "libre" /\ cpu'.pid = cpu.pid /\ cpu.pid \in Cargados
        /\ io' = io /\ Cargados' = Cargados
        /\ \A q \in Cargados : q # cpu.pid => tablas'[q] = tablas[q]
    BY <1>1, <1>9 DEF AmpliarProceso, ReducirProceso, Ejecutando, CpuLibre, CpuConCargado,
      Cargados, TypeOK
  <2>2. io[cpu.pid] = <<>> BY <2>1, <1>1 DEF PedidosPropios
  <2>3. QED BY <2>1, <2>2, <1>1, ElementosVacia DEF PedidosPropios
<1>10. CASE CpuLee \/ \E d \in Datos : CpuEscribe(d)
  <2>1. cpu.fase # "libre" /\ UNCHANGED <<io, tablas>>
    BY <1>10 DEF CpuLee, CpuEscribe
  <2>2. cpu'.pid = cpu.pid
    BY <1>1, <1>10 DEF CpuLee, CpuEscribe, Ejecutando, CpuLibre, TypeOK
  <2>3. QED BY <2>1, <2>2, <1>3
<1>11. CASE CpuPideIO
  <2>1. /\ cpu.fase = "traduce" /\ cpu.pid \in Cargados /\ cpu.pid \in Procesos
        /\ io' = [io EXCEPT ![cpu.pid] = cpu.marcos] /\ tablas' = tablas
        /\ cpu'.fase = "libre"
    BY <1>1, <1>11 DEF CpuPideIO, CpuConCargado, CpuLibre, TypeOK
  <2>2. ToSet(cpu.marcos) \subseteq ToSet(tablas[cpu.pid])
    BY <2>1, <1>1 DEF TraduccionEnOrden
  <2>3. \A p \in Cargados : io'[p] = IF p = cpu.pid THEN cpu.marcos ELSE io[p]
    BY <2>1, <1>1 DEF TypeOK
  <2>4. QED BY <2>1, <2>2, <2>3, <1>1 DEF PedidosPropios, Cargados
<1>12. ASSUME NEW p \in Procesos, NEW s \in {<<>>, Tail(io[p])}, io[p] # <<>>,
              io' = [io EXCEPT ![p] = s], UNCHANGED <<tablas, cpu>>
       PROVE  PedidosPropios'
  <2>1. io[p] \in Seq(Marcos) BY <1>1 DEF TypeOK
  <2>2. ToSet(s) \subseteq ToSet(io[p]) BY <2>1, <1>12, ColaDeSec, ElementosVacia
  <2>3. \A q \in Procesos : io'[q] = IF q = p THEN s ELSE io[q] BY <1>1, <1>12 DEF TypeOK
  <2>4. cpu.fase # "libre" => cpu.pid # p /\ cpu.pid \in Procesos
    BY <1>1, <1>12 DEF PedidosPropios, CpuConCargado, TypeOK
  <2>5. Cargados \subseteq Procesos BY <1>1 DEF TypeOK
  <2>6. QED BY <2>2, <2>3, <2>4, <2>5, <1>1, <1>12 DEF PedidosPropios, Cargados
<1>13. ASSUME NEW p \in Procesos, DispositivoLee(p) PROVE PedidosPropios'
  BY <1>12, <1>13 DEF DispositivoLee
<1>14. ASSUME NEW p \in Procesos, NEW d \in Datos, DispositivoEscribe(p, d) PROVE PedidosPropios'
  <2>1. /\ io[p] # <<>> /\ UNCHANGED <<tablas, cpu>>
        /\ io' = [io EXCEPT ![p] = Tail(io[p])]
    BY <1>14 DEF DispositivoEscribe
  <2>2. QED BY <1>12, <2>1
<1>15. CASE UNCHANGED vars \/ LiberarTodas
  BY <1>3, <1>15 DEF vars, LiberarTodas
<1>16. QED
  BY <1>4, <1>5, <1>6, <1>7, <1>8, <1>9, <1>10, <1>11, <1>13, <1>14, <1>15, PasosMemoria

\* Initially nothing is translated and nothing is asked for.
LEMMA TraduccionInicial == Init => InvTraduccion
BY ElementosVacia DEF Init, InvTraduccion, TraduccionEnOrden, PedidosPropios, CpuLibre, Cargados

-----------------------------------------------------------------------------
(* The private address spaces *)

\* Where a table that repeats nothing has a frame.
Posicion(s, m) == SelectInSeq(s, LAMBDA x : x = m)

\* The positions in a table of a sequence of frames.
PaginasEn(tabla, s) == [j \in DOMAIN s |-> Posicion(tabla, s[j])]

\* A table that repeats no frame has each one at a single position.
LEMMA PosicionUnica ==
  ASSUME NEW s \in Seq(Marcos), SinRepetir(s), NEW j \in 1 .. Len(s)
  PROVE  Posicion(s, s[j]) = j
<1> DEFINE I == {i \in 1 .. Len(s) : s[i] = s[j]}
<1>1. Posicion(s, s[j]) = IF I # {} THEN Min(I) ELSE 0 BY DEF Posicion, SelectInSeq
<1>2. I = {j} BY DEF SinRepetir
<1>3. Min({j}) = j BY DEF Min
<1>4. QED BY <1>1, <1>2, <1>3

\* The pages of a sequence of frames, one by one.
LEMMA PaginasFormula ==
  ASSUME NEW tabla, NEW s \in Seq(Marcos)
  PROVE  /\ DOMAIN PaginasEn(tabla, s) = 1 .. Len(s)
         /\ \A j \in 1 .. Len(s) : PaginasEn(tabla, s)[j] = Posicion(tabla, s[j])
<1>1. DOMAIN s = 1 .. Len(s) OBVIOUS
<1>2. QED BY <1>1 DEF PaginasEn

\* The frames of a process are pages of it.
LEMMA PaginasEnTabla ==
  ASSUME NEW tabla \in Seq(Marcos), SinRepetir(tabla), NEW s \in Seq(Marcos),
         ToSet(s) \subseteq ToSet(tabla)
  PROVE  /\ PaginasEn(tabla, s) \in Seq(1 .. Len(tabla)) /\ Len(PaginasEn(tabla, s)) = Len(s)
         /\ \A j \in 1 .. Len(s) : /\ PaginasEn(tabla, s)[j] \in 1 .. Len(tabla)
                                   /\ tabla[PaginasEn(tabla, s)[j]] = s[j]
<1>1. tabla \in Seq(Marcos) /\ SinRepetir(tabla) OBVIOUS
<1>2. ASSUME NEW j \in 1 .. Len(s)
      PROVE  /\ PaginasEn(tabla, s)[j] \in 1 .. Len(tabla)
             /\ tabla[PaginasEn(tabla, s)[j]] = s[j]
  <2>1. s[j] \in ToSet(tabla) BY ElementosSec
  <2>2. PICK i \in 1 .. Len(tabla) : tabla[i] = s[j] BY <2>1, <1>1, ElementosSec
  <2>3. Posicion(tabla, s[j]) = i BY <2>2, <1>1, PosicionUnica
  <2>4. QED BY <2>2, <2>3, PaginasFormula
<1>3. PaginasEn(tabla, s) \in [1 .. Len(s) -> 1 .. Len(tabla)]
  <2>1. PaginasEn(tabla, s) = [j \in DOMAIN s |-> Posicion(tabla, s[j])]
    BY DEF PaginasEn
  <2>2. DOMAIN s = 1 .. Len(s) OBVIOUS
  <2>3. \A j \in DOMAIN s : Posicion(tabla, s[j]) \in 1 .. Len(tabla)
    BY <1>2, <2>2, PaginasFormula
  <2>4. QED BY <2>1, <2>2, <2>3
<1>4. Len(s) \in Nat OBVIOUS
<1>5. PaginasEn(tabla, s) \in Seq(1 .. Len(tabla))
  <2> DEFINE f == PaginasEn(tabla, s)
             n == Len(s)
             T == 1 .. Len(tabla)
  <2>1. f \in [1 .. n -> T] /\ n \in Nat BY <1>3, <1>4
  <2> HIDE DEF f, n, T
  <2>2. f \in Seq(T) BY <2>1
  <2>3. QED BY <2>2 DEF f, T
<1>6. Len(PaginasEn(tabla, s)) = Len(s) BY <1>5, <1>4, PaginasFormula
<1>7. QED BY <1>2, <1>5, <1>6

\* No frames, no pages.
LEMMA SinPaginas == \A tabla : PaginasEn(tabla, <<>>) = <<>>
<1> SUFFICES ASSUME NEW tabla PROVE PaginasEn(tabla, <<>>) = <<>> OBVIOUS
<1>1. <<>> \in Seq(Marcos) /\ Len(<<>>) = 0 OBVIOUS
<1>2. PaginasEn(tabla, <<>>) = [j \in DOMAIN <<>> |-> Posicion(tabla, <<>>[j])]
  BY DEF PaginasEn
<1>3. DOMAIN <<>> = {} OBVIOUS
<1>4. QED BY <1>2, <1>3

\* One more frame is one more page; the first frame is the first page.
LEMMA PaginasAppend ==
  ASSUME NEW tabla \in Seq(Marcos), SinRepetir(tabla), NEW s \in Seq(Marcos),
         ToSet(s) \subseteq ToSet(tabla), NEW i \in 1 .. Len(tabla)
  PROVE  PaginasEn(tabla, Append(s, tabla[i])) = Append(PaginasEn(tabla, s), i)
<1> DEFINE m == tabla[i]
           t == Append(s, m)
           a == PaginasEn(tabla, t)
           b == Append(PaginasEn(tabla, s), i)
<1>1. tabla \in Seq(Marcos) /\ SinRepetir(tabla) OBVIOUS
<1>2. m \in Marcos /\ m \in ToSet(tabla) BY <1>1, ElementosSec
<1>3. Posicion(tabla, m) = i BY <1>1, PosicionUnica
<1> HIDE DEF m
<1>4. /\ t \in Seq(Marcos) /\ Len(t) = Len(s) + 1 /\ ToSet(t) \subseteq ToSet(tabla)
      /\ \A j \in 1 .. Len(s) : t[j] = s[j]
      /\ t[Len(s) + 1] = m
  BY <1>2, AppendProperties, ElementosAppend
<1> HIDE DEF t
<1>5. /\ PaginasEn(tabla, s) \in Seq(1 .. Len(tabla)) /\ Len(PaginasEn(tabla, s)) = Len(s)
  BY PaginasEnTabla
<1>6. /\ b \in Seq(1 .. Len(tabla)) /\ Len(b) = Len(s) + 1
      /\ \A j \in 1 .. Len(s) : b[j] = PaginasEn(tabla, s)[j]
      /\ b[Len(s) + 1] = i
  BY <1>5, AppendProperties
<1>7. a \in Seq(1 .. Len(tabla)) /\ Len(a) = Len(s) + 1 BY <1>4, PaginasEnTabla
<1>8. \A j \in 1 .. Len(s) : a[j] = Posicion(tabla, t[j]) /\ b[j] = Posicion(tabla, s[j])
  <2>1. Len(s) \in Nat /\ \A j \in 1 .. Len(s) : j \in 1 .. Len(t) BY <1>4
  <2>2. \A j \in 1 .. Len(t) : a[j] = Posicion(tabla, t[j]) BY <1>4, PaginasFormula
  <2>3. \A j \in 1 .. Len(s) : PaginasEn(tabla, s)[j] = Posicion(tabla, s[j])
    BY PaginasFormula
  <2> HIDE DEF a, b
  <2>4. QED BY <2>1, <2>2, <2>3, <1>6
<1>9. a[Len(s) + 1] = i
  <2>1. Len(s) + 1 \in 1 .. Len(t) BY <1>4
  <2>2. a[Len(s) + 1] = Posicion(tabla, t[Len(s) + 1])
    BY <2>1, <1>4, PaginasFormula
  <2>3. QED BY <2>2, <1>3, <1>4
<1> HIDE DEF a, b
<1>10. \A j \in 1 .. Len(a) : a[j] = b[j]
  <2>1. Len(s) \in Nat /\ \A j \in 1 .. Len(a) : j \in 1 .. Len(s) \/ j = Len(s) + 1 BY <1>7
  <2>2. QED BY <2>1, <1>4, <1>6, <1>8, <1>9
<1>11. a = b BY <1>6, <1>7, <1>10, SeqEqual
<1>12. QED BY <1>11 DEF a, b, t, m

\* The first of the pages still to touch, and the pages after it.
LEMMA PaginasTail ==
  ASSUME NEW tabla \in Seq(Marcos), SinRepetir(tabla), NEW s \in Seq(Marcos), s # <<>>,
         ToSet(s) \subseteq ToSet(tabla)
  PROVE  /\ PaginasEn(tabla, s) # <<>>
         /\ Head(PaginasEn(tabla, s)) \in 1 .. Len(tabla)
         /\ tabla[Head(PaginasEn(tabla, s))] = Head(s)
         /\ PaginasEn(tabla, Tail(s)) = Tail(PaginasEn(tabla, s))
<1> DEFINE a == PaginasEn(tabla, s)
           b == PaginasEn(tabla, Tail(s))
<1>1. Len(s) \in Nat \ {0} BY EmptySeq
<1>2. /\ Tail(s) \in Seq(Marcos) /\ Len(Tail(s)) = Len(s) - 1
      /\ \A j \in 1 .. Len(Tail(s)) : Tail(s)[j] = s[j + 1]
  BY HeadTailProperties
<1>3. ToSet(Tail(s)) \subseteq ToSet(tabla) /\ Head(s) = s[1] BY ColaDeSec
<1>4. /\ a \in Seq(1 .. Len(tabla)) /\ Len(a) = Len(s)
      /\ \A j \in 1 .. Len(s) : a[j] \in 1 .. Len(tabla) /\ tabla[a[j]] = s[j]
  BY PaginasEnTabla
<1>5. b \in Seq(1 .. Len(tabla)) /\ Len(b) = Len(s) - 1 BY <1>2, <1>3, PaginasEnTabla
<1>6. \A j \in 1 .. Len(s) : a[j] = Posicion(tabla, s[j]) BY PaginasFormula
<1>7. \A j \in 1 .. Len(Tail(s)) : b[j] = Posicion(tabla, Tail(s)[j])
  BY <1>2, PaginasFormula
<1> HIDE DEF a, b
<1>8. a # <<>> /\ Head(a) = a[1] /\ 1 \in 1 .. Len(s) BY <1>1, <1>4
<1>9. /\ Tail(a) \in Seq(1 .. Len(tabla)) /\ Len(Tail(a)) = Len(s) - 1
      /\ \A j \in 1 .. Len(Tail(a)) : Tail(a)[j] = a[j + 1]
  BY <1>4, <1>8, HeadTailProperties
<1>10. \A j \in 1 .. Len(b) : b[j] = Tail(a)[j]
  <2>1. \A j \in 1 .. Len(b) : j \in 1 .. Len(Tail(s)) /\ j \in 1 .. Len(Tail(a)) /\ j + 1 \in 1 .. Len(s)
    BY <1>1, <1>2, <1>5, <1>9
  <2>2. QED BY <2>1, <1>2, <1>6, <1>7, <1>9
<1>11. b = Tail(a) BY <1>5, <1>9, <1>10, SeqEqual
<1>12. QED BY <1>3, <1>4, <1>8, <1>11 DEF a, b

\* The values the instance Logico gives to the variables of EspacioLogico.
EspacioL == [p \in Cargados |-> [j \in DOMAIN tablas[p] |-> memoria[tablas[p][j]]]]
AccesoL  == IF cpu.fase \in {"traduce", "escribe"} THEN PaginasDe(cpu.pid, cpu.marcos) ELSE <<>>
PedidosL == [p \in Procesos |-> IF p \in Cargados THEN PaginasDe(p, io[p]) ELSE <<>>]
VarsL    == <<EspacioL, cpu.pid, AccesoL, PedidosL>>

\* A step that keeps what VarsL shows keeps the variables of EspacioLogico.
LEMMA VariablesLogicas == VarsL' = VarsL => UNCHANGED Logico!vars
BY Zenon DEF Logico!vars, VarsL, EspacioL, AccesoL, PedidosL

\* The pages the CPU and the devices are at, before and after a step.
LEMMA AccesoFormula ==
  LET traduce == cpu.fase \in {"traduce", "escribe"}
  IN  /\ AccesoL = IF traduce THEN PaginasEn(tablas[cpu.pid], cpu.marcos) ELSE <<>>
      /\ AccesoL' = IF traduce' THEN PaginasEn(tablas'[cpu'.pid], cpu'.marcos) ELSE <<>>
<1>1. PaginasDe(cpu.pid, cpu.marcos) = PaginasEn(tablas[cpu.pid], cpu.marcos)
  BY DEF PaginasDe, PaginasEn, Posicion
<1>2. PaginasDe(cpu.pid, cpu.marcos)' = PaginasEn(tablas'[cpu'.pid], cpu'.marcos)
  BY DEF PaginasDe, PaginasEn, Posicion, SelectInSeq, Min
<1>3. QED BY <1>1, <1>2 DEF AccesoL

\* The pages each device is at, before and after a step.
LEMMA PedidosFormula ==
  /\ PedidosL = [p \in Procesos |-> IF p \in Cargados THEN PaginasEn(tablas[p], io[p]) ELSE <<>>]
  /\ PedidosL' = [p \in Procesos |-> IF p \in Cargados' THEN PaginasEn(tablas'[p], io'[p])
                                     ELSE <<>>]
<1>1. \A p \in Procesos : PaginasDe(p, io[p]) = PaginasEn(tablas[p], io[p])
  BY DEF PaginasDe, PaginasEn, Posicion
<1>2. \A p \in Procesos : PaginasDe(p, io[p])' = PaginasEn(tablas'[p], io'[p])
  BY DEF PaginasDe, PaginasEn, Posicion, SelectInSeq, Min
<1>3. QED BY <1>1, <1>2 DEF PedidosL

-----------------------------------------------------------------------------
(* The steps of EspacioLogico, in the values of the instance *)

\* The contents of the pages of each loaded process.
LEMMA EspacioFormula ==
  /\ DOMAIN EspacioL = Cargados
  /\ \A q \in Cargados :
       EspacioL[q] = [j \in DOMAIN tablas[q] |-> memoria[tablas[q][j]]]
  /\ Logico!Cargados = Cargados
BY DEF EspacioL, Logico!Cargados

\* The steps that change the set of processes.
LEMMA PasoIniciar ==
  ASSUME NEW p \in Procesos, p \notin Cargados,
         EspacioL' = [q \in Cargados \cup {p} |-> IF q = p THEN <<>> ELSE EspacioL[q]],
         UNCHANGED <<cpu.pid, AccesoL, PedidosL>>
  PROVE  Logico!Next
<1>1. Logico!Iniciar(p)
  BY EspacioFormula DEF Logico!Iniciar, EspacioL, AccesoL, PedidosL
<1>2. QED BY <1>1 DEF Logico!Next

\* Removing a process takes its pages and what a device was to do in them.
LEMMA PasoEliminar ==
  ASSUME NEW p \in Procesos, p \in Cargados, p # cpu.pid,
         EspacioL' = [q \in Cargados \ {p} |-> EspacioL[q]],
         PedidosL' = [PedidosL EXCEPT ![p] = <<>>],
         UNCHANGED <<cpu.pid, AccesoL>>
  PROVE  Logico!Next
<1>1. Logico!Eliminar(p)
  BY EspacioFormula DEF Logico!Eliminar, EspacioL, AccesoL, PedidosL
<1>2. QED BY <1>1 DEF Logico!Next

\* The steps that change the process in the CPU.
LEMMA PasoDespachar ==
  ASSUME NEW p \in Procesos, cpu.pid = Nadie, p \in Cargados, PedidosL[p] = <<>>,
         cpu'.pid = p, UNCHANGED <<EspacioL, AccesoL, PedidosL>>
  PROVE  Logico!Next
<1>1. Logico!Despachar(p)
  BY EspacioFormula DEF Logico!Despachar, EspacioL, AccesoL, PedidosL
<1>2. QED BY <1>1 DEF Logico!Next

\* The CPU gives the process back between two accesses.
LEMMA PasoDevolver ==
  ASSUME cpu.pid \in Cargados, AccesoL = <<>>, cpu'.pid = Nadie,
         UNCHANGED <<EspacioL, AccesoL, PedidosL>>
  PROVE  Logico!Next
<1>1. Logico!Devolver
  BY EspacioFormula DEF Logico!Devolver, Logico!EnCalma, EspacioL, AccesoL, PedidosL
<1>2. QED BY <1>1 DEF Logico!Next

\* The CPU gives the process back and a device takes its access over.
LEMMA PasoPedirIO ==
  ASSUME AccesoL # <<>>, AccesoL' = <<>>, PedidosL' = [PedidosL EXCEPT ![cpu.pid] = AccesoL],
         cpu'.pid = Nadie, UNCHANGED EspacioL
  PROVE  Logico!Next
<1>1. Logico!PedirIO
  BY DEF Logico!PedirIO, EspacioL, AccesoL, PedidosL
<1>2. QED BY <1>1 DEF Logico!Next

\* The steps of a RESIZE and of an access.
LEMMA PasoRedimensionar ==
  ASSUME cpu.pid \in Cargados, AccesoL = <<>>, NEW n \in 0 .. CANT_MARCOS,
         NEW nuevo \in [1 .. n -> Datos],
         \A i \in 1 .. n : i <= Len(EspacioL[cpu.pid]) => nuevo[i] = EspacioL[cpu.pid][i],
         EspacioL' = [EspacioL EXCEPT ![cpu.pid] = nuevo],
         UNCHANGED <<cpu.pid, AccesoL, PedidosL>>
  PROVE  Logico!Next
<1>1. Logico!Redimensionar(n)
  BY EspacioFormula DEF Logico!Redimensionar, Logico!EnCalma, EspacioL, AccesoL, PedidosL
<1>2. QED BY <1>1 DEF Logico!Next

\* An instruction designates the page after the last it designated.
LEMMA PasoDesignar ==
  ASSUME NEW i \in 0 .. CANT_MARCOS, cpu.pid \in Cargados, i \in DOMAIN EspacioL[cpu.pid],
         AccesoL # <<>> => i = AccesoL[Len(AccesoL)] + 1,
         AccesoL' = Append(AccesoL, i),
         UNCHANGED <<EspacioL, cpu.pid, PedidosL>>
  PROVE  Logico!Next
<1>1. Logico!Designar(i)
  BY EspacioFormula DEF Logico!Designar, EspacioL, AccesoL, PedidosL
<1>2. QED BY <1>1 DEF Logico!Next

\* A read touches what remains of the access at once.
LEMMA PasoLeer ==
  ASSUME AccesoL # <<>>, AccesoL' = <<>>, UNCHANGED <<EspacioL, cpu.pid, PedidosL>>
  PROVE  Logico!Next
<1>1. Logico!Leer BY DEF Logico!Leer, EspacioL, AccesoL, PedidosL
<1>2. QED BY <1>1 DEF Logico!Next

\* A write touches the next page of the access.
LEMMA PasoEscribir ==
  ASSUME NEW d \in Datos, AccesoL # <<>>,
         EspacioL' = [EspacioL EXCEPT ![cpu.pid][Head(AccesoL)] = d],
         AccesoL' = Tail(AccesoL), UNCHANGED <<cpu.pid, PedidosL>>
  PROVE  Logico!Next
<1>1. Logico!Escribir(d) BY DEF Logico!Escribir, EspacioL, AccesoL, PedidosL
<1>2. QED BY <1>1 DEF Logico!Next

\* The steps of a device.
LEMMA PasoDispositivoLee ==
  ASSUME NEW p \in Procesos, PedidosL[p] # <<>>, PedidosL' = [PedidosL EXCEPT ![p] = <<>>],
         UNCHANGED <<EspacioL, cpu.pid, AccesoL>>
  PROVE  Logico!Next
<1>1. Logico!DispositivoLee(p)
  BY DEF Logico!DispositivoLee, EspacioL, AccesoL, PedidosL
<1>2. QED BY <1>1 DEF Logico!Next

\* A device writes the next page of its request.
LEMMA PasoDispositivoEscribe ==
  ASSUME NEW p \in Procesos, NEW d \in Datos, p \in Cargados, PedidosL[p] # <<>>,
         EspacioL' = [EspacioL EXCEPT ![p][Head(PedidosL[p])] = d],
         PedidosL' = [PedidosL EXCEPT ![p] = Tail(@)],
         UNCHANGED <<cpu.pid, AccesoL>>
  PROVE  Logico!Next
<1>1. Logico!DispositivoEscribe(p, d)
  BY EspacioFormula DEF Logico!DispositivoEscribe, EspacioL, AccesoL, PedidosL
<1>2. QED BY <1>1 DEF Logico!Next

-----------------------------------------------------------------------------
(* The simulation *)

\* What of the address spaces a step leaves alone.
LEMMA AccesoIgual ==
  ASSUME \/ UNCHANGED <<tablas, cpu>>
         \/ cpu' = cpu /\ (cpu.fase # "libre" => tablas'[cpu.pid] = tablas[cpu.pid])
         \/ AccesoL = <<>> /\ cpu'.fase \notin {"traduce", "escribe"}
  PROVE  AccesoL' = AccesoL
BY AccesoFormula

\* The requests of the devices stay when only tables without one change.
LEMMA PedidosIgual ==
  ASSUME UNCHANGED io, Cargados' = Cargados,
         \A p \in Cargados : tablas'[p] = tablas[p] \/ io[p] = <<>>
  PROVE  PedidosL' = PedidosL
<1>1. \A p \in Cargados : PaginasEn(tablas'[p], io'[p]) = PaginasEn(tablas[p], io[p])
  BY SinPaginas
<1>2. QED BY <1>1, PedidosFormula

\* The contents of the pages stay when neither tables nor memory change.
LEMMA EspacioIgual == UNCHANGED <<tablas, memoria>> => EspacioL' = EspacioL
BY DEF EspacioL, Cargados

\* The page table of a loaded process repeats no frame and shares none.
LEMMA TablaPropia ==
  ASSUME Inv, NEW p \in Cargados
  PROVE  /\ p \in Procesos /\ tablas[p] \in Seq(Marcos) /\ SinRepetir(tablas[p])
         /\ Paginas(p) = Len(tablas[p]) /\ Paginas(p) \in 0 .. CANT_MARCOS
         /\ DOMAIN tablas[p] = 1 .. Paginas(p)
         /\ \A q \in Cargados : q # p => ToSet(tablas[q]) \cap ToSet(tablas[p]) = {}
<1>1. TypeOK /\ RepartoExacto /\ p \in Procesos BY DEF Inv, TypeOK
<1>2. tablas[p] \in Seq(Marcos) /\ Usos[p] = tablas[p] BY <1>1 DEF TypeOK, Usos, EnUso
<1>3. \A q \in Cargados : q \in Procesos /\ Usos[q] = tablas[q] BY <1>1 DEF TypeOK, Usos, EnUso
<1>4. SinRepetir(tablas[p]) /\ Len(tablas[p]) <= CANT_MARCOS
  BY <1>1, <1>2 DEF RepartoExacto, Reparto
<1>5. \A q \in Cargados : q # p => ToSet(tablas[q]) \cap ToSet(tablas[p]) = {}
  BY <1>1, <1>2, <1>3 DEF RepartoExacto, Reparto
<1>6. QED BY <1>1, <1>2, <1>4, <1>5 DEF Paginas

\* Writing in a frame of a process changes that page, and nothing else.
LEMMA EscribirPagina ==
  ASSUME Inv, NEW p \in Cargados, NEW i \in 1 .. Paginas(p), NEW d \in Datos,
         tablas' = tablas, memoria' = [memoria EXCEPT ![tablas[p][i]] = d]
  PROVE  EspacioL' = [EspacioL EXCEPT ![p][i] = d]
<1> DEFINE m == tablas[p][i]
<1>1. /\ tablas[p] \in Seq(Marcos) /\ SinRepetir(tablas[p]) /\ Paginas(p) = Len(tablas[p])
      /\ DOMAIN tablas[p] = 1 .. Paginas(p)
      /\ \A q \in Cargados : q # p => ToSet(tablas[q]) \cap ToSet(tablas[p]) = {}
  BY TablaPropia
<1>2. m \in Marcos /\ m \in ToSet(tablas[p]) BY <1>1, ElementosSec
<1>3. \A q \in Cargados : \A j \in DOMAIN tablas[q] :
        /\ tablas[q][j] \in Marcos
        /\ tablas[q][j] = m <=> q = p /\ j = i
  <2> TAKE q \in Cargados
  <2> TAKE j \in DOMAIN tablas[q]
  <2>1. tablas[q][j] \in Marcos BY TablaPropia
  <2>2. tablas[q][j] \in ToSet(tablas[q]) BY DEF ToSet
  <2>3. CASE q = p BY <2>1, <2>3, <1>1 DEF SinRepetir
  <2>4. CASE q # p BY <2>1, <2>2, <2>4, <1>1, <1>2
  <2>5. QED BY <2>3, <2>4
<1>4. \A x \in Marcos : memoria'[x] = IF x = m THEN d ELSE memoria[x]
  BY DEF Inv, TypeOK
<1> HIDE DEF m
<1>5. EspacioL' = [q \in Cargados |-> [j \in DOMAIN tablas[q] |-> memoria'[tablas[q][j]]]]
  BY DEF EspacioL, Cargados
<1>6. \A q \in Cargados : q # p =>
        [j \in DOMAIN tablas[q] |-> memoria'[tablas[q][j]]] = EspacioL[q]
  BY <1>3, <1>4, EspacioFormula
<1>7. [j \in DOMAIN tablas[p] |-> memoria'[tablas[p][j]]] = [EspacioL[p] EXCEPT ![i] = d]
  <2>1. EspacioL[p] = [j \in 1 .. Paginas(p) |-> memoria[tablas[p][j]]]
    BY <1>1, EspacioFormula
  <2>2. \A j \in 1 .. Paginas(p) :
          memoria'[tablas[p][j]] = IF j = i THEN d ELSE memoria[tablas[p][j]]
    BY <1>1, <1>3, <1>4
  <2>3. [j \in DOMAIN tablas[p] |-> memoria'[tablas[p][j]]]
          = [j \in 1 .. Paginas(p) |-> IF j = i THEN d ELSE memoria[tablas[p][j]]]
    BY <1>1, <2>2
  <2>4. QED BY <2>1, <2>3
<1>8. EspacioL = [q \in Cargados |-> EspacioL[q]] BY DEF EspacioL
<1>9. QED BY <1>5, <1>6, <1>7, <1>8, ZenonT(60)

\* An extended or shortened table holds the same in the pages that stay.
LEMMA Redimensiona ==
  ASSUME Inv, cpu.pid \in Cargados, AccesoL = <<>>, AccesoL' = AccesoL,
         io' = io, io[cpu.pid] = <<>>, cpu'.pid = cpu.pid, memoria' = memoria,
         NEW t \in Seq(Marcos), Len(t) <= CANT_MARCOS,
         tablas' = [tablas EXCEPT ![cpu.pid] = t],
         \A j \in 1 .. Len(t) : j <= Paginas(cpu.pid) => t[j] = tablas[cpu.pid][j]
  PROVE  Logico!Next
<1> DEFINE p == cpu.pid
           n == Len(t)
           nuevo == [j \in 1 .. n |-> memoria[t[j]]]
<1>1. TypeOK BY DEF Inv
<1>2. n \in 0 .. CANT_MARCOS OBVIOUS
<1>3. nuevo \in [1 .. n -> Datos] BY <1>1 DEF TypeOK
<1>4. /\ Cargados' = Cargados /\ tablas'[p] = t
      /\ \A q \in Cargados : q # p => tablas'[q] = tablas[q]
  BY <1>1 DEF TypeOK, Cargados
<1>5. \A i \in 1 .. n : i <= Len(EspacioL[p]) => nuevo[i] = EspacioL[p][i]
  <2>1. EspacioL[p] = [j \in 1 .. Paginas(p) |-> memoria[tablas[p][j]]]
    BY EspacioFormula, TablaPropia
  <2>2. Paginas(p) \in Nat BY TablaPropia
  <2>3. EspacioL[p] \in Seq(Datos)
    <3>1. \A j \in 1 .. Paginas(p) : tablas[p][j] \in Marcos BY TablaPropia
    <3>2. \A j \in 1 .. Paginas(p) : memoria[tablas[p][j]] \in Datos BY <3>1, <1>1 DEF TypeOK
    <3> DEFINE e == EspacioL[p]
               k == Paginas(p)
    <3>3. e \in [1 .. k -> Datos] /\ k \in Nat BY <3>2, <2>1, <2>2
    <3> HIDE DEF e, k
    <3>4. e \in Seq(Datos) BY <3>3
    <3>5. QED BY <3>4 DEF e
  <2>4. Len(EspacioL[p]) = Paginas(p) BY <2>1, <2>2, <2>3
  <2>5. QED BY <2>1, <2>4, <2>2
<1>6. EspacioL' = [EspacioL EXCEPT ![p] = nuevo]
  <2> DEFINE Fila(q) == [j \in DOMAIN tablas'[q] |-> memoria[tablas'[q][j]]]
  <2>1. EspacioL' = [q \in Cargados |-> Fila(q)] BY <1>4 DEF EspacioL
  <2>2. DOMAIN t = 1 .. n OBVIOUS
  <2>3. EspacioL = [q \in Cargados |-> EspacioL[q]] BY DEF EspacioL
  <2>4. Fila(p) = nuevo BY <1>4, <2>2
  <2>5. \A q \in Cargados : q # p => Fila(q) = EspacioL[q]
    BY <1>4, EspacioFormula
  <2> HIDE DEF nuevo, Fila
  <2>6. \A q \in Cargados : Fila(q) = IF q = p THEN nuevo ELSE EspacioL[q] BY <2>4, <2>5
  <2>7. QED BY <2>1, <2>3, <2>6
<1>7. PedidosL' = PedidosL BY <1>4, PedidosIgual
<1> HIDE DEF nuevo, n
<1>8. QED BY <1>2, <1>3, <1>5, <1>6, <1>7, PasoRedimensionar

\* The initial address spaces are empty.
LEMMA InicioLogico == Init => Logico!Init
<1> SUFFICES ASSUME Init PROVE Logico!Init OBVIOUS
<1>1. Cargados = {} /\ cpu.pid = Nadie /\ cpu.fase = "libre" BY DEF Init, Cargados, CpuLibre
<1>2. EspacioL = [p \in {} |-> <<>>] BY <1>1 DEF EspacioL
<1>3. AccesoL = <<>> /\ PedidosL = [p \in Procesos |-> <<>>] BY <1>1 DEF AccesoL, PedidosL
<1>4. QED BY <1>1, <1>2, <1>3 DEF Logico!Init, EspacioL, AccesoL, PedidosL

\* The steps of the kernel.
LEMMA SimulaKernel ==
  ASSUME Inv, InvTraduccion, Sano, NEW p \in Procesos,
         IniciarProceso(p) \/ SacarDeLista(p) \/ RecibeProceso(p)
  PROVE  Logico!Next
<1>1. TypeOK /\ ListaSinReuso /\ CpuConCargado BY DEF Inv
<1>2. CASE IniciarProceso(p)
  <2>1. /\ p \notin Cargados /\ Cargados' = Cargados \cup {p} /\ tablas'[p] = <<>>
        /\ \A q \in Cargados : tablas'[q] = tablas[q]
        /\ UNCHANGED <<cpu, io, memoria>>
    BY <1>1, <1>2 DEF IniciarProceso, ListaSinReuso, Cargados
  <2>2. io[p] = <<>> BY <2>1 DEF Sano, SinIOHuerfana
  <2>3. EspacioL' = [q \in Cargados \cup {p} |-> IF q = p THEN <<>> ELSE EspacioL[q]]
    <3> DEFINE Fila(q) == [j \in DOMAIN tablas'[q] |-> memoria[tablas'[q][j]]]
    <3>1. EspacioL' = [q \in Cargados \cup {p} |-> Fila(q)] BY <2>1 DEF EspacioL
    <3>2. Fila(p) = <<>>
      <4>1. DOMAIN tablas'[p] = {} BY <2>1, ElementosVacia
      <4>2. QED BY <4>1
    <3>3. \A q \in Cargados : Fila(q) = EspacioL[q] BY <2>1, EspacioFormula
    <3> HIDE DEF Fila
    <3>4. QED BY <3>1, <3>2, <3>3, <2>1
  <2>4. AccesoL' = AccesoL BY <2>1, <1>1, AccesoIgual DEF CpuConCargado
  <2>5. PedidosL' = PedidosL
    <3>1. \A q \in Procesos :
            (IF q \in Cargados' THEN PaginasEn(tablas'[q], io'[q]) ELSE <<>>)
              = (IF q \in Cargados THEN PaginasEn(tablas[q], io[q]) ELSE <<>>)
      BY <2>1, <2>2, SinPaginas
    <3>2. QED BY <3>1, PedidosFormula
  <2>6. QED BY <2>1, <2>3, <2>4, <2>5, PasoIniciar
<1>3. CASE SacarDeLista(p)
  <2>1. /\ p \in Cargados /\ p # cpu.pid /\ Cargados' = Cargados \ {p}
        /\ \A q \in Cargados : q # p => tablas'[q] = tablas[q]
        /\ UNCHANGED <<cpu, io, memoria>>
    BY <1>3 DEF SacarDeLista, Cargados
  <2>2. EspacioL' = [q \in Cargados \ {p} |-> EspacioL[q]]
    <3> DEFINE Fila(q) == [j \in DOMAIN tablas'[q] |-> memoria[tablas'[q][j]]]
    <3>1. EspacioL' = [q \in Cargados \ {p} |-> Fila(q)] BY <2>1 DEF EspacioL
    <3>2. \A q \in Cargados \ {p} : Fila(q) = EspacioL[q] BY <2>1, EspacioFormula
    <3> HIDE DEF Fila
    <3>3. QED BY <3>1, <3>2
  <2>3. AccesoL' = AccesoL BY <2>1, <1>1, AccesoIgual DEF CpuConCargado
  <2>4. PedidosL' = [PedidosL EXCEPT ![p] = <<>>]
    <3>1. \A q \in Procesos : q # p =>
            (IF q \in Cargados' THEN PaginasEn(tablas'[q], io'[q]) ELSE <<>>)
              = (IF q \in Cargados THEN PaginasEn(tablas[q], io[q]) ELSE <<>>)
      BY <2>1
    <3>2. QED BY <3>1, <2>1, PedidosFormula
  <2>5. QED BY <2>1, <2>2, <2>3, <2>4, PasoEliminar
<1>4. CASE RecibeProceso(p)
  <2>1. /\ cpu.fase = "libre" /\ cpu.pid = Nadie /\ cpu'.pid = p /\ cpu'.fase = "ejecuta"
        /\ p \in Cargados /\ io[p] = <<>> /\ UNCHANGED <<tablas, memoria, io>>
    BY <1>1, <1>4 DEF RecibeProceso, CpuConCargado, Ejecutando, CpuLibre
  <2>2. AccesoL = <<>> /\ AccesoL' = AccesoL BY <2>1, AccesoIgual, AccesoFormula
  <2>3. PedidosL' = PedidosL BY <2>1, PedidosIgual DEF Cargados
  <2>4. PedidosL[p] = <<>> BY <2>1, PedidosFormula, SinPaginas
  <2>5. QED BY <2>1, <2>2, <2>3, <2>4, EspacioIgual, PasoDespachar
<1>5. QED BY <1>2, <1>3, <1>4

\* The steps of a RESIZE, and the end of the turn of a process.
LEMMA SimulaResize ==
  ASSUME Inv, InvTraduccion,
         \/ DevuelveProceso \/ ResizeExcesivo \/ BuscaMarco \/ FaltanMarcos
         \/ MarcaOcupados \/ AmpliarProceso
         \/ \E n \in 0 .. CANT_MARCOS : ResizeAmplia(n) \/ ReducirProceso(n)
  PROVE  Logico!Next \/ VarsL' = VarsL
<1>1. TypeOK /\ CpuConCargado /\ PedidosPropios /\ BusquedaOrdenada
  BY DEF Inv, InvTraduccion
<1>2. CASE DevuelveProceso \/ ResizeExcesivo \/ FaltanMarcos
  <2>1. /\ cpu.fase \in {"ejecuta", "busca"} /\ cpu.pid \in Cargados
        /\ cpu'.pid = Nadie /\ cpu'.fase = "libre" /\ UNCHANGED <<tablas, memoria, io>>
    BY <1>1, <1>2 DEF DevuelveProceso, ResizeExcesivo, FaltanMarcos, CpuConCargado, CpuLibre
  <2>2. AccesoL = <<>> /\ AccesoL' = AccesoL BY <2>1, AccesoIgual, AccesoFormula
  <2>3. PedidosL' = PedidosL BY <2>1, PedidosIgual DEF Cargados
  <2>4. QED BY <2>1, <2>2, <2>3, EspacioIgual, PasoDevolver
<1>3. CASE BuscaMarco \/ MarcaOcupados \/ \E n \in 0 .. CANT_MARCOS : ResizeAmplia(n)
  <2>1. /\ cpu.fase \in {"ejecuta", "busca"} /\ cpu'.fase \in {"busca", "amplia"}
        /\ cpu'.pid = cpu.pid /\ UNCHANGED <<tablas, memoria, io>>
    BY <1>1, <1>3 DEF BuscaMarco, MarcaOcupados, ResizeAmplia, TypeOK
  <2>2. AccesoL' = AccesoL BY <2>1, AccesoIgual, AccesoFormula
  <2>3. PedidosL' = PedidosL BY <2>1, PedidosIgual DEF Cargados
  <2>4. QED BY <2>1, <2>2, <2>3, EspacioIgual DEF VarsL
<1>4. CASE AmpliarProceso
  <2> DEFINE t == tablas[cpu.pid] \o cpu.marcos
  <2>1. /\ cpu.fase = "amplia" /\ cpu.pid \in Cargados /\ cpu'.pid = cpu.pid
        /\ cpu'.fase = "ejecuta" /\ UNCHANGED <<io, memoria>>
        /\ tablas' = [tablas EXCEPT ![cpu.pid] = t]
        /\ cpu.marcos \in Seq(Marcos)
    BY <1>1, <1>4 DEF AmpliarProceso, CpuConCargado, Ejecutando, CpuLibre, TypeOK
  <2>2. AccesoL = <<>> /\ AccesoL' = AccesoL BY <2>1, AccesoIgual, AccesoFormula
  <2>3. io[cpu.pid] = <<>> BY <2>1, <1>1 DEF PedidosPropios
  <2>4. tablas[cpu.pid] \in Seq(Marcos) /\ Paginas(cpu.pid) = Len(tablas[cpu.pid])
    BY <2>1, TablaPropia
  <2>5. /\ t \in Seq(Marcos) /\ Len(t) = Paginas(cpu.pid) + Len(cpu.marcos)
        /\ \A j \in 1 .. Len(t) : j <= Paginas(cpu.pid) => t[j] = tablas[cpu.pid][j]
    <3> DEFINE a == tablas[cpu.pid]
               b == cpu.marcos
               k == Paginas(cpu.pid)
    <3>1. a \in Seq(Marcos) /\ b \in Seq(Marcos) /\ k = Len(a) BY <2>1, <2>4
    <3> HIDE DEF a, b, k
    <3>2. /\ a \o b \in Seq(Marcos) /\ Len(a \o b) = k + Len(b)
          /\ \A j \in 1 .. Len(a \o b) : j <= k => (a \o b)[j] = a[j]
      BY <3>1
    <3>3. t = a \o b BY DEF a, b
    <3> HIDE DEF t
    <3>4. QED BY <3>2, <3>3 DEF a, b, k
  <2>6. Len(t) <= CANT_MARCOS
    <3>1. Len(cpu.marcos) = cpu.cant /\ cpu.cant + Paginas(cpu.pid) <= CANT_MARCOS
      BY <2>1, <1>1 DEF BusquedaOrdenada
    <3>2. cpu.cant \in Nat /\ Paginas(cpu.pid) \in Nat BY <1>1, <2>4 DEF TypeOK
    <3>3. QED BY <3>1, <3>2, <2>5
  <2> HIDE DEF t
  <2>7. QED BY <2>1, <2>2, <2>3, <2>5, <2>6, Redimensiona
<1>5. ASSUME NEW n \in 0 .. CANT_MARCOS, ReducirProceso(n) PROVE Logico!Next
  <2> DEFINE t == SubSeq(tablas[cpu.pid], 1, n)
  <2>1. /\ cpu.fase = "ejecuta" /\ cpu.pid \in Cargados /\ cpu' = cpu
        /\ UNCHANGED <<io, memoria>> /\ n < Paginas(cpu.pid)
        /\ tablas' = [tablas EXCEPT ![cpu.pid] = t]
    BY <1>1, <1>5 DEF ReducirProceso, CpuConCargado
  <2>2. AccesoL = <<>> /\ AccesoL' = AccesoL BY <2>1, AccesoIgual, AccesoFormula
  <2>3. io[cpu.pid] = <<>> BY <2>1, <1>1 DEF PedidosPropios
  <2>4. /\ tablas[cpu.pid] \in Seq(Marcos) /\ Paginas(cpu.pid) = Len(tablas[cpu.pid])
        /\ SinRepetir(tablas[cpu.pid])
    BY <2>1, TablaPropia
  <2>5. /\ t \in Seq(Marcos) /\ Len(t) = n
        /\ \A j \in 1 .. n : t[j] = tablas[cpu.pid][j]
    BY <2>1, <2>4
  <2> HIDE DEF t
  <2>6. /\ Len(t) <= CANT_MARCOS
        /\ \A j \in 1 .. Len(t) : j <= Paginas(cpu.pid) => t[j] = tablas[cpu.pid][j]
    BY <2>5
  <2>7. io' = io /\ memoria' = memoria /\ cpu'.pid = cpu.pid BY <2>1
  <2>8. AccesoL = <<>> /\ AccesoL' = AccesoL BY <2>2
  <2>9. QED BY <2>1, <2>3, <2>5, <2>6, <2>7, <2>8, Redimensiona
<1>6. QED BY <1>2, <1>3, <1>4, <1>5

\* The steps of the MMU and of the accesses.
LEMMA SimulaAcceso ==
  ASSUME Inv, InvTraduccion, Sano,
         \/ \E g \in 0 .. CANT_MARCOS - 1, c \in 1 .. 2 : PideAcceso(g, c)
         \/ TlbHit \/ TlbMiss \/ CpuLee \/ CpuPideIO
         \/ \E d \in Datos : CpuEscribe(d)
  PROVE  Logico!Next \/ VarsL' = VarsL
<1> DEFINE p == cpu.pid
<1>1. TypeOK /\ CpuConCargado /\ TraduccionEnOrden /\ cpu.marcos \in Seq(Marcos)
  BY DEF Inv, InvTraduccion, TypeOK
<1>2. CASE \E g \in 0 .. CANT_MARCOS - 1, c \in 1 .. 2 : PideAcceso(g, c)
  <2>1. /\ cpu.fase = "ejecuta" /\ p \in Cargados /\ cpu = Ejecutando(p)
        /\ cpu'.fase = "traduce" /\ cpu'.pid = p /\ cpu'.marcos = cpu.marcos
        /\ UNCHANGED <<tablas, memoria, io>>
    BY <1>1, <1>2 DEF PideAcceso, CpuConCargado, TypeOK
  <2>2. cpu.marcos = <<>> BY <2>1 DEF Ejecutando, CpuLibre
  <2>3. AccesoL' = AccesoL BY <2>1, <2>2, AccesoFormula, SinPaginas
  <2>4. PedidosL' = PedidosL BY <2>1, PedidosIgual DEF Cargados
  <2>5. QED BY <2>1, <2>3, <2>4, EspacioIgual DEF VarsL
<1>3. CASE TlbHit \/ TlbMiss
  <2> DEFINE g == Head(cpu.paginas)
             i == g + 1
             t == tablas[p]
             a == PaginasEn(t, cpu.marcos)
  <2>1. /\ cpu.fase = "traduce" /\ cpu.paginas # <<>>
        /\ cpu' = [cpu EXCEPT !.paginas = Tail(@), !.marcos = Append(@, t[i])]
        /\ UNCHANGED <<tablas, memoria, io>>
    BY <1>3, MarcoTraducido DEF Sano
  <2>2. p \in Cargados /\ i \in 1 .. Paginas(p) /\ g \in Nat BY <2>1, PaginaPedida
  <2>3. /\ t \in Seq(Marcos) /\ SinRepetir(t) /\ Paginas(p) = Len(t)
        /\ Paginas(p) \in 0 .. CANT_MARCOS /\ DOMAIN t = 1 .. Paginas(p)
    BY <2>2, TablaPropia
  <2>4. /\ cpu'.fase = "traduce" /\ cpu'.pid = p /\ cpu'.marcos = Append(cpu.marcos, t[i])
    BY <1>1, <2>1 DEF TypeOK
  <2>5. ToSet(cpu.marcos) \subseteq ToSet(t) BY <2>1, <1>1 DEF TraduccionEnOrden
  <2>6. AccesoL = a /\ AccesoL' = PaginasEn(t, Append(cpu.marcos, t[i]))
    BY <2>1, <2>4, AccesoFormula
  <2>7. AccesoL' = Append(AccesoL, i)
    <3> HIDE DEF i, t
    <3>1. PaginasEn(t, Append(cpu.marcos, t[i])) = Append(PaginasEn(t, cpu.marcos), i)
      BY <1>1, <2>2, <2>3, <2>5, PaginasAppend
    <3>2. QED BY <2>6, <3>1
  <2>8. AccesoL # <<>> => i = AccesoL[Len(AccesoL)] + 1
    <3> SUFFICES ASSUME AccesoL # <<>> PROVE i = AccesoL[Len(AccesoL)] + 1 OBVIOUS
    <3>1. cpu.marcos # <<>> BY <2>6, SinPaginas
    <3>2. g \in 1 .. Paginas(p) /\ t[g] = cpu.marcos[Len(cpu.marcos)]
      BY <3>1, <2>1, <1>1 DEF TraduccionEnOrden
    <3>3. Len(cpu.marcos) \in 1 .. Len(cpu.marcos) BY <3>1, <1>1, EmptySeq
    <3> HIDE DEF g, t
    <3>4. a[Len(cpu.marcos)] = Posicion(t, t[g]) BY <3>2, <3>3, <1>1, PaginasFormula
    <3>5. Posicion(t, t[g]) = g BY <3>2, <2>3, PosicionUnica
    <3>6. Len(a) = Len(cpu.marcos) BY <2>3, <2>5, <1>1, PaginasEnTabla
    <3>7. QED BY <3>4, <3>5, <3>6, <2>6
  <2>9. i \in DOMAIN EspacioL[p] BY <2>2, <2>3, EspacioFormula
  <2>10. PedidosL' = PedidosL BY <2>1, PedidosIgual DEF Cargados
  <2>11. i \in 0 .. CANT_MARCOS BY <2>2, <2>3
  <2> HIDE DEF i, a, t, g
  <2>12. QED BY <2>1, <2>2, <2>4, <2>7, <2>8, <2>9, <2>10, <2>11, EspacioIgual, PasoDesignar
<1>4. ASSUME cpu.fase \in {"traduce", "escribe"}, cpu.paginas = <<>>
      PROVE  /\ p \in Cargados /\ p \in Procesos /\ cpu.marcos # <<>>
             /\ ToSet(cpu.marcos) \subseteq ToSet(tablas[p])
             /\ tablas[p] \in Seq(Marcos) /\ SinRepetir(tablas[p])
             /\ Paginas(p) = Len(tablas[p])
             /\ AccesoL = PaginasEn(tablas[p], cpu.marcos) /\ AccesoL # <<>>
             /\ Head(AccesoL) \in 1 .. Paginas(p)
             /\ tablas[p][Head(AccesoL)] = Head(cpu.marcos)
             /\ PaginasEn(tablas[p], Tail(cpu.marcos)) = Tail(AccesoL)
  <2>1. p \in Cargados /\ p \in Procesos /\ cpu.marcos # <<>>
    BY <1>1, <1>4 DEF CpuConCargado, TypeOK
  <2>2. ToSet(cpu.marcos) \subseteq ToSet(tablas[p]) BY <1>1, <1>4 DEF TraduccionEnOrden
  <2>3. tablas[p] \in Seq(Marcos) /\ SinRepetir(tablas[p]) /\ Paginas(p) = Len(tablas[p])
    BY <2>1, TablaPropia
  <2>4. AccesoL = PaginasEn(tablas[p], cpu.marcos) BY <1>4, AccesoFormula
  <2> DEFINE t == tablas[p]
  <2> HIDE DEF t
  <2>5. /\ PaginasEn(t, cpu.marcos) # <<>>
        /\ Head(PaginasEn(t, cpu.marcos)) \in 1 .. Len(t)
        /\ t[Head(PaginasEn(t, cpu.marcos))] = Head(cpu.marcos)
        /\ PaginasEn(t, Tail(cpu.marcos)) = Tail(PaginasEn(t, cpu.marcos))
    BY <2>1, <2>2, <2>3, <1>1, PaginasTail DEF t
  <2>6. QED BY <2>1, <2>2, <2>3, <2>4, <2>5 DEF t
<1>5. CASE CpuLee
  <2>1. /\ cpu.fase = "traduce" /\ cpu.paginas = <<>> /\ cpu'.pid = p /\ cpu'.fase = "ejecuta"
        /\ UNCHANGED <<tablas, memoria, io>>
    BY <1>5 DEF CpuLee, Ejecutando, CpuLibre
  <2>2. AccesoL # <<>> /\ AccesoL' = <<>> BY <2>1, <1>4, AccesoFormula
  <2>3. PedidosL' = PedidosL BY <2>1, PedidosIgual DEF Cargados
  <2>4. QED BY <2>1, <2>2, <2>3, EspacioIgual, PasoLeer
<1>6. CASE CpuPideIO
  <2>1. /\ cpu.fase = "traduce" /\ cpu.paginas = <<>> /\ cpu'.pid = Nadie /\ cpu'.fase = "libre"
        /\ io' = [io EXCEPT ![p] = cpu.marcos] /\ UNCHANGED <<tablas, memoria>>
    BY <1>6 DEF CpuPideIO, CpuLibre
  <2>2. /\ AccesoL # <<>> /\ AccesoL' = <<>> /\ p \in Cargados /\ p \in Procesos
        /\ AccesoL = PaginasEn(tablas[p], cpu.marcos)
    BY <2>1, <1>4, AccesoFormula
  <2>3. PedidosL' = [PedidosL EXCEPT ![p] = AccesoL]
    <3>1. \A q \in Procesos : io'[q] = IF q = p THEN cpu.marcos ELSE io[q]
      BY <2>1, <1>1 DEF TypeOK
    <3>2. \A q \in Procesos :
            (IF q \in Cargados' THEN PaginasEn(tablas'[q], io'[q]) ELSE <<>>)
              = IF q = p THEN AccesoL
                ELSE (IF q \in Cargados THEN PaginasEn(tablas[q], io[q]) ELSE <<>>)
      BY <3>1, <2>1, <2>2 DEF Cargados
    <3>3. QED BY <3>2, PedidosFormula
  <2>4. QED BY <2>1, <2>2, <2>3, EspacioIgual, PasoPedirIO
<1>7. ASSUME NEW d \in Datos, CpuEscribe(d) PROVE Logico!Next
  <2>1. /\ cpu.fase \in {"traduce", "escribe"} /\ cpu.paginas = <<>>
        /\ UNCHANGED <<tablas, io>>
        /\ memoria' = [memoria EXCEPT ![Head(cpu.marcos)] = d]
    BY <1>7 DEF CpuEscribe
  <2>2. /\ p \in Cargados /\ AccesoL # <<>> /\ Head(AccesoL) \in 1 .. Paginas(p)
        /\ tablas[p][Head(AccesoL)] = Head(cpu.marcos) /\ cpu.marcos # <<>>
        /\ PaginasEn(tablas[p], Tail(cpu.marcos)) = Tail(AccesoL)
    BY <2>1, <1>4
  <2>3. EspacioL' = [EspacioL EXCEPT ![p][Head(AccesoL)] = d]
    BY <2>1, <2>2, EscribirPagina
  <2>4. cpu'.pid = p /\ AccesoL' = Tail(AccesoL)
    <3>1. CASE Len(cpu.marcos) = 1
      <4>1. cpu'.pid = p /\ cpu'.fase = "ejecuta"
        BY <3>1, <1>7 DEF CpuEscribe, Ejecutando, CpuLibre
      <4>2. Tail(cpu.marcos) = <<>>
        <5>1. Tail(cpu.marcos) \in Seq(Marcos) /\ Len(Tail(cpu.marcos)) = 0
          BY <3>1, <2>2, <1>1, HeadTailProperties
        <5>2. QED BY <5>1, EmptySeq
      <4>3. QED BY <4>1, <4>2, <2>2, AccesoFormula, SinPaginas
    <3>2. CASE Len(cpu.marcos) # 1
      <4>1. /\ cpu'.pid = p /\ cpu'.fase = "escribe" /\ cpu'.marcos = Tail(cpu.marcos)
        BY <3>2, <1>1, <1>7 DEF CpuEscribe, TypeOK
      <4>2. QED BY <4>1, <2>1, <2>2, AccesoFormula
    <3>3. QED BY <3>1, <3>2
  <2>5. PedidosL' = PedidosL BY <2>1, PedidosIgual DEF Cargados
  <2>6. QED BY <2>2, <2>3, <2>4, <2>5, PasoEscribir
<1>8. QED BY <1>2, <1>3, <1>5, <1>6, <1>7

\* The steps of the devices.
LEMMA SimulaDispositivo ==
  ASSUME Inv, InvTraduccion, Sano, NEW p \in Procesos,
         DispositivoLee(p) \/ \E d \in Datos : DispositivoEscribe(p, d)
  PROVE  Logico!Next
<1> DEFINE t == tablas[p]
<1>1. io[p] # <<>> /\ UNCHANGED <<tablas, cpu>> BY DEF DispositivoLee, DispositivoEscribe
<1>2. p \in Cargados BY <1>1 DEF Sano, SinIOHuerfana
<1>3. /\ t \in Seq(Marcos) /\ SinRepetir(t) /\ Paginas(p) = Len(t) BY <1>2, TablaPropia
<1>4. io[p] \in Seq(Marcos) /\ ToSet(io[p]) \subseteq ToSet(t)
  BY <1>2 DEF Inv, TypeOK, InvTraduccion, PedidosPropios
<1>5. PedidosL[p] = PaginasEn(t, io[p]) BY <1>2, PedidosFormula
<1> HIDE DEF t
<1>6. /\ PedidosL[p] # <<>> /\ Head(PedidosL[p]) \in 1 .. Len(t)
      /\ t[Head(PedidosL[p])] = Head(io[p])
      /\ PaginasEn(t, Tail(io[p])) = Tail(PedidosL[p])
  BY <1>1, <1>3, <1>4, <1>5, PaginasTail
<1>7. AccesoL' = AccesoL /\ cpu'.pid = cpu.pid BY <1>1, AccesoIgual
<1>8. ASSUME NEW s, io' = [io EXCEPT ![p] = s]
      PROVE  PedidosL' = [PedidosL EXCEPT ![p] = PaginasEn(t, s)]
  <2>1. \A q \in Procesos : io'[q] = IF q = p THEN s ELSE io[q] BY <1>8 DEF Inv, TypeOK
  <2>2. \A q \in Procesos :
          (IF q \in Cargados' THEN PaginasEn(tablas'[q], io'[q]) ELSE <<>>)
            = IF q = p THEN PaginasEn(t, s)
              ELSE (IF q \in Cargados THEN PaginasEn(tablas[q], io[q]) ELSE <<>>)
    BY <2>1, <1>1, <1>2 DEF Cargados, t
  <2>3. QED BY <2>2, PedidosFormula
<1>9. CASE DispositivoLee(p)
  <2>1. io' = [io EXCEPT ![p] = <<>>] /\ memoria' = memoria BY <1>9 DEF DispositivoLee
  <2>2. PedidosL' = [PedidosL EXCEPT ![p] = <<>>] BY <2>1, <1>8, SinPaginas
  <2>3. QED BY <2>1, <2>2, <1>1, <1>6, <1>7, EspacioIgual, PasoDispositivoLee
<1>10. ASSUME NEW d \in Datos, DispositivoEscribe(p, d) PROVE Logico!Next
  <2>1. /\ io' = [io EXCEPT ![p] = Tail(io[p])]
        /\ memoria' = [memoria EXCEPT ![Head(io[p])] = d]
    BY <1>10 DEF DispositivoEscribe
  <2>2. PedidosL' = [PedidosL EXCEPT ![p] = Tail(PedidosL[p])] BY <2>1, <1>6, <1>8
  <2>3. EspacioL' = [EspacioL EXCEPT ![p][Head(PedidosL[p])] = d]
    BY <2>1, <1>1, <1>2, <1>3, <1>6, EscribirPagina DEF t
  <2>4. QED BY <2>2, <2>3, <1>2, <1>6, <1>7, PasoDispositivoEscribe
<1>11. QED BY <1>9, <1>10

\* Every step from a sane state is a step of the address spaces, or none.
LEMMA Simulacion ==
  ASSUME Inv, InvTraduccion, Sano, [Next]_vars
  PROVE  [Logico!Next]_(Logico!vars)
<1>1. CASE UNCHANGED vars \/ LiberarTodas
  <2>1. UNCHANGED <<tablas, memoria, cpu, io>> BY <1>1 DEF vars, LiberarTodas
  <2>2. AccesoL' = AccesoL BY <2>1, AccesoIgual
  <2>3. PedidosL' = PedidosL BY <2>1, PedidosIgual DEF Cargados
  <2>4. VarsL' = VarsL BY <2>1, <2>2, <2>3, EspacioIgual DEF VarsL
  <2>5. QED BY <2>4, VariablesLogicas
<1>2. Logico!Next \/ VarsL' = VarsL \/ UNCHANGED vars \/ LiberarTodas
  BY SimulaKernel, SimulaResize, SimulaAcceso, SimulaDispositivo, PasosMemoria
<1>3. VarsL' = VarsL => Logico!vars' = Logico!vars BY VariablesLogicas
<1>4. QED BY <1>1, <1>2, <1>3

-----------------------------------------------------------------------------
(* Theorem *)

\* While no TLB entry is stale and no device works for a removed process,
\* programs have the private address spaces of EspacioLogico: memory, MMU and
\* TLB together implement them.
THEOREM Implementacion == Spec /\ []Sano => ImplementaEspacioLogico
<1>1. Inv /\ InvTraduccion /\ Sano /\ [Next]_vars => InvTraduccion'
  BY TraduccionPaso, PedidosPaso DEF InvTraduccion
<1>2. Inv /\ InvTraduccion /\ Sano /\ [Next]_vars => [Logico!Next]_(Logico!vars)
  BY Simulacion
<1>3. QED
  BY <1>1, <1>2, InicioLogico, TraduccionInicial, Invariante, PTL
  DEF Spec, ImplementaEspacioLogico, Logico!Spec
=============================================================================
