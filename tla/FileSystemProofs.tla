--------------------------- MODULE FileSystemProofs ---------------------------
(***************************************************************************)
(* The blocks of the DialFS, for every number of files and of blocks,      *)
(* every block size and every sequence of requests and restarts: no two    *)
(* files share a block, the bitmap marks the blocks of the files and no    *)
(* other one, compaction makes the room it is called for, and programs     *)
(* see private files of blocks (DialFS).                                   *)
(*                                                                         *)
(* The condition is that compactar_bloques, which finds the files through  *)
(* the list in memory, starts from a list that agrees with the metadata;   *)
(* HallazgoListaInfiel shows how it stops agreeing.  No other request      *)
(* needs it, and no other request spoils it (ListaFielSinCompactar).       *)
(***************************************************************************)
EXTENDS FileSystem, TLAPS, FiniteSetTheorems, SequenceTheorems, WellFoundedInduction

USE ConstantesFS

-----------------------------------------------------------------------------
(* Numbers *)

\* The minimum of a finite set of numbers is in the set: the induction of the
\* proofs below is the search for the first counterexample.
LEMMA MinimoFinito ==
  ASSUME NEW S \in SUBSET Nat, IsFiniteSet(S), S # {}
  PROVE  Min(S) \in S /\ \A y \in S : Min(S) <= y
<1> DEFINE Hasta(x) == {y \in S : y <= x}
           T == {Hasta(x) : x \in S}
           O == StrictSubsetOrdering(S)
<1>1. IsWellFoundedOn(O, FiniteSubsetsOf(S)) BY FS_StrictSubsetOrderingWellFounded
<1>2. T \subseteq FiniteSubsetsOf(S) /\ T # {}
  <2>1. \A x \in S : IsFiniteSet(Hasta(x)) BY FS_Subset
  <2>2. QED BY <2>1 DEF FiniteSubsetsOf
<1>3. PICK h \in T : \A g \in T : ~ (<<g, h>> \in O)
  <2> HIDE DEF T, O
  <2>1. QED BY <1>1, <1>2, WFMin
<1>4. PICK x \in S : h = Hasta(x) OBVIOUS
<1>5. \A y \in S : x <= y
  <2> SUFFICES ASSUME NEW y \in S, y < x PROVE FALSE OBVIOUS
  <2>1. \A z \in S : z <= y => z <= x OBVIOUS
  <2>2. x <= x /\ ~ (x <= y) OBVIOUS
  <2>3. Hasta(y) \subseteq Hasta(x) /\ x \in Hasta(x) /\ x \notin Hasta(y) BY <2>1, <2>2
  <2>4. <<Hasta(y), Hasta(x)>> \in O BY <2>3 DEF StrictSubsetOrdering
  <2>5. QED BY <2>4, <1>3, <1>4
<1>6. QED BY <1>5 DEF Min

\* There are BLOCK_COUNT blocks.
LEMMA BloquesFinitos ==
  /\ Bloques \subseteq Nat /\ IsFiniteSet(Bloques) /\ Cardinality(Bloques) = BLOCK_COUNT
  /\ \A S \in SUBSET Bloques : IsFiniteSet(S)
<1>1. BLOCK_COUNT - 1 \in Int /\ 0 \in Int OBVIOUS
<1>2. IsFiniteSet(0 .. BLOCK_COUNT - 1) /\ Cardinality(0 .. BLOCK_COUNT - 1) = BLOCK_COUNT
  BY <1>1, FS_Interval
<1>3. Bloques \subseteq Nat /\ IsFiniteSet(Bloques) /\ Cardinality(Bloques) = BLOCK_COUNT
  BY <1>2 DEF Bloques
<1>4. \A S \in SUBSET Bloques : IsFiniteSet(S) BY <1>3, FS_Subset
<1>5. QED BY <1>3, <1>4

\* buscar_bloques_libres_contiguos and the search for the first used block
\* take the first of the blocks there are.
LEMMA PrimerBloque ==
  ASSUME NEW S \in SUBSET Bloques, S # {}
  PROVE  Min(S) \in S /\ \A y \in S : Min(S) <= y
BY BloquesFinitos, MinimoFinito

\* Every file holds a block.
LEMMA CantPositiva ==
  ASSUME NEW t \in Nat
  PROVE  CantBloques(t) \in Nat /\ CantBloques(t) >= 1
<1>1. CASE t = 0 BY <1>1 DEF CantBloques
<1>2. CASE t # 0
  <2> DEFINE x == t + BLOCK_SIZE - 1
             q == x \div BLOCK_SIZE
             r == x % BLOCK_SIZE
  <2>1. x \in Nat /\ x >= BLOCK_SIZE /\ BLOCK_SIZE > 0 BY <1>2
  <2>2. q \in Int /\ r \in 0 .. BLOCK_SIZE - 1 /\ x = BLOCK_SIZE * q + r BY <2>1
  <2>3. CantBloques(t) = q BY <1>2 DEF CantBloques, Techo
  <2> HIDE DEF x, q, r
  <2>4. q >= 1
    <3> SUFFICES ASSUME q <= 0 PROVE FALSE BY <2>2
    <3>1. BLOCK_SIZE * q <= 0 BY <2>2
    <3>2. QED BY <2>1, <2>2, <3>1
  <2>5. QED BY <2>2, <2>3, <2>4
<1>3. QED BY <1>1, <1>2

\* The sizes are natural numbers.
LEMMA TamaniosNat == Tamanios \subseteq Nat BY DEF Tamanios

\* A run of n blocks has n blocks.
LEMMA TramoCuenta ==
  ASSUME NEW a \in Int, NEW n \in Nat
  PROVE  IsFiniteSet(Tramo(a, n)) /\ Cardinality(Tramo(a, n)) = n
<1>1. a + n - 1 \in Int OBVIOUS
<1>2. /\ IsFiniteSet(a .. a + n - 1)
      /\ Cardinality(a .. a + n - 1) = IF a > a + n - 1 THEN 0 ELSE (a + n - 1) - a + 1
  BY <1>1, FS_Interval
<1>3. QED BY <1>2 DEF Tramo

-----------------------------------------------------------------------------
(* One round of the loop of compactar_bloques, on the blocks alone: files    *)
(* are their first block (ini) and how many they hold (cant)                *)

Usados(bits) == {b \in Bloques : bits[b]}

\* The used blocks not yet reached by the loop at i
Desde(bits, i) == {b \in Bloques : b >= i /\ bits[b]}

\* The loop at i is moving the file: it has gone down in part.
Pasa(ini, cant, i, g) == ini[g] < i /\ i < ini[g] + cant[g]

\* Where the blocks of the file are: together, or those that went down and,
\* from the first used block on, those that did not.
Lugar(ini, cant, bits, i, g) ==
  IF Pasa(ini, cant, i, g)
  THEN Tramo(ini[g], i - ini[g]) \cup Tramo(Min(Desde(bits, i)), cant[g] - (i - ini[g]))
  ELSE Tramo(ini[g], cant[g])

\* Where its j-th block is
Posicion(ini, cant, bits, i, g, j) ==
  IF Pasa(ini, cant, i, g) /\ j >= i - ini[g]
  THEN Min(Desde(bits, i)) + (j - (i - ini[g]))
  ELSE ini[g] + j

\* Below i there is no gap with something used above it.
SinHuecosHasta(bits, i) ==
  \A b, c \in Bloques : b < i /\ b < c /\ bits[c] => bits[b]

Compactando(G, ini, cant, bits, i) ==
  /\ SinHuecosHasta(bits, i)
  /\ \A g, h \in G : g # h => Lugar(ini, cant, bits, i, g) \cap Lugar(ini, cant, bits, i, h) = {}
  /\ Usados(bits) = UNION {Lugar(ini, cant, bits, i, g) : g \in G}
  /\ \A g \in G : Pasa(ini, cant, i, g) => Desde(bits, i) # {}

\* What is to the right of the loop when nothing used is.
LEMMA RondaVacia ==
  ASSUME NEW G, NEW ini \in [G -> Bloques], NEW cant \in [G -> Nat \ {0}],
         NEW bits \in [Bloques -> BOOLEAN], NEW i \in Bloques,
         Compactando(G, ini, cant, bits, i), Desde(bits, i) = {}
  PROVE  /\ Compactando(G, ini, cant, bits, i + 1)
         /\ \A g \in G : \A j : Posicion(ini, cant, bits, i + 1, g, j) = Posicion(ini, cant, bits, i, g, j)
<1>1. \A g \in G : /\ ~Pasa(ini, cant, i, g)
                   /\ Lugar(ini, cant, bits, i, g) = Tramo(ini[g], cant[g])
  BY DEF Compactando, Lugar
<1>2. \A g \in G : ini[g] + cant[g] <= i
  <2> TAKE g \in G
  <2>0. ini[g] \in Bloques /\ cant[g] \in Nat \ {0} OBVIOUS
  <2>a. PICK n \in Nat : n = cant[g] /\ n # 0 BY <2>0
  <2>b. cant[g] \in Nat /\ cant[g] >= 1 BY <2>a
  <2>1. ini[g] \in Nat /\ cant[g] \in Nat /\ cant[g] >= 1 /\ i \in Nat BY <2>0, <2>b, BloquesFinitos
  <2>2. CASE ini[g] >= i
    <3>1. ini[g] \in Tramo(ini[g], cant[g]) BY <2>1 DEF Tramo
    <3>2. ini[g] \in Usados(bits) BY <1>1, <3>1 DEF Compactando
    <3>3. QED BY <2>2, <3>2 DEF Usados, Desde
  <2>3. QED BY <1>1, <2>1, <2>2 DEF Pasa
<1>3. \A g \in G : /\ ~Pasa(ini, cant, i + 1, g)
                   /\ Lugar(ini, cant, bits, i + 1, g) = Lugar(ini, cant, bits, i, g)
  <2> TAKE g \in G
  <2>1. ini[g] \in Nat /\ cant[g] \in Nat /\ i \in Nat BY BloquesFinitos
  <2>2. ~Pasa(ini, cant, i + 1, g) BY <1>2, <2>1 DEF Pasa
  <2>3. QED BY <1>1, <2>2 DEF Lugar
<1>4. SinHuecosHasta(bits, i + 1)
  <2> SUFFICES ASSUME NEW b \in Bloques, NEW c \in Bloques, b < i + 1, b < c, bits[c]
               PROVE  bits[b]
    BY DEF SinHuecosHasta
  <2>1. b \in Nat /\ c \in Nat /\ i \in Nat BY BloquesFinitos
  <2>2. ~(c >= i) BY DEF Desde
  <2>3. b < i BY <2>1, <2>2
  <2>4. QED BY <2>3 DEF Compactando, SinHuecosHasta
<1>5. \A g \in G : \A j : Posicion(ini, cant, bits, i + 1, g, j) = Posicion(ini, cant, bits, i, g, j)
  BY <1>1, <1>3 DEF Posicion
<1>6. QED BY <1>3, <1>4, <1>5 DEF Compactando

\* What a round does when u is the first used block
Movido(G, ini, cant, bits, i, u, ini2, bits2) ==
  /\ Compactando(G, ini2, cant, bits2, i + 1)
  /\ Usados(bits2) = (Usados(bits) \ {u}) \cup {i}
  /\ u \in Desde(bits, i) /\ (u # i => ~bits[i])
  /\ Desde(bits2, i + 1) = Desde(bits, i) \ {u}
  /\ \A g, h \in G : ini[g] = u /\ ini[h] = u => g = h
  /\ \A g \in G : \A j \in 0 .. cant[g] - 1 :
       LET p == Posicion(ini, cant, bits, i, g, j)
       IN  p \in Lugar(ini, cant, bits, i, g) /\ Posicion(ini2, cant, bits2, i + 1, g, j) = IF p = u THEN i ELSE p

\* Moving one element of a union moves it in the union.
LEMMA Trasladado ==
  ASSUME NEW A, NEW B, NEW u, NEW i, u \notin A
  PROVE  ((A \cup B) \ {u}) \cup {i} = (A \cup {i}) \cup (B \ {u})
OBVIOUS

\* The first used block u goes down to i, and the file that begins in it
\* follows: files stay apart and the bitmap stays exact.
LEMMA RondaMueve ==
  ASSUME NEW G, NEW ini \in [G -> Bloques], NEW cant \in [G -> Nat \ {0}],
         NEW bits \in [Bloques -> BOOLEAN], NEW i \in Bloques,
         Compactando(G, ini, cant, bits, i), Desde(bits, i) # {},
         NEW u, u = Min(Desde(bits, i)),
         NEW ini2, ini2 = [g \in G |-> IF ini[g] = u THEN i ELSE ini[g]],
         NEW bits2, bits2 = AsignarBloques(DesasignarBloques(bits, {u}), {i})
  PROVE  Movido(G, ini, cant, bits, i, u, ini2, bits2)
<1> DEFINE L(g) == Lugar(ini, cant, bits, i, g)
           M(g) == Lugar(ini2, cant, bits2, i + 1, g)
           Altos == Desde(bits, i)
           E == Desde(bits2, i + 1)
<1>0. i \in Nat /\ i < BLOCK_COUNT /\ \A b \in Bloques : b \in Nat BY DEF Bloques
<1>1. u \in Altos /\ \A y \in Altos : u <= y
  <2>1. Altos \subseteq Bloques BY DEF Desde
  <2>2. QED BY <2>1, PrimerBloque
<1>2. u \in Bloques /\ u \in Nat /\ u >= i /\ bits[u] BY <1>0, <1>1 DEF Desde
<1>3. \A y \in Bloques : bits[y] /\ y >= i => u <= y BY <1>1 DEF Desde
<1>4. bits2 = [b \in Bloques |-> (bits[b] /\ b # u) \/ b = i]
  BY DEF AsignarBloques, DesasignarBloques
<1>5. Usados(bits2) = (Usados(bits) \ {u}) \cup {i} BY <1>4 DEF Usados
<1>6. u # i => ~bits[i] BY <1>0, <1>2, <1>3
<1>7. E = Altos \ {u}
  <2>1. \A b \in Bloques : b >= i + 1 => b # i /\ b >= i BY <1>0
  <2>2. \A b \in Altos \ {u} : b >= i + 1 /\ b \in Bloques
    <3> TAKE b \in Altos \ {u}
    <3>1. b \in Nat /\ u <= b /\ b # u BY <1>0, <1>1 DEF Desde
    <3>2. QED BY <1>0, <1>2, <3>1 DEF Desde
  <2>3. QED BY <1>4, <2>1, <2>2 DEF Desde
<1>8. \A g \in G : ini[g] \in Nat /\ cant[g] \in Nat /\ cant[g] >= 1 /\ ini[g] \in Bloques
  <2> TAKE g \in G
  <2>1. ini[g] \in Bloques /\ cant[g] \in Nat \ {0} OBVIOUS
  <2>2. PICK n \in Nat : n = cant[g] /\ n # 0 BY <2>1
  <2>3. cant[g] \in Nat /\ cant[g] >= 1 BY <2>2
  <2>4. QED BY <1>0, <2>1, <2>3
<1>9. \A g \in G : \A b \in L(g) : b \in Bloques /\ bits[b] BY DEF Compactando, Usados
<1>10. \A g, h \in G : g # h => L(g) \cap L(h) = {} BY DEF Compactando
<1>11. PICK s \in G : u \in L(s) BY <1>2 DEF Compactando, Usados
<1>12. ~Pasa(ini, cant, i, s) => ini[s] = u
  <2> HAVE ~Pasa(ini, cant, i, s)
  <2>1. L(s) = Tramo(ini[s], cant[s]) BY DEF Lugar
  <2>2. ini[s] <= u /\ u < ini[s] + cant[s] BY <1>2, <1>8, <1>11, <2>1 DEF Tramo
  <2>3. ini[s] >= i BY <1>0, <1>2, <1>8, <2>2 DEF Pasa
  <2>4. ini[s] \in L(s) BY <1>8, <2>1 DEF Tramo
  <2>5. u <= ini[s] BY <1>3, <1>9, <2>3, <2>4
  <2>6. QED BY <1>2, <1>8, <2>2, <2>5
<1>13. \A h \in G : h # s =>
         /\ ~Pasa(ini, cant, i, h) /\ ini[h] # u
         /\ ini[h] + cant[h] <= i \/ ini[h] >= i + 1
  <2> SUFFICES ASSUME NEW h \in G, h # s
               PROVE  /\ ~Pasa(ini, cant, i, h) /\ ini[h] # u
                      /\ ini[h] + cant[h] <= i \/ ini[h] >= i + 1
    OBVIOUS
  <2>1. u \notin L(h) BY <1>10, <1>11
  <2>2. ~Pasa(ini, cant, i, h)
    <3> SUFFICES ASSUME Pasa(ini, cant, i, h) PROVE FALSE OBVIOUS
    <3>1. Tramo(u, cant[h] - (i - ini[h])) \subseteq L(h) BY DEF Lugar
    <3>2. cant[h] - (i - ini[h]) >= 1 /\ cant[h] - (i - ini[h]) \in Int BY <1>0, <1>8 DEF Pasa
    <3>3. PICK n \in Int : n = cant[h] - (i - ini[h]) /\ n >= 1 BY <3>2
    <3>4. u \in Tramo(u, n) BY <1>2, <3>3 DEF Tramo
    <3>5. QED BY <2>1, <3>1, <3>3, <3>4
  <2>3. L(h) = Tramo(ini[h], cant[h]) BY <2>2 DEF Lugar
  <2>4. ini[h] \in L(h) BY <1>8, <2>3 DEF Tramo
  <2>5. ini[h] # u BY <2>1, <2>4
  <2>6. CASE ini[h] >= i
    <3>1. u <= ini[h] BY <1>3, <1>9, <2>4, <2>6
    <3>2. ini[h] >= i + 1 BY <1>0, <1>2, <1>8, <2>5, <3>1
    <3>3. QED BY <2>2, <2>5, <3>2
  <2>7. CASE ~(ini[h] >= i) BY <1>0, <1>8, <2>2, <2>5, <2>7 DEF Pasa
  <2>8. QED BY <2>6, <2>7
<1>14. \A h \in G : h # s => ini2[h] = ini[h] /\ ~Pasa(ini2, cant, i + 1, h) /\ M(h) = L(h)
  <2> SUFFICES ASSUME NEW h \in G, h # s
               PROVE  ini2[h] = ini[h] /\ ~Pasa(ini2, cant, i + 1, h) /\ M(h) = L(h)
    OBVIOUS
  <2>1. ini2[h] = ini[h] BY <1>13
  <2>2. ~Pasa(ini2, cant, i + 1, h) BY <1>0, <1>8, <1>13, <2>1 DEF Pasa
  <2>3. M(h) = Tramo(ini[h], cant[h]) BY <2>1, <2>2 DEF Lugar
  <2>4. L(h) = Tramo(ini[h], cant[h]) BY <1>13 DEF Lugar
  <2>5. QED BY <2>1, <2>2, <2>3, <2>4
\* The rest of the file follows u in the disk.
<1>15. ASSUME u + 1 \in L(s) PROVE E # {} /\ Min(E) = u + 1
  <2>1. u + 1 \in E BY <1>2, <1>7, <1>9, <1>15, <1>0 DEF Desde
  <2>2. E \subseteq Bloques BY DEF Desde
  <2>3. Min(E) \in E /\ Min(E) <= u + 1 BY <2>1, <2>2, PrimerBloque
  <2>4. Min(E) >= u /\ Min(E) # u /\ Min(E) \in Nat BY <1>0, <1>1, <1>7, <2>2, <2>3
  <2>5. QED BY <1>2, <2>1, <2>3, <2>4
<1>16. /\ M(s) = (L(s) \ {u}) \cup {i}
       /\ Pasa(ini2, cant, i + 1, s) => E # {}
  <2>1. CASE ~Pasa(ini, cant, i, s)
    <3>1. ini[s] = u /\ ini2[s] = i BY <1>12, <2>1
    <3>2. L(s) = Tramo(u, cant[s]) BY <2>1, <3>1 DEF Lugar
    <3>3. CASE cant[s] = 1
      <4>1. ~Pasa(ini2, cant, i + 1, s) BY <1>0, <3>1, <3>3 DEF Pasa
      <4>2. M(s) = Tramo(i, 1) BY <3>1, <3>3, <4>1 DEF Lugar
      <4>3. Tramo(i, 1) = {i} /\ Tramo(u, 1) = {u} BY <1>0, <1>2 DEF Tramo
      <4>4. QED BY <3>2, <3>3, <4>1, <4>2, <4>3
    <3>4. CASE cant[s] > 1
      <4>1. Pasa(ini2, cant, i + 1, s) BY <1>0, <1>8, <3>1, <3>4 DEF Pasa
      <4>2. u + 1 \in L(s) BY <1>2, <1>8, <3>2, <3>4 DEF Tramo
      <4>3. E # {} /\ Min(E) = u + 1 BY <1>15, <4>2
      <4>4. (i + 1) - i = 1 BY <1>0
      <4>5. M(s) = Tramo(i, 1) \cup Tramo(u + 1, cant[s] - 1) BY <3>1, <4>1, <4>3, <4>4 DEF Lugar
      <4>6. Tramo(i, 1) = {i} BY <1>0 DEF Tramo
      <4>7. Tramo(u, cant[s]) \ {u} = Tramo(u + 1, cant[s] - 1) BY <1>2, <1>8 DEF Tramo
      <4>8. QED BY <3>2, <4>3, <4>5, <4>6, <4>7
    <3>5. cant[s] = 1 \/ cant[s] > 1 BY <1>8
    <3>6. QED BY <3>3, <3>4, <3>5
  <2>2. CASE Pasa(ini, cant, i, s)
    <3>1. ini[s] < i /\ i < ini[s] + cant[s] BY <2>2 DEF Pasa
    <3>2. ini2[s] = ini[s] BY <1>0, <1>2, <1>8, <3>1
    <3>3. PICK m \in Nat : m = i - ini[s] /\ m >= 1 /\ ini[s] + m = i BY <1>0, <1>8, <3>1
    <3>4. PICK r \in Nat : r = cant[s] - m /\ r >= 1 /\ cant[s] = m + r BY <1>0, <1>8, <3>1, <3>3
    <3>5. L(s) = Tramo(ini[s], m) \cup Tramo(u, r) BY <2>2, <3>3, <3>4 DEF Lugar
    <3>6. u \notin Tramo(ini[s], m) BY <1>2, <1>8, <3>3 DEF Tramo
    <3>7. Tramo(ini[s], m) \cup {i} = Tramo(ini[s], m + 1) BY <1>0, <1>8, <3>3 DEF Tramo
    <3>8. Tramo(u, r) \ {u} = Tramo(u + 1, r - 1) BY <1>2, <3>4 DEF Tramo
    <3>9. (i + 1) - ini[s] = m + 1 /\ cant[s] - (m + 1) = r - 1 BY <1>0, <1>8, <3>3, <3>4
    <3>10. CASE r = 1
      <4>1. ~Pasa(ini2, cant, i + 1, s) BY <1>0, <1>8, <3>2, <3>3, <3>4, <3>10 DEF Pasa
      <4>2. M(s) = Tramo(ini[s], m + 1) BY <3>2, <3>4, <3>10, <4>1 DEF Lugar
      <4>3. Tramo(u + 1, r - 1) = {} BY <1>2, <3>10 DEF Tramo
      <4>4. QED BY <3>5, <3>6, <3>7, <3>8, <4>1, <4>2, <4>3
    <3>11. CASE r > 1
      <4>1. Pasa(ini2, cant, i + 1, s) BY <1>0, <1>8, <3>1, <3>2, <3>3, <3>4, <3>11 DEF Pasa
      <4>2. u + 1 \in Tramo(u, r) BY <1>2, <3>11 DEF Tramo
      <4>3. E # {} /\ Min(E) = u + 1 BY <1>15, <3>5, <4>2
      <4>4. M(s) = Tramo(ini[s], m + 1) \cup Tramo(u + 1, r - 1)
        BY <3>2, <3>9, <4>1, <4>3 DEF Lugar
      <4>5. ((Tramo(ini[s], m) \cup Tramo(u, r)) \ {u}) \cup {i}
              = (Tramo(ini[s], m) \cup {i}) \cup (Tramo(u, r) \ {u})
        BY <3>6, Trasladado
      <4>6. QED BY <3>5, <3>7, <3>8, <4>3, <4>4, <4>5
    <3>12. r = 1 \/ r > 1 BY <3>4
    <3>13. QED BY <3>10, <3>11, <3>12
  <2>3. QED BY <2>1, <2>2
<1> DEFINE P(g, j) == Posicion(ini, cant, bits, i, g, j)
           Q(g, j) == Posicion(ini2, cant, bits2, i + 1, g, j)
<1>a. \A g, j : P(g, j) = IF Pasa(ini, cant, i, g) /\ j >= i - ini[g]
                          THEN u + (j - (i - ini[g])) ELSE ini[g] + j
  BY DEF Posicion
<1>b. \A g, j : Q(g, j) = IF Pasa(ini2, cant, i + 1, g) /\ j >= (i + 1) - ini2[g]
                          THEN Min(E) + (j - ((i + 1) - ini2[g])) ELSE ini2[g] + j
  BY DEF Posicion
<1> HIDE DEF P, Q, E
<1>25. ASSUME NEW g \in G, NEW j \in 0 .. cant[g] - 1
       PROVE  P(g, j) \in L(g) /\ Q(g, j) = IF P(g, j) = u THEN i ELSE P(g, j)
  <2>0. j \in Nat /\ j < cant[g] BY <1>8
  <2>1. CASE g # s
    <3>1. P(g, j) = ini[g] + j BY <1>a, <1>13, <2>1
    <3>2. Q(g, j) = ini[g] + j BY <1>b, <1>14, <2>1
    <3>3. L(g) = Tramo(ini[g], cant[g]) BY <1>13, <2>1 DEF Lugar
    <3>4. ini[g] + j \in L(g) BY <1>8, <2>0, <3>3 DEF Tramo
    <3>5. u \notin L(g) BY <1>10, <1>11, <2>1
    <3>6. QED BY <3>1, <3>2, <3>4, <3>5
  <2>2. CASE g = s /\ ~Pasa(ini, cant, i, s)
    <3>1. ini[s] = u /\ ini2[s] = i BY <1>12, <2>2
    <3>2. P(s, j) = u + j BY <1>a, <2>2, <3>1
    <3>3. L(s) = Tramo(u, cant[s]) BY <2>2, <3>1 DEF Lugar
    <3>4. u + j \in L(s) BY <1>2, <1>8, <2>0, <2>2, <3>3 DEF Tramo
    <3>5. (i + 1) - i = 1 BY <1>0
    <3>6. CASE j = 0
      <4>1. Q(s, j) = i + j
        <5>1. ~(j >= (i + 1) - ini2[s]) BY <3>1, <3>5, <3>6
        <5>2. QED BY <1>b, <3>1, <5>1
      <4>2. QED BY <1>0, <1>2, <2>2, <3>2, <3>4, <3>6, <4>1
    <3>7. CASE j # 0
      <4>1. j >= 1 /\ cant[s] > 1 BY <1>8, <2>0, <2>2, <3>7
      <4>2. Pasa(ini2, cant, i + 1, s) BY <1>0, <1>8, <3>1, <4>1 DEF Pasa
      <4>3. u + 1 \in L(s) BY <1>2, <1>8, <3>3, <4>1 DEF Tramo
      <4>4. Min(E) = u + 1 BY <1>15, <4>3
      <4>5. Q(s, j) = u + 1 + (j - 1) BY <1>b, <3>1, <3>5, <4>1, <4>2, <4>4
      <4>6. u + 1 + (j - 1) = u + j /\ u + j # u BY <1>2, <2>0, <4>1
      <4>7. QED BY <2>2, <3>2, <3>4, <4>5, <4>6
    <3>8. QED BY <3>6, <3>7
  <2>3. CASE g = s /\ Pasa(ini, cant, i, s)
    <3>1. ini[s] < i /\ i < ini[s] + cant[s] BY <2>3 DEF Pasa
    <3>2. ini2[s] = ini[s] BY <1>0, <1>2, <1>8, <3>1
    <3>3. PICK m \in Nat : m = i - ini[s] /\ m >= 1 /\ ini[s] + m = i BY <1>0, <1>8, <3>1
    <3>4. PICK r \in Nat : r = cant[s] - m /\ r >= 1 /\ cant[s] = m + r BY <1>0, <1>8, <3>1, <3>3
    <3>5. L(s) = Tramo(ini[s], m) \cup Tramo(u, r) BY <2>3, <3>3, <3>4 DEF Lugar
    <3>6. (i + 1) - ini[s] = m + 1 BY <1>0, <1>8, <3>3
    <3>7. CASE j < m
      <4>1. P(s, j) = ini[s] + j
        <5>1. ~(j >= i - ini[s]) BY <2>0, <3>3, <3>7
        <5>2. QED BY <1>a, <5>1
      <4>2. Q(s, j) = ini[s] + j
        <5>1. ~(j >= (i + 1) - ini2[s]) BY <2>0, <3>2, <3>3, <3>6, <3>7
        <5>2. QED BY <1>b, <3>2, <5>1
      <4>3. ini[s] + j \in L(s) BY <1>8, <2>0, <3>3, <3>5, <3>7 DEF Tramo
      <4>4. ini[s] + j # u BY <1>2, <1>8, <2>0, <3>3, <3>7
      <4>5. QED BY <2>3, <4>1, <4>2, <4>3, <4>4
    <3>8. CASE j = m
      <4>1. P(s, j) = u
        <5>1. P(s, j) = u + (j - m) BY <1>a, <2>3, <3>3, <3>8
        <5>2. QED BY <1>2, <3>8, <5>1
      <4>2. Q(s, j) = i
        <5>1. ~(j >= (i + 1) - ini2[s]) BY <2>0, <3>2, <3>3, <3>6, <3>8
        <5>2. QED BY <1>b, <3>2, <3>3, <3>8, <5>1
      <4>3. QED BY <1>11, <2>3, <4>1, <4>2
    <3>9. CASE j > m
      <4>1. P(s, j) = u + (j - m)
        <5>1. j >= i - ini[s] BY <2>0, <3>3, <3>9
        <5>2. QED BY <1>a, <2>3, <3>3, <5>1
      <4>2. r > 1 BY <2>0, <2>3, <3>3, <3>4, <3>9
      <4>3. Pasa(ini2, cant, i + 1, s) BY <1>0, <1>8, <3>1, <3>2, <3>3, <3>4, <4>2 DEF Pasa
      <4>4. u + 1 \in Tramo(u, r) BY <1>2, <4>2 DEF Tramo
      <4>5. Min(E) = u + 1 BY <1>15, <3>5, <4>4
      <4>6. Q(s, j) = u + 1 + (j - (m + 1))
        <5>1. j >= (i + 1) - ini2[s] BY <2>0, <3>2, <3>3, <3>6, <3>9
        <5>2. QED BY <1>b, <3>2, <3>6, <4>3, <4>5, <5>1
      <4>7. u + 1 + (j - (m + 1)) = u + (j - m) /\ u + (j - m) # u BY <1>2, <2>0, <3>3, <3>9
      <4>8. u + (j - m) \in Tramo(u, r) BY <1>2, <2>0, <2>3, <3>3, <3>4, <3>9 DEF Tramo
      <4>9. QED BY <2>3, <3>5, <4>1, <4>6, <4>7, <4>8
    <3>10. j < m \/ j = m \/ j > m BY <2>0, <3>3
    <3>11. QED BY <3>7, <3>8, <3>9, <3>10
  <2>4. QED BY <2>1, <2>2, <2>3
<1>17. \A h \in G : h # s => i \notin L(h)
  <2> SUFFICES ASSUME NEW h \in G, h # s, i \in L(h) PROVE FALSE OBVIOUS
  <2>1. bits[i] BY <1>9
  <2>2. u = i BY <1>6, <2>1
  <2>3. QED BY <1>10, <1>11, <2>2
<1> HIDE DEF L, M, Altos
<1>18. \A g, h \in G : g # h => M(g) \cap M(h) = {} BY <1>10, <1>14, <1>16, <1>17
<1>19. Usados(bits2) = UNION {M(g) : g \in G}
  <2>1. \A x : x \in Usados(bits) <=> \E g \in G : x \in L(g) BY DEF Compactando, L
  <2>2. \A h \in G : h # s => u \notin L(h) BY <1>10, <1>11
  <2>3. \A x : x \in Usados(bits2) <=> \E g \in G : x \in M(g)
    <3> TAKE x
    <3>1. ASSUME x \in Usados(bits2) PROVE \E g \in G : x \in M(g)
      <4>1. CASE x = i BY <1>16, <4>1
      <4>2. CASE x # i
        <5>1. x # u /\ x \in Usados(bits) BY <1>5, <3>1, <4>2
        <5>2. PICK g \in G : x \in L(g) BY <2>1, <5>1
        <5>3. CASE g = s BY <1>16, <5>1, <5>2, <5>3
        <5>4. CASE g # s BY <1>14, <5>2, <5>4
        <5>5. QED BY <5>3, <5>4
      <4>3. QED BY <4>1, <4>2
    <3>2. ASSUME NEW g \in G, x \in M(g) PROVE x \in Usados(bits2)
      <4>1. CASE g = s BY <1>5, <1>16, <2>1, <3>2, <4>1
      <4>2. CASE g # s BY <1>5, <1>14, <2>1, <2>2, <3>2, <4>2
      <4>3. QED BY <4>1, <4>2
    <3>3. QED BY <3>1, <3>2
  <2>4. QED BY <2>3
<1>20. \A g \in G : Pasa(ini2, cant, i + 1, g) => E # {} BY <1>14, <1>16
<1>21. SinHuecosHasta(bits2, i + 1)
  <2> SUFFICES ASSUME NEW b \in Bloques, NEW c \in Bloques, b < i + 1, b < c, bits2[c]
               PROVE  bits2[b]
    BY DEF SinHuecosHasta
  <2>1. b \in Nat /\ c \in Nat BY <1>0
  <2>2. CASE b = i BY <1>4, <2>2
  <2>3. CASE b < i
    <3>1. bits[u] /\ b < u BY <1>0, <1>2, <2>1, <2>3
    <3>2. bits[b] BY <1>2, <2>3, <3>1 DEF Compactando, SinHuecosHasta
    <3>3. b # u BY <1>2, <2>1, <3>1
    <3>4. bits2[b] <=> (bits[b] /\ b # u) \/ b = i BY <1>4
    <3>5. QED BY <3>2, <3>3, <3>4
  <2>4. QED BY <1>0, <2>1, <2>2, <2>3
<1>22. Compactando(G, ini2, cant, bits2, i + 1)
  BY <1>18, <1>19, <1>20, <1>21 DEF Compactando, M, E
<1>23. \A g, h \in G : ini[g] = u /\ ini[h] = u => g = h BY <1>13
<1>24. QED BY <1>1, <1>5, <1>6, <1>7, <1>22, <1>23, <1>25 DEF Altos, E, L, P, Q, Movido

\* A block is freed for each one taken.
LEMMA RondaCuenta ==
  ASSUME NEW bits \in [Bloques -> BOOLEAN], NEW i \in Bloques, NEW u \in Bloques, bits[u],
         u # i => ~bits[i],
         NEW bits2, bits2 = AsignarBloques(DesasignarBloques(bits, {u}), {i})
  PROVE  Cardinality(Libres(bits2)) = Cardinality(Libres(bits))
<1>1. bits2 = [b \in Bloques |-> (bits[b] /\ b # u) \/ b = i]
  BY DEF AsignarBloques, DesasignarBloques
<1>2. CASE u = i
  <2>1. Libres(bits2) = Libres(bits) BY <1>1, <1>2 DEF Libres
  <2>2. QED BY <2>1
<1>3. CASE u # i
  <2> DEFINE S == Libres(bits) \ {i}
  <2>1. /\ Libres(bits) = S \cup {i} /\ i \notin S
        /\ Libres(bits2) = S \cup {u} /\ u \notin S
    BY <1>1, <1>3 DEF Libres
  <2>2. IsFiniteSet(S)
    <3>1. S \in SUBSET Bloques BY DEF Libres
    <3>2. QED BY <3>1, BloquesFinitos
  <2> HIDE DEF S
  <2>3. /\ Cardinality(S \cup {i}) = Cardinality(S) + 1
        /\ Cardinality(S \cup {u}) = Cardinality(S) + 1
    BY <2>1, <2>2, FS_AddElement
  <2>4. QED BY <2>1, <2>3
<1>4. QED BY <1>2, <1>3

-----------------------------------------------------------------------------
(* The same round, with the metadata and the list *)

Entradas == [nombre : Archivos, bloque_inicial : Bloques]
Fichas   == [BLOQUE_INICIAL : Bloques, TAMANIO_ARCHIVO : Tamanios]

Discos(F) ==
  [bits : [Bloques -> BOOLEAN], dat : [Bloques -> Datos], lista : Seq(Entradas), meta : [F -> Fichas]]

Ini(m, G)  == [g \in G |-> m[g].BLOQUE_INICIAL]
Cant(m, G) == [g \in G |-> CantBloques(m[g].TAMANIO_ARCHIVO)]

\* The list has one entry per file, with its first block; the entry of any
\* other file is that of the one being moved and keeps its old block a.
ListaDe(G, a, lista, ini) ==
  /\ \A j \in DOMAIN lista :
       lista[j].bloque_inicial = IF lista[j].nombre \in G THEN ini[lista[j].nombre] ELSE a
  /\ \A g \in G : \E j \in DOMAIN lista : lista[j].nombre = g
  /\ \A j, l \in DOMAIN lista : j # l => lista[j].nombre # lista[l].nombre

\* Every file has its k[g] blocks, which hold c[g] wherever they are.
Guarda(G, k, c, fs, i) ==
  /\ Cant(fs.meta, G) = k
  /\ \A g \in G : \A j \in 0 .. k[g] - 1 :
       fs.dat[Posicion(Ini(fs.meta, G), k, fs.bits, i, g, j)] = c[g][j]

Ronda(F, G, a, n, k, c, fs, i) ==
  /\ fs \in Discos(F)
  /\ Compactando(G, Ini(fs.meta, G), Cant(fs.meta, G), fs.bits, i)
  /\ ListaDe(G, a, fs.lista, Ini(fs.meta, G))
  /\ a \notin Desde(fs.bits, i)
  /\ Cardinality(Libres(fs.bits)) = n
  /\ Guarda(G, k, c, fs, i)

\* The search by first block finds an entry of that block, or there is none.
LEMMA Buscado ==
  ASSUME NEW lista \in Seq(Entradas), NEW b
  PROVE  LET k == BuscarPorBloqueInicial(lista, b)
         IN  \/ k = 0 /\ \A j \in DOMAIN lista : lista[j].bloque_inicial # b
             \/ k # 0 /\ k \in DOMAIN lista /\ lista[k].bloque_inicial = b
<1> DEFINE S == {j \in 1 .. Len(lista) : lista[j].bloque_inicial = b}
           k == BuscarPorBloqueInicial(lista, b)
<1>1. k = IF S # {} THEN Min(S) ELSE 0 BY DEF BuscarPorBloqueInicial, SelectInSeq
<1>2. Len(lista) \in Nat /\ DOMAIN lista = 1 .. Len(lista) OBVIOUS
<1>3. CASE S = {} BY <1>1, <1>2, <1>3
<1>4. CASE S # {}
  <2>1. IsFiniteSet(1 .. Len(lista)) BY <1>2, FS_Interval
  <2>2. IsFiniteSet(S) /\ S \in SUBSET Nat BY <1>2, <2>1, FS_Subset
  <2>3. Min(S) \in S BY <1>4, <2>2, MinimoFinito
  <2> HIDE DEF k
  <2>4. k \in S BY <1>1, <1>4, <2>3
  <2>5. QED BY <1>2, <2>4 DEF k
<1>5. QED BY <1>3, <1>4

\* The first block and the number of blocks of each file, from the metadata.
LEMMA IniCant ==
  ASSUME NEW F, NEW m \in [F -> Fichas], NEW G \in SUBSET F
  PROVE  Ini(m, G) \in [G -> Bloques] /\ Cant(m, G) \in [G -> Nat \ {0}]
<1>1. \A g \in G : m[g].BLOQUE_INICIAL \in Bloques /\ m[g].TAMANIO_ARCHIVO \in Nat
  BY TamaniosNat DEF Fichas
<1>2. \A g \in G : CantBloques(m[g].TAMANIO_ARCHIVO) \in Nat \ {0}
  <2> TAKE g \in G
  <2>1. PICK t \in Nat : t = m[g].TAMANIO_ARCHIVO BY <1>1
  <2>2. CantBloques(t) \in Nat \ {0} BY CantPositiva
  <2>3. QED BY <2>1, <2>2
<1>3. QED BY <1>1, <1>2 DEF Ini, Cant

\* The parts of a disk.
LEMMA DiscoCampos ==
  ASSUME NEW F, NEW fs \in Discos(F)
  PROVE  /\ fs.bits \in [Bloques -> BOOLEAN] /\ fs.dat \in [Bloques -> Datos]
         /\ fs.lista \in Seq(Entradas) /\ fs.meta \in [F -> Fichas]
BY DEF Discos

\* A round of the compaction puts the next block in its place and keeps the files
\* whole.
LEMMA RondaPaso ==
  ASSUME NEW F \in SUBSET Archivos, NEW G \in SUBSET F, NEW a, NEW n, NEW l, NEW c, NEW fs,
         NEW i \in Bloques, Ronda(F, G, a, n, l, c, fs, i)
  PROVE  Ronda(F, G, a, n, l, c, MueveBloque(fs, i), i + 1)
<1> DEFINE Altos == Desde(fs.bits, i)
           u == Min(Altos)
           k == BuscarPorBloqueInicial(fs.lista, u)
           ini == Ini(fs.meta, G)
           cant == Cant(fs.meta, G)
<1>1. fs.bits \in [Bloques -> BOOLEAN] /\ fs.dat \in [Bloques -> Datos]
      /\ fs.lista \in Seq(Entradas) /\ fs.meta \in [F -> Fichas]
  BY DiscoCampos DEF Ronda
<1>2. ini \in [G -> Bloques] /\ cant \in [G -> Nat \ {0}] BY <1>1, IniCant
<1>3. /\ Compactando(G, ini, cant, fs.bits, i) /\ ListaDe(G, a, fs.lista, ini) /\ a \notin Altos
      /\ Cardinality(Libres(fs.bits)) = n /\ fs \in Discos(F)
      /\ cant = l /\ Guarda(G, l, c, fs, i)
  BY DEF Ronda, Guarda
<1>4. CASE Altos = {}
  <2>1. MueveBloque(fs, i) = fs BY <1>4 DEF MueveBloque, Desde
  <2>2. /\ Compactando(G, ini, cant, fs.bits, i + 1)
        /\ \A g \in G : \A j : Posicion(ini, cant, fs.bits, i + 1, g, j) = Posicion(ini, cant, fs.bits, i, g, j)
    <3>1. PICK bits \in [Bloques -> BOOLEAN] : bits = fs.bits BY <1>1
    <3>2. Compactando(G, ini, cant, bits, i) /\ Desde(bits, i) = {} BY <1>3, <1>4, <3>1
    <3> HIDE DEF ini, cant, Altos
    <3>3. /\ Compactando(G, ini, cant, bits, i + 1)
          /\ \A g \in G : \A j : Posicion(ini, cant, bits, i + 1, g, j) = Posicion(ini, cant, bits, i, g, j)
      BY <1>2, <3>2, RondaVacia
    <3>4. QED BY <3>1, <3>3
  <2>3. a \notin Desde(fs.bits, i + 1)
    <3>1. \A b \in Bloques : b >= i + 1 => b >= i BY DEF Bloques
    <3>2. QED BY <1>4, <3>1 DEF Desde
  <2>4. Guarda(G, l, c, fs, i + 1)
    <3>1. \A g \in G : \A j : Posicion(ini, l, fs.bits, i + 1, g, j) = Posicion(ini, l, fs.bits, i, g, j)
      BY <1>3, <2>2
    <3>2. QED BY <1>3, <3>1 DEF Guarda
  <2>5. QED BY <1>3, <2>1, <2>2, <2>3, <2>4 DEF Ronda
<1>5. CASE Altos # {}
  <2> DEFINE bits2 == AsignarBloques(DesasignarBloques(fs.bits, {u}), {i})
             dat2 == [fs.dat EXCEPT ![i] = fs.dat[u]]
             lista2 == Reapuntar(fs.lista, k, i)
             meta2 == [f \in DOMAIN fs.meta |->
                         IF k # 0 /\ f = fs.lista[k].nombre
                         THEN [fs.meta[f] EXCEPT !.BLOQUE_INICIAL = i]
                         ELSE fs.meta[f]]
             fs2 == [bits |-> bits2, dat |-> dat2, lista |-> lista2, meta |-> meta2]
             ini2 == [g \in G |-> IF ini[g] = u THEN i ELSE ini[g]]
  <2>1. MueveBloque(fs, i) = fs2 BY <1>5 DEF MueveBloque, Desde
  <2>2. fs2.bits = bits2 /\ fs2.dat = dat2 /\ fs2.lista = lista2 /\ fs2.meta = meta2 OBVIOUS
  <2>3. /\ Compactando(G, ini2, cant, bits2, i + 1)
        /\ u \in Altos /\ (u # i => ~fs.bits[i])
        /\ Desde(bits2, i + 1) = Altos \ {u}
        /\ \A g, h \in G : ini[g] = u /\ ini[h] = u => g = h
        /\ \A g \in G : \A j \in 0 .. cant[g] - 1 :
             LET p == Posicion(ini, cant, fs.bits, i, g, j)
             IN  /\ p \in Lugar(ini, cant, fs.bits, i, g)
                 /\ Posicion(ini2, cant, bits2, i + 1, g, j) = IF p = u THEN i ELSE p
    <3> HIDE DEF ini, cant, Altos, u, bits2, ini2
    <3>1. Altos = Desde(fs.bits, i) BY DEF Altos
    <3>2. u = Min(Desde(fs.bits, i)) BY DEF u, Altos
    <3>3. ini2 = [g \in G |-> IF ini[g] = u THEN i ELSE ini[g]] BY DEF ini2
    <3>4. bits2 = AsignarBloques(DesasignarBloques(fs.bits, {u}), {i}) BY DEF bits2
    <3>5. PICK bits : bits = fs.bits OBVIOUS
    <3>6. /\ bits \in [Bloques -> BOOLEAN] /\ Compactando(G, ini, cant, bits, i)
          /\ Desde(bits, i) # {} /\ u = Min(Desde(bits, i))
          /\ bits2 = AsignarBloques(DesasignarBloques(bits, {u}), {i})
      BY <1>1, <1>3, <1>5, <3>1, <3>2, <3>4, <3>5
    <3>7. Movido(G, ini, cant, bits, i, u, ini2, bits2) BY <1>2, <3>3, <3>6, RondaMueve
    <3>8. QED BY <3>1, <3>5, <3>7 DEF Movido
  <2>4. u \in Bloques /\ fs.bits[u] /\ u # a BY <1>3, <2>3 DEF Desde
  <2>5. Cardinality(Libres(bits2)) = n BY <1>1, <1>3, <2>3, <2>4, RondaCuenta
  <2>6. a \notin Desde(bits2, i + 1) BY <1>3, <2>3
  <2>7. \/ k = 0 /\ \A j \in DOMAIN fs.lista : fs.lista[j].bloque_inicial # u
        \/ k # 0 /\ k \in DOMAIN fs.lista /\ fs.lista[k].bloque_inicial = u
    BY <1>1, Buscado
  <2>8. bits2 \in [Bloques -> BOOLEAN] BY DEF AsignarBloques
  <2>9. dat2 \in [Bloques -> Datos] BY <1>1, <2>4
  <2>10. DOMAIN fs.meta = F /\ DOMAIN fs.lista = 1 .. Len(fs.lista) /\ Len(fs.lista) \in Nat BY <1>1
  <2>11. \A f \in F : /\ meta2[f] \in Fichas
                      /\ meta2[f].TAMANIO_ARCHIVO = fs.meta[f].TAMANIO_ARCHIVO
                      /\ meta2[f].BLOQUE_INICIAL = IF k # 0 /\ f = fs.lista[k].nombre
                                                   THEN i ELSE fs.meta[f].BLOQUE_INICIAL
    <3> HIDE DEF k
    <3> TAKE f \in F
    <3>1. fs.meta[f] \in Fichas BY <1>1
    <3>2. CASE k # 0 /\ f = fs.lista[k].nombre
      <4>1. meta2[f] = [fs.meta[f] EXCEPT !.BLOQUE_INICIAL = i] BY <2>10, <3>2
      <4>2. QED BY <3>1, <3>2, <4>1 DEF Fichas
    <3>3. CASE ~(k # 0 /\ f = fs.lista[k].nombre)
      <4>1. meta2[f] = fs.meta[f] BY <2>10, <3>3
      <4>2. QED BY <3>1, <3>3, <4>1
    <3>4. QED BY <3>2, <3>3
  <2>12. meta2 \in [F -> Fichas] BY <2>10, <2>11
  <2>13. /\ DOMAIN lista2 = DOMAIN fs.lista
         /\ \A j \in DOMAIN lista2 :
              /\ lista2[j] \in Entradas
              /\ lista2[j].nombre = fs.lista[j].nombre
              /\ lista2[j].bloque_inicial = IF j = k THEN i ELSE fs.lista[j].bloque_inicial
    <3> HIDE DEF k
    <3>1. DOMAIN lista2 = DOMAIN fs.lista BY DEF Reapuntar
    <3>2. ASSUME NEW j \in DOMAIN lista2
          PROVE  /\ lista2[j] \in Entradas
                 /\ lista2[j].nombre = fs.lista[j].nombre
                 /\ lista2[j].bloque_inicial = IF j = k THEN i ELSE fs.lista[j].bloque_inicial
      <4>1. fs.lista[j] \in Entradas BY <1>1, <3>1, <3>2
      <4>2. CASE j = k
        <5>1. lista2[j] = [fs.lista[j] EXCEPT !.bloque_inicial = i] BY <3>1, <4>2 DEF Reapuntar
        <5>2. QED BY <4>1, <4>2, <5>1 DEF Entradas
      <4>3. CASE j # k
        <5>1. lista2[j] = fs.lista[j] BY <3>1, <4>3 DEF Reapuntar
        <5>2. QED BY <4>1, <4>3, <5>1
      <4>4. QED BY <4>2, <4>3
    <3>3. QED BY <3>1, <3>2
  <2>14. lista2 \in Seq(Entradas)
    <3>1. lista2 = [j \in 1 .. Len(fs.lista) |-> lista2[j]] BY <2>10 DEF Reapuntar
    <3> HIDE DEF lista2
    <3>2. \A j \in 1 .. Len(fs.lista) : lista2[j] \in Entradas BY <2>10, <2>13
    <3>3. QED BY <2>10, <3>1, <3>2
  <2>15. \A j \in DOMAIN fs.lista :
           /\ fs.lista[j].nombre \in G => fs.lista[j].bloque_inicial = ini[fs.lista[j].nombre]
           /\ fs.lista[j].nombre \notin G => fs.lista[j].bloque_inicial = a
    BY <1>3 DEF ListaDe
  <2>16. k # 0 => fs.lista[k].nombre \in G /\ ini[fs.lista[k].nombre] = u
    BY <2>4, <2>7, <2>15
  <2>17. \A g \in G : ini[g] = u <=> k # 0 /\ g = fs.lista[k].nombre
    <3> TAKE g \in G
    <3>1. ASSUME ini[g] = u PROVE k # 0 /\ g = fs.lista[k].nombre
      <4>1. PICK j \in DOMAIN fs.lista : fs.lista[j].nombre = g BY <1>3 DEF ListaDe
      <4>2. fs.lista[j].bloque_inicial = u BY <2>15, <3>1, <4>1
      <4>3. k # 0 BY <2>7, <4>2
      <4>4. QED BY <2>3, <2>16, <3>1, <4>3
    <3>2. QED BY <2>16, <3>1
  <2>18. Ini(meta2, G) = ini2
    <3>0. \A g \in G : ini[g] = fs.meta[g].BLOQUE_INICIAL BY DEF Ini
    <3>a. \A g \in G : ini2[g] = IF ini[g] = u THEN i ELSE ini[g] OBVIOUS
    <3> HIDE DEF meta2, ini2, ini, k, u
    <3>1. \A g \in G : meta2[g].BLOQUE_INICIAL = ini2[g] BY <2>11, <2>17, <3>0, <3>a
    <3>2. ini2 = [g \in G |-> ini2[g]] BY DEF ini2
    <3>3. QED BY <3>1, <3>2 DEF Ini
  <2>19. Cant(meta2, G) = cant
    <3>1. \A g \in G : meta2[g].TAMANIO_ARCHIVO = fs.meta[g].TAMANIO_ARCHIVO BY <2>11
    <3> HIDE DEF meta2
    <3>2. QED BY <3>1 DEF Cant
  <2>20. ListaDe(G, a, lista2, ini2)
    <3>0. \A g \in G : ini2[g] = IF ini[g] = u THEN i ELSE ini[g] OBVIOUS
    <3> HIDE DEF lista2, ini2, ini, k, u
    <3>1. \A j \in DOMAIN lista2 :
            lista2[j].bloque_inicial = IF lista2[j].nombre \in G THEN ini2[lista2[j].nombre] ELSE a
      <4> TAKE j \in DOMAIN lista2
      <4>0. PICK g : g = fs.lista[j].nombre OBVIOUS
      <4>1. lista2[j].nombre = g /\ j \in DOMAIN fs.lista BY <2>13, <4>0
      <4>2. CASE j = k
        <5>1. k # 0 BY <2>10, <4>1, <4>2
        <5>2. g \in G /\ ini[g] = u BY <2>16, <4>0, <4>2, <5>1
        <5>3. ini2[g] = i BY <3>0, <5>2
        <5>4. QED BY <2>13, <4>1, <4>2, <5>2, <5>3
      <4>3. CASE j # k
        <5>1. lista2[j].bloque_inicial = fs.lista[j].bloque_inicial BY <2>13, <4>3
        <5>2. CASE g \notin G BY <2>15, <4>0, <4>1, <5>1, <5>2
        <5>3. CASE g \in G
          <6>1. ini[g] # u
            <7>1. SUFFICES ASSUME k # 0, g = fs.lista[k].nombre PROVE FALSE BY <2>17, <5>3
            <7>2. k \in DOMAIN fs.lista BY <2>7, <7>1
            <7>3. QED BY <1>3, <4>0, <4>1, <4>3, <7>1, <7>2 DEF ListaDe
          <6>2. ini2[g] = ini[g] BY <3>0, <5>3, <6>1
          <6>3. QED BY <2>15, <4>0, <4>1, <5>1, <5>3, <6>2
        <5>4. QED BY <5>2, <5>3
      <4>4. QED BY <4>2, <4>3
    <3>2. \A g \in G : \E j \in DOMAIN lista2 : lista2[j].nombre = g
      BY <1>3, <2>13 DEF ListaDe
    <3>3. \A j, h \in DOMAIN lista2 : j # h => lista2[j].nombre # lista2[h].nombre
      BY <1>3, <2>13 DEF ListaDe
    <3>4. QED BY <3>1, <3>2, <3>3 DEF ListaDe
  <2>a. Guarda(G, l, c, fs2, i + 1)
    <3> HIDE DEF bits2, lista2, meta2, ini2, ini, k, u, cant
    <3>1. ASSUME NEW g \in G, NEW j \in 0 .. l[g] - 1
          PROVE  fs2.dat[Posicion(Ini(fs2.meta, G), l, fs2.bits, i + 1, g, j)] = c[g][j]
      <4>1. PICK p : p = Posicion(ini, l, fs.bits, i, g, j) OBVIOUS
      <4>2. fs.dat[p] = c[g][j] BY <1>3, <3>1, <4>1 DEF Guarda, ini
      <4>3. PICK q : q = Posicion(ini2, l, bits2, i + 1, g, j) OBVIOUS
      <4>4. p \in Lugar(ini, l, fs.bits, i, g) /\ q = IF p = u THEN i ELSE p
        BY <1>3, <2>3, <3>1, <4>1, <4>3
      <4>5. p \in Bloques /\ fs.bits[p] BY <1>3, <4>4 DEF Compactando, Usados
      <4>6. p # u => p # i BY <2>3, <4>5
      <4>7. dat2[q] = fs.dat[p] BY <1>1, <2>4, <4>4, <4>5, <4>6
      <4>8. QED BY <2>2, <2>18, <4>2, <4>3, <4>7
    <3>2. Cant(fs2.meta, G) = l BY <1>3, <2>2, <2>19
    <3>3. QED BY <3>1, <3>2 DEF Guarda
  <2> HIDE DEF bits2, dat2, lista2, meta2
  <2>21. fs2 \in Discos(F) BY <2>8, <2>9, <2>12, <2>14 DEF Discos
  <2> HIDE DEF ini2, fs2
  <2>22. QED BY <2>1, <2>2, <2>3, <2>5, <2>6, <2>18, <2>19, <2>20, <2>21, <2>a DEF Ronda
<1>6. QED BY <1>4, <1>5

-----------------------------------------------------------------------------
(* The whole loop *)

\* The discs before each round, from block p up to block m
EsRecorrido(g, fs, p, m) ==
  g = [i \in p .. m |-> IF i = p THEN fs ELSE MueveBloque(g[i - 1], i - 1)]

\* The rounds of the compaction, one after another.
LEMMA HayRecorrido ==
  ASSUME NEW fs, NEW p \in Bloques
  PROVE  \E g : EsRecorrido(g, fs, p, BLOCK_COUNT)
<1> DEFINE S == {m \in p .. BLOCK_COUNT : ~ \E g : EsRecorrido(g, fs, p, m)}
<1>0. p \in Nat /\ p < BLOCK_COUNT BY DEF Bloques
<1>1. SUFFICES ASSUME S # {} PROVE FALSE
  <2>1. BLOCK_COUNT \in p .. BLOCK_COUNT BY <1>0
  <2>2. QED BY <1>1, <2>1
<1>2. S \in SUBSET Nat /\ IsFiniteSet(S)
  <2>1. IsFiniteSet(p .. BLOCK_COUNT) BY <1>0, FS_Interval
  <2>2. S \subseteq p .. BLOCK_COUNT /\ p .. BLOCK_COUNT \subseteq Nat BY <1>0
  <2> HIDE DEF S
  <2>3. QED BY <2>1, <2>2, FS_Subset
<1>3. PICK m \in S : \A y \in S : m <= y BY <1>1, <1>2, MinimoFinito
<1>4. m \in p .. BLOCK_COUNT /\ ~ \E g : EsRecorrido(g, fs, p, m) OBVIOUS
<1> HIDE DEF S
<1>5. m # p
  <2> SUFFICES ASSUME m = p PROVE FALSE OBVIOUS
  <2> DEFINE g == [i \in p .. p |-> fs]
  <2>1. \A i \in p .. p : i = p BY <1>0
  <2>2. g = [i \in p .. p |-> IF i = p THEN fs ELSE MueveBloque(g[i - 1], i - 1)] BY <2>1
  <2> HIDE DEF g
  <2>3. EsRecorrido(g, fs, p, m) BY <2>2 DEF EsRecorrido
  <2>4. QED BY <1>4, <2>3
<1>6. m - 1 \in p .. BLOCK_COUNT /\ m \in Nat /\ ~(m <= m - 1) BY <1>0, <1>4, <1>5
<1>7. m - 1 \notin S BY <1>3, <1>6
<1>8. PICK g : EsRecorrido(g, fs, p, m - 1) BY <1>6, <1>7 DEF S
<1> DEFINE h == [i \in p .. m |-> IF i = m THEN MueveBloque(g[m - 1], m - 1) ELSE g[i]]
<1>9. \A i \in p .. m : h[i] = IF i = p THEN fs ELSE MueveBloque(h[i - 1], i - 1)
  <2> SUFFICES ASSUME NEW i \in p .. m
               PROVE  h[i] = IF i = p THEN fs ELSE MueveBloque(h[i - 1], i - 1)
    OBVIOUS
  <2>1. i # p => i - 1 \in p .. m /\ i - 1 # m BY <1>0, <1>6
  <2>2. i # p => h[i - 1] = g[i - 1] BY <2>1
  <2>3. CASE i = m BY <1>5, <2>2, <2>3
  <2>4. CASE i # m
    <3>1. i \in p .. m - 1 BY <1>0, <1>6, <2>4
    <3>2. g[i] = IF i = p THEN fs ELSE MueveBloque(g[i - 1], i - 1)
      BY <1>8, <3>1 DEF EsRecorrido
    <3>3. h[i] = g[i] BY <2>4
    <3>4. QED BY <2>2, <3>2, <3>3
  <2>5. QED BY <2>3, <2>4
<1>10. h = [i \in p .. m |-> h[i]] OBVIOUS
<1> HIDE DEF h
<1>11. h = [i \in p .. m |-> IF i = p THEN fs ELSE MueveBloque(h[i - 1], i - 1)] BY <1>9, <1>10
<1>12. EsRecorrido(h, fs, p, m) BY <1>11 DEF EsRecorrido
<1>13. QED BY <1>4, <1>12

\* The loop as the composition of its rounds
LEMMA CompactarEsRecorrido ==
  ASSUME NEW fs, NEW p \in Bloques, p = Min(Libres(fs.bits))
  PROVE  \E g : EsRecorrido(g, fs, p, BLOCK_COUNT) /\ Compactar(fs) = g[BLOCK_COUNT]
<1> DEFINE g == CHOOSE g : EsRecorrido(g, fs, p, BLOCK_COUNT)
<1>1. EsRecorrido(g, fs, p, BLOCK_COUNT) BY HayRecorrido
<1>2. Compactar(fs) = g[BLOCK_COUNT] BY DEF Compactar, EsRecorrido
<1> HIDE DEF g
<1>3. QED BY <1>1, <1>2

\* After its rounds the compaction has gone over the whole disk.
LEMMA Recorrido ==
  ASSUME NEW F \in SUBSET Archivos, NEW G \in SUBSET F, NEW a, NEW n, NEW k, NEW c, NEW fs,
         NEW p \in Bloques, p = Min(Libres(fs.bits)), Ronda(F, G, a, n, k, c, fs, p)
  PROVE  Ronda(F, G, a, n, k, c, Compactar(fs), BLOCK_COUNT)
<1>0. p \in Nat /\ p < BLOCK_COUNT BY DEF Bloques
<1>1. PICK g : EsRecorrido(g, fs, p, BLOCK_COUNT) /\ Compactar(fs) = g[BLOCK_COUNT]
  BY CompactarEsRecorrido
<1>2. \A i \in p .. BLOCK_COUNT : g[i] = IF i = p THEN fs ELSE MueveBloque(g[i - 1], i - 1)
  BY <1>1 DEF EsRecorrido
<1> DEFINE S == {i \in p .. BLOCK_COUNT : ~ Ronda(F, G, a, n, k, c, g[i], i)}
<1>3. S = {}
  <2> SUFFICES ASSUME S # {} PROVE FALSE OBVIOUS
  <2>1. S \in SUBSET Nat /\ IsFiniteSet(S)
    <3>1. IsFiniteSet(p .. BLOCK_COUNT) BY <1>0, FS_Interval
    <3>2. S \subseteq p .. BLOCK_COUNT /\ p .. BLOCK_COUNT \subseteq Nat BY <1>0
    <3> HIDE DEF S
    <3>3. QED BY <3>1, <3>2, FS_Subset
  <2>2. PICK m \in S : \A y \in S : m <= y BY <2>1, MinimoFinito
  <2>3. m \in p .. BLOCK_COUNT /\ ~ Ronda(F, G, a, n, k, c, g[m], m) OBVIOUS
  <2>4. m # p BY <1>2, <2>3
  <2>5. m - 1 \in p .. BLOCK_COUNT /\ m - 1 \in Bloques /\ ~(m <= m - 1) /\ m - 1 + 1 = m
    BY <1>0, <2>3, <2>4 DEF Bloques
  <2>6. Ronda(F, G, a, n, k, c, g[m - 1], m - 1)
    <3>1. m - 1 \notin S BY <2>2, <2>5
    <3>2. QED BY <2>5, <3>1
  <2>7. g[m] = MueveBloque(g[m - 1], m - 1) BY <1>2, <2>3, <2>4
  <2> HIDE DEF S
  <2>a. PICK j \in Bloques : j = m - 1 BY <2>5
  <2>8. Ronda(F, G, a, n, k, c, MueveBloque(g[j], j), j + 1) BY <2>6, <2>a, RondaPaso
  <2>9. QED BY <2>3, <2>5, <2>7, <2>8, <2>a
<1>4. BLOCK_COUNT \in p .. BLOCK_COUNT BY <1>0
<1>5. QED BY <1>1, <1>3, <1>4

-----------------------------------------------------------------------------
(* The files of the device *)

TiposDelDisco == TypeOK /\ ArchivosDisjuntos /\ BitmapExacto

\* The blocks of each file are a run inside the disk, marked in the bitmap.
LEMMA BloquesDeArchivo ==
  ASSUME TiposDelDisco, NEW f \in Existentes
  PROVE  /\ metadata[f] \in Fichas /\ metadata[f].BLOQUE_INICIAL \in Bloques
         /\ metadata[f].TAMANIO_ARCHIVO \in Tamanios
         /\ CantBloques(metadata[f].TAMANIO_ARCHIVO) \in Nat
         /\ CantBloques(metadata[f].TAMANIO_ARCHIVO) >= 1
         /\ metadata[f].BLOQUE_INICIAL \in BloquesDe(f)
         /\ BloquesDe(f) \subseteq Bloques
         /\ \A b \in BloquesDe(f) : bitmap_bloques[b]
         /\ IsFiniteSet(BloquesDe(f))
         /\ Cardinality(BloquesDe(f)) = CantBloques(metadata[f].TAMANIO_ARCHIVO)
<1>1. metadata[f] \in Fichas BY DEF TiposDelDisco, TypeOK, Fichas
<1>2. metadata[f].BLOQUE_INICIAL \in Bloques /\ metadata[f].TAMANIO_ARCHIVO \in Tamanios
  BY <1>1 DEF Fichas
<1>3. PICK a \in Nat : a = metadata[f].BLOQUE_INICIAL BY <1>2, BloquesFinitos
<1>4. PICK t \in Nat : t = metadata[f].TAMANIO_ARCHIVO BY <1>2, TamaniosNat
<1>5. CantBloques(t) \in Nat /\ CantBloques(t) >= 1 BY CantPositiva
<1>6. PICK n \in Nat : n = CantBloques(t) /\ n >= 1 BY <1>5
<1>7. BloquesDe(f) = Tramo(a, n) BY <1>3, <1>4, <1>6 DEF BloquesDe
<1>8. IsFiniteSet(Tramo(a, n)) /\ Cardinality(Tramo(a, n)) = n BY TramoCuenta
<1>9. a \in Tramo(a, n) BY <1>6 DEF Tramo
<1>10. BloquesDe(f) \subseteq Bloques /\ \A b \in BloquesDe(f) : bitmap_bloques[b]
  <2>1. BloquesDe(f) \subseteq Bloques \ Libres(bitmap_bloques)
    BY DEF TiposDelDisco, BitmapExacto
  <2>2. QED BY <2>1 DEF Libres
<1>11. QED BY <1>1, <1>2, <1>3, <1>4, <1>6, <1>7, <1>8, <1>9, <1>10

\* A used block is some file's.
LEMMA BloqueUsado ==
  ASSUME TiposDelDisco, NEW b \in Bloques
  PROVE  bitmap_bloques[b] <=> \E f \in Existentes : b \in BloquesDe(f)
<1>1. b \in Bloques \ Libres(bitmap_bloques) <=> bitmap_bloques[b] BY DEF Libres
<1>2. b \in Bloques \ Libres(bitmap_bloques) <=> \E f \in Existentes : b \in BloquesDe(f)
  BY DEF TiposDelDisco, BitmapExacto
<1>3. QED BY <1>1, <1>2

\* A faithful list has exactly one entry of each file, with its first block.
LEMMA ListaNombra ==
  ASSUME TypeOK, ListaFiel
  PROVE  /\ Len(lista_archivos) \in Nat /\ DOMAIN lista_archivos = 1 .. Len(lista_archivos)
         /\ IsFiniteSet(Existentes) /\ Cardinality(Existentes) = Len(lista_archivos)
         /\ \A j \in DOMAIN lista_archivos :
              /\ lista_archivos[j].nombre \in Existentes
              /\ lista_archivos[j] = [nombre |-> lista_archivos[j].nombre,
                   bloque_inicial |-> metadata[lista_archivos[j].nombre].BLOQUE_INICIAL]
         /\ \A g \in Existentes : \E j \in DOMAIN lista_archivos : lista_archivos[j].nombre = g
         /\ \A j, l \in DOMAIN lista_archivos :
              j # l => lista_archivos[j].nombre # lista_archivos[l].nombre
<1>1. Len(lista_archivos) \in Nat /\ DOMAIN lista_archivos = 1 .. Len(lista_archivos)
  BY DEF TypeOK
<1>2. ASSUME NEW j \in DOMAIN lista_archivos
      PROVE  /\ lista_archivos[j].nombre \in Existentes
             /\ lista_archivos[j] = [nombre |-> lista_archivos[j].nombre,
                  bloque_inicial |-> metadata[lista_archivos[j].nombre].BLOQUE_INICIAL]
  <2>1. lista_archivos[j] \in ToSet(lista_archivos) BY DEF ToSet
  <2>2. PICK f \in Existentes :
          lista_archivos[j] = [nombre |-> f, bloque_inicial |-> metadata[f].BLOQUE_INICIAL]
    BY <2>1 DEF ListaFiel
  <2>3. lista_archivos[j].nombre = f BY <2>2
  <2>4. QED BY <2>2, <2>3
<1>3. \A g \in Existentes : \E j \in DOMAIN lista_archivos : lista_archivos[j].nombre = g
  <2> TAKE g \in Existentes
  <2>1. [nombre |-> g, bloque_inicial |-> metadata[g].BLOQUE_INICIAL] \in ToSet(lista_archivos)
    BY DEF ListaFiel
  <2>2. PICK j \in DOMAIN lista_archivos :
          lista_archivos[j] = [nombre |-> g, bloque_inicial |-> metadata[g].BLOQUE_INICIAL]
    BY <2>1 DEF ToSet
  <2>3. lista_archivos[j].nombre = g BY <2>2
  <2>4. QED BY <2>3
<1> DEFINE S == 1 .. Len(lista_archivos)
           m == [j \in S |-> lista_archivos[j].nombre]
<1>4. IsFiniteSet(S) /\ Cardinality(S) = Len(lista_archivos)
  <2>1. PICK n \in Nat : n = Len(lista_archivos) BY <1>1
  <2>2. Tramo(1, n) = 1 .. n /\ IsFiniteSet(Tramo(1, n)) /\ Cardinality(Tramo(1, n)) = n
    BY TramoCuenta DEF Tramo
  <2>3. QED BY <2>1, <2>2
<1>5. m \in Surjection(S, Existentes) BY <1>1, <1>2, <1>3 DEF Surjection
<1>6. Cardinality(Existentes) = Len(lista_archivos) BY DEF ListaFiel
<1> HIDE DEF m, S
<1>7. m \in Injection(S, Existentes) /\ IsFiniteSet(Existentes)
  <2>1. IsFiniteSet(Existentes) BY <1>4, <1>5, FS_Surjection
  <2>2. m \in Injection(S, Existentes) BY <1>4, <1>5, <1>6, FS_SurjSameCardinalityImpliesInj
  <2>3. QED BY <2>1, <2>2
<1>8. \A j, l \in DOMAIN lista_archivos :
        j # l => lista_archivos[j].nombre # lista_archivos[l].nombre
  BY <1>1, <1>7 DEF m, S, Injection, IsInjective
<1>9. QED BY <1>1, <1>2, <1>3, <1>6, <1>7, <1>8

\* The entry the code finds by the first block of a file is that file's.
LEMMA EntradaDe ==
  ASSUME TiposDelDisco, ListaFiel, NEW f \in Existentes
  PROVE  LET k == BuscarPorBloqueInicial(lista_archivos, metadata[f].BLOQUE_INICIAL)
         IN  k \in DOMAIN lista_archivos /\ k # 0 /\ lista_archivos[k].nombre = f
<1> DEFINE k == BuscarPorBloqueInicial(lista_archivos, metadata[f].BLOQUE_INICIAL)
<1>1. lista_archivos \in Seq(Entradas) /\ TypeOK BY DEF TiposDelDisco, TypeOK, Entradas
<1>2. \/ k = 0 /\ \A j \in DOMAIN lista_archivos :
                    lista_archivos[j].bloque_inicial # metadata[f].BLOQUE_INICIAL
      \/ /\ k # 0 /\ k \in DOMAIN lista_archivos
         /\ lista_archivos[k].bloque_inicial = metadata[f].BLOQUE_INICIAL
  BY <1>1, Buscado
<1> HIDE DEF k
<1>3. PICK j \in DOMAIN lista_archivos : lista_archivos[j].nombre = f BY <1>1, ListaNombra
<1>4. lista_archivos[j].bloque_inicial = metadata[f].BLOQUE_INICIAL
  <2>1. lista_archivos[j] = [nombre |-> f, bloque_inicial |-> metadata[f].BLOQUE_INICIAL]
    BY <1>1, <1>3, ListaNombra
  <2>2. QED BY <2>1
<1>5. /\ k # 0 /\ k \in DOMAIN lista_archivos
      /\ lista_archivos[k].bloque_inicial = metadata[f].BLOQUE_INICIAL
  BY <1>2, <1>4
<1>6. PICK g \in Existentes : g = lista_archivos[k].nombre BY <1>1, <1>5, ListaNombra
<1>7. metadata[g].BLOQUE_INICIAL = metadata[f].BLOQUE_INICIAL
  <2>1. lista_archivos[k] = [nombre |-> g, bloque_inicial |-> metadata[g].BLOQUE_INICIAL]
    BY <1>1, <1>5, <1>6, ListaNombra
  <2>2. lista_archivos[k].bloque_inicial = metadata[g].BLOQUE_INICIAL BY <2>1
  <2>3. QED BY <1>5, <2>2
<1>8. metadata[g].BLOQUE_INICIAL \in BloquesDe(g) /\ metadata[f].BLOQUE_INICIAL \in BloquesDe(f)
  BY BloquesDeArchivo
<1>9. g = f BY <1>7, <1>8 DEF TiposDelDisco, ArchivosDisjuntos
<1>10. QED BY <1>5, <1>6, <1>9 DEF k

\* Freeing its blocks frees exactly as many as the file holds.
LEMMA Liberados ==
  ASSUME TiposDelDisco, NEW f \in Existentes
  PROVE  LET bits == SinSusBloques(f).bits
         IN  /\ bits \in [Bloques -> BOOLEAN]
             /\ \A b \in Bloques : bits[b] <=> bitmap_bloques[b] /\ b \notin BloquesDe(f)
             /\ \A b \in Bloques : bits[b] <=> \E g \in Existentes \ {f} : b \in BloquesDe(g)
             /\ Libres(bits) = Libres(bitmap_bloques) \cup BloquesDe(f)
             /\ Cardinality(Libres(bits)) =
                  Cardinality(Libres(bitmap_bloques)) + Cardinality(BloquesDe(f))
             /\ Cardinality(Libres(bitmap_bloques)) \in Nat
<1> DEFINE bits == SinSusBloques(f).bits
<1>1. bits = [b \in Bloques |-> bitmap_bloques[b] /\ b \notin BloquesDe(f)]
  BY DEF SinSusBloques, DesasignarBloques
<1>2. \A b \in Bloques : bits[b] <=> bitmap_bloques[b] /\ b \notin BloquesDe(f) BY <1>1
<1>3. bits \in [Bloques -> BOOLEAN]
  <2>1. bitmap_bloques \in [Bloques -> BOOLEAN] BY DEF TiposDelDisco, TypeOK
  <2>2. QED BY <1>1, <2>1
<1> HIDE DEF bits
<1>4. \A b \in Bloques : bits[b] <=> \E g \in Existentes \ {f} : b \in BloquesDe(g)
  <2>1. \A g \in Existentes : g # f => BloquesDe(g) \cap BloquesDe(f) = {}
    BY DEF TiposDelDisco, ArchivosDisjuntos
  <2>2. QED BY <1>2, <2>1, BloqueUsado
<1>5. BloquesDe(f) \subseteq Bloques /\ \A b \in BloquesDe(f) : bitmap_bloques[b]
  BY BloquesDeArchivo
<1>6. Libres(bits) = Libres(bitmap_bloques) \cup BloquesDe(f) BY <1>2, <1>5 DEF Libres
<1>7. Libres(bitmap_bloques) \cap BloquesDe(f) = {} BY <1>5 DEF Libres
<1>8. IsFiniteSet(Libres(bitmap_bloques)) /\ IsFiniteSet(BloquesDe(f))
  <2>1. Libres(bitmap_bloques) \in SUBSET Bloques BY DEF Libres
  <2>2. QED BY <1>5, <2>1, BloquesFinitos
<1>9. /\ Cardinality(Libres(bitmap_bloques)) \in Nat /\ Cardinality(BloquesDe(f)) \in Nat
  BY <1>8, FS_CardinalityType
<1>10. Cardinality(Libres(bits)) =
         Cardinality(Libres(bitmap_bloques)) + Cardinality(BloquesDe(f))
  <2>1. Cardinality({}) = 0 BY FS_EmptySet
  <2>2. Cardinality(Libres(bits)) =
          Cardinality(Libres(bitmap_bloques)) + Cardinality(BloquesDe(f)) - Cardinality({})
    BY <1>6, <1>7, <1>8, FS_Union
  <2>3. QED BY <1>9, <2>1, <2>2
<1>11. QED BY <1>2, <1>3, <1>4, <1>6, <1>9, <1>10 DEF bits

\* What each file of G holds
Piezas(m, dat, G) ==
  [g \in G |-> Leido(dat, m[g].BLOQUE_INICIAL, CantBloques(m[g].TAMANIO_ARCHIVO))]

\* The loop of compactar_bloques starts with every other file in one piece.
LEMMA Arranque ==
  ASSUME TiposDelDisco, ListaFiel, NEW f \in Existentes,
         NEW fs, fs = SinSusBloques(f)
  PROVE  /\ Min(Libres(fs.bits)) \in Bloques
         /\ Ronda(Existentes, Existentes \ {f}, metadata[f].BLOQUE_INICIAL,
                  Cardinality(Libres(fs.bits)), Cant(metadata, Existentes \ {f}),
                  Piezas(metadata, bloques_dat, Existentes \ {f}), fs, Min(Libres(fs.bits)))
<1> DEFINE G == Existentes \ {f}
           a == metadata[f].BLOQUE_INICIAL
           c == Piezas(metadata, bloques_dat, G)
           p == Min(Libres(fs.bits))
           ini == Ini(fs.meta, G)
           cant == Cant(fs.meta, G)
<1>1. fs.dat = bloques_dat /\ fs.lista = lista_archivos /\ fs.meta = metadata
  BY DEF SinSusBloques
<1>2. /\ fs.bits \in [Bloques -> BOOLEAN]
      /\ \A b \in Bloques : fs.bits[b] <=> bitmap_bloques[b] /\ b \notin BloquesDe(f)
      /\ \A b \in Bloques : fs.bits[b] <=> \E g \in G : b \in BloquesDe(g)
  BY Liberados
<1>3. a \in Bloques /\ a \in BloquesDe(f) BY BloquesDeArchivo
<1>4. a \in Libres(fs.bits) BY <1>2, <1>3 DEF Libres
<1>5. p \in Libres(fs.bits) /\ \A y \in Libres(fs.bits) : p <= y
  <2>1. Libres(fs.bits) \subseteq Bloques BY DEF Libres
  <2>2. QED BY <1>4, <2>1, PrimerBloque
<1>6. p \in Bloques /\ ~fs.bits[p] BY <1>5 DEF Libres
<1>7. fs \in Discos(Existentes)
  <2>1. fs = [bits |-> fs.bits, dat |-> bloques_dat, lista |-> lista_archivos, meta |-> metadata]
    BY DEF SinSusBloques
  <2>2. QED BY <1>2, <2>1 DEF TiposDelDisco, TypeOK, Discos, Entradas, Fichas
<1>8. \A g \in G : /\ ini[g] = metadata[g].BLOQUE_INICIAL
                   /\ cant[g] = CantBloques(metadata[g].TAMANIO_ARCHIVO)
                   /\ Tramo(ini[g], cant[g]) = BloquesDe(g)
  BY <1>1 DEF Ini, Cant, BloquesDe
<1>9. \A g \in G : ini[g] \in Nat /\ cant[g] \in Nat
  <2> HIDE DEF ini, cant
  <2> TAKE g \in G
  <2>1. metadata[g].BLOQUE_INICIAL \in Nat /\ CantBloques(metadata[g].TAMANIO_ARCHIVO) \in Nat
    BY BloquesDeArchivo, BloquesFinitos
  <2>2. QED BY <1>8, <2>1
<1>a. \A g \in G : \A j \in 0 .. cant[g] - 1 : c[g][j] = bloques_dat[ini[g] + j]
  BY <1>8 DEF Piezas, Leido
<1>b. cant = Cant(metadata, G) BY <1>1
<1> HIDE DEF p, ini, cant, a, c
<1>10. \A g \in G : ~Pasa(ini, cant, p, g)
  <2> SUFFICES ASSUME NEW g \in G, Pasa(ini, cant, p, g) PROVE FALSE OBVIOUS
  <2>1. p \in Nat BY <1>6, BloquesFinitos
  <2>2. p \in Tramo(ini[g], cant[g]) BY <1>9, <2>1 DEF Pasa, Tramo
  <2>3. QED BY <1>2, <1>6, <1>8, <2>2
<1>11. \A g \in G : Lugar(ini, cant, fs.bits, p, g) = BloquesDe(g) BY <1>8, <1>10 DEF Lugar
<1>12. SinHuecosHasta(fs.bits, p)
  <2> SUFFICES ASSUME NEW b \in Bloques, b < p, ~fs.bits[b] PROVE FALSE
    BY DEF SinHuecosHasta
  <2>1. b \in Libres(fs.bits) BY DEF Libres
  <2>2. b \in Nat /\ p \in Nat BY <1>6, BloquesFinitos
  <2>3. QED BY <1>5, <2>1, <2>2
<1>13. Compactando(G, ini, cant, fs.bits, p)
  <2>1. \A g, h \in G : g # h => BloquesDe(g) \cap BloquesDe(h) = {}
    BY DEF TiposDelDisco, ArchivosDisjuntos
  <2>2. \A g \in G : BloquesDe(g) \subseteq Bloques BY BloquesDeArchivo
  <2>3. Usados(fs.bits) = UNION {BloquesDe(g) : g \in G} BY <1>2, <2>2 DEF Usados
  <2>4. UNION {BloquesDe(g) : g \in G} = UNION {Lugar(ini, cant, fs.bits, p, g) : g \in G}
    BY <1>11
  <2>5. QED BY <1>10, <1>11, <1>12, <2>1, <2>3, <2>4 DEF Compactando
<1>14. ListaDe(G, a, fs.lista, ini)
  <2>1. \A j \in DOMAIN lista_archivos :
          lista_archivos[j].bloque_inicial = IF lista_archivos[j].nombre \in G
                                             THEN ini[lista_archivos[j].nombre] ELSE a
    <3> TAKE j \in DOMAIN lista_archivos
    <3>1. PICK g \in Existentes : g = lista_archivos[j].nombre BY ListaNombra DEF TiposDelDisco
    <3>2. lista_archivos[j] = [nombre |-> g, bloque_inicial |-> metadata[g].BLOQUE_INICIAL]
      BY <3>1, ListaNombra DEF TiposDelDisco
    <3>3. lista_archivos[j].bloque_inicial = metadata[g].BLOQUE_INICIAL BY <3>2
    <3>4. QED BY <1>8, <3>1, <3>3 DEF a
  <2>2. QED BY <1>1, <2>1, ListaNombra DEF TiposDelDisco, ListaDe
<1>15. a \notin Desde(fs.bits, p) BY <1>4 DEF Libres, Desde
<1>16. Guarda(G, cant, c, fs, p)
  <2>1. \A g \in G : \A j : Posicion(ini, cant, fs.bits, p, g, j) = ini[g] + j
    BY <1>10 DEF Posicion
  <2>2. \A g \in G : \A j \in 0 .. cant[g] - 1 :
          fs.dat[Posicion(ini, cant, fs.bits, p, g, j)] = c[g][j]
    BY <1>1, <1>a, <2>1
  <2>3. QED BY <2>2 DEF Guarda, ini, cant
<1>17. QED BY <1>6, <1>7, <1>13, <1>14, <1>15, <1>16, <1>b DEF Ronda, a, p, ini, cant, c

-----------------------------------------------------------------------------
(* The disc after compaction *)

\* The free blocks end up together at the end of the disk: any run that they
\* are enough for has a place.
LEMMA LibresAlFinal ==
  ASSUME NEW bits \in [Bloques -> BOOLEAN], SinHuecosHasta(bits, BLOCK_COUNT),
         NEW c \in Nat, c >= 1, c <= Cardinality(Libres(bits))
  PROVE  Huecos(bits, c) # {}
<1> DEFINE m == Min(Libres(bits))
<1>1. Libres(bits) # {}
  <2>1. Cardinality({}) = 0 BY FS_EmptySet
  <2>2. QED BY <2>1
<1>2. m \in Libres(bits) /\ \A y \in Libres(bits) : m <= y
  <2>1. Libres(bits) \subseteq Bloques BY DEF Libres
  <2>2. QED BY <1>1, <2>1, PrimerBloque
<1>3. m \in Nat /\ m < BLOCK_COUNT /\ ~bits[m] /\ m \in Bloques BY <1>2 DEF Libres, Bloques
<1> HIDE DEF m
<1>4. Libres(bits) = Tramo(m, BLOCK_COUNT - m)
  <2>1. \A b \in Bloques : b \in Nat /\ b < BLOCK_COUNT BY DEF Bloques
  <2>2. \A b \in Bloques : ~bits[b] <=> m <= b
    <3> TAKE b \in Bloques
    <3>1. ~bits[b] => m <= b BY <1>2 DEF Libres
    <3>2. m < b => ~bits[b] BY <1>3, <2>1 DEF SinHuecosHasta
    <3>3. m <= b => m < b \/ m = b BY <1>3, <2>1
    <3>4. QED BY <1>3, <3>1, <3>2, <3>3
  <2>3. Libres(bits) = {b \in Bloques : m <= b} BY <2>2 DEF Libres
  <2>4. QED BY <1>3, <2>3 DEF Bloques, Tramo
<1>5. PICK q \in Nat : q = BLOCK_COUNT - m BY <1>3
<1>6. Cardinality(Libres(bits)) = q BY <1>3, <1>4, <1>5, TramoCuenta
<1>7. Tramo(m, c) \subseteq Libres(bits) BY <1>3, <1>4, <1>5, <1>6 DEF Tramo
<1>8. QED BY <1>3, <1>7 DEF Huecos

\* Every file but f is in one piece, with the blocks it had and what they
\* held, and there is room for f.
Compacto(f, fs) ==
  LET en(g) == Tramo(fs.meta[g].BLOQUE_INICIAL, CantBloques(fs.meta[g].TAMANIO_ARCHIVO))
  IN  /\ fs \in Discos(Existentes)
      /\ \A g, h \in Existentes \ {f} : g # h => en(g) \cap en(h) = {}
      /\ Usados(fs.bits) = UNION {en(g) : g \in Existentes \ {f}}
      /\ \A c \in Nat :
           c >= 1 /\ c <= Cardinality(Libres(bitmap_bloques)) + Cardinality(BloquesDe(f))
             => Huecos(fs.bits, c) # {}
      /\ Cant(fs.meta, Existentes \ {f}) = Cant(metadata, Existentes \ {f})
      /\ Piezas(fs.meta, fs.dat, Existentes \ {f}) = Piezas(metadata, bloques_dat, Existentes \ {f})

\* After the compaction the used blocks come first, and each file keeps its data.
LEMMA Compactado ==
  ASSUME TiposDelDisco, ListaFiel, NEW f \in Existentes,
         NEW fs, fs = Compactar(SinSusBloques(f))
  PROVE  Compacto(f, fs)
<1> DEFINE G == Existentes \ {f}
           a == metadata[f].BLOQUE_INICIAL
           n == Cardinality(Libres(SinSusBloques(f).bits))
           ini == Ini(fs.meta, G)
           cant == Cant(fs.meta, G)
           k == Cant(metadata, G)
           c == Piezas(metadata, bloques_dat, G)
           en(g) == Tramo(fs.meta[g].BLOQUE_INICIAL, CantBloques(fs.meta[g].TAMANIO_ARCHIVO))
<1>1. Ronda(Existentes, G, a, n, k, c, fs, BLOCK_COUNT)
  <2>1. PICK fs0 : fs0 = SinSusBloques(f) OBVIOUS
  <2>2. PICK p : p = Min(Libres(fs0.bits)) OBVIOUS
  <2>3. p \in Bloques /\ Ronda(Existentes, G, a, n, k, c, fs0, p) BY <2>1, <2>2, Arranque
  <2>4. Existentes \in SUBSET Archivos /\ G \in SUBSET Existentes BY DEF TiposDelDisco, TypeOK
  <2> HIDE DEF G, a, n, k, c
  <2>5. Ronda(Existentes, G, a, n, k, c, Compactar(fs0), BLOCK_COUNT)
    BY <2>2, <2>3, <2>4, Recorrido
  <2>6. QED BY <2>1, <2>5
<1>2. /\ fs \in Discos(Existentes) /\ Compactando(G, ini, cant, fs.bits, BLOCK_COUNT)
      /\ Cardinality(Libres(fs.bits)) = n /\ Guarda(G, k, c, fs, BLOCK_COUNT)
  BY <1>1 DEF Ronda
<1>3. fs.bits \in [Bloques -> BOOLEAN] BY <1>2, DiscoCampos
<1>4. Desde(fs.bits, BLOCK_COUNT) = {} BY DEF Desde, Bloques
<1>5. \A g \in G : Lugar(ini, cant, fs.bits, BLOCK_COUNT, g) = en(g)
  <2> TAKE g \in G
  <2>1. ~Pasa(ini, cant, BLOCK_COUNT, g) BY <1>2, <1>4 DEF Compactando
  <2>2. Lugar(ini, cant, fs.bits, BLOCK_COUNT, g) = Tramo(ini[g], cant[g]) BY <2>1 DEF Lugar
  <2>3. QED BY <2>2 DEF Ini, Cant
<1>a. cant = k /\ Piezas(fs.meta, fs.dat, G) = c
  <2>1. cant = k BY <1>2 DEF Guarda
  <2>2. \A g \in G : ~Pasa(ini, k, BLOCK_COUNT, g) BY <1>2, <1>4, <2>1 DEF Compactando
  <2>3. \A g \in G : /\ ini[g] = fs.meta[g].BLOQUE_INICIAL
                     /\ cant[g] = CantBloques(fs.meta[g].TAMANIO_ARCHIVO)
                     /\ k[g] = CantBloques(metadata[g].TAMANIO_ARCHIVO)
    BY DEF Ini, Cant
  <2>4. c = [g \in G |-> [j \in 0 .. k[g] - 1 |-> c[g][j]]] BY <2>3 DEF Piezas, Leido
  <2>5. Piezas(fs.meta, fs.dat, G) = [g \in G |-> [j \in 0 .. k[g] - 1 |-> fs.dat[ini[g] + j]]]
    BY <2>1, <2>3 DEF Piezas, Leido
  <2> HIDE DEF c, k, cant, G
  <2>6. \A g \in G : \A j \in 0 .. k[g] - 1 : fs.dat[ini[g] + j] = c[g][j]
    BY <1>2, <2>2 DEF Guarda, Posicion
  <2>7. \A g \in G : [j \in 0 .. k[g] - 1 |-> fs.dat[ini[g] + j]] = [j \in 0 .. k[g] - 1 |-> c[g][j]]
    BY <2>6
  <2> HIDE DEF ini
  <2>8. Piezas(fs.meta, fs.dat, G) = c
    <3>1. PICK d : d = Piezas(fs.meta, fs.dat, G) OBVIOUS
    <3>2. d = [g \in G |-> [j \in 0 .. k[g] - 1 |-> c[g][j]]] BY <2>5, <2>7, <3>1
    <3>3. QED BY <2>4, <3>1, <3>2
  <2>9. QED BY <2>1, <2>8
<1> HIDE DEF en, ini, cant, G, c, k
<1>6. \A g, h \in G : g # h => en(g) \cap en(h) = {} BY <1>2, <1>5 DEF Compactando
<1>7. Usados(fs.bits) = UNION {en(g) : g \in G}
  <2>1. UNION {en(g) : g \in G} = UNION {Lugar(ini, cant, fs.bits, BLOCK_COUNT, g) : g \in G}
    BY <1>5
  <2>2. QED BY <1>2, <2>1 DEF Compactando
<1>8. ASSUME NEW q \in Nat, q >= 1,
             q <= Cardinality(Libres(bitmap_bloques)) + Cardinality(BloquesDe(f))
      PROVE  Huecos(fs.bits, q) # {}
  <2>1. n = Cardinality(Libres(bitmap_bloques)) + Cardinality(BloquesDe(f)) BY Liberados
  <2> HIDE DEF n
  <2>2. SinHuecosHasta(fs.bits, BLOCK_COUNT) BY <1>2 DEF Compactando
  <2>3. q <= Cardinality(Libres(fs.bits)) BY <1>2, <1>8, <2>1
  <2>4. PICK bits \in [Bloques -> BOOLEAN] : bits = fs.bits BY <1>3
  <2>5. QED BY <1>8, <2>2, <2>3, <2>4, LibresAlFinal
<1>9. QED BY <1>2, <1>6, <1>7, <1>8, <1>a DEF Compacto, en, G, cant, k, c

\* The second search of io_fs_truncate finds a place.
LEMMA HuecoTrasCompactar ==
  ASSUME TiposDelDisco, ListaFiel, NEW f \in Existentes, NEW t \in Tamanios, Crece(f, t)
  PROVE  Huecos(Compactar(SinSusBloques(f)).bits, CantBloques(t)) # {}
<1> DEFINE fs == Compactar(SinSusBloques(f))
<1>1. PICK c \in Nat : c = CantBloques(t) /\ c >= 1 BY CantPositiva, TamaniosNat
<1>2. Cardinality(BloquesDe(f)) \in Nat BY BloquesDeArchivo
<1>3. Cardinality(Libres(bitmap_bloques)) \in Nat BY Liberados
<1>4. Cardinality(Libres(bitmap_bloques)) >= CantBloques(t) - Cardinality(BloquesDe(f))
  BY DEF Crece
<1>5. c <= Cardinality(Libres(bitmap_bloques)) + Cardinality(BloquesDe(f))
  BY <1>1, <1>2, <1>3, <1>4
<1>6. PICK d : d = fs OBVIOUS
<1> HIDE DEF fs
<1>7. Huecos(d.bits, c) # {} BY <1>1, <1>5, <1>6, Compactado DEF fs, Compacto
<1>8. QED BY <1>1, <1>6, <1>7 DEF fs

\* While the list is faithful, a compaction leaves room for what is free.
LEMMA Alcanza == TiposDelDisco /\ ListaFiel => CompactarAlcanza
BY HuecoTrasCompactar DEF CompactarAlcanza

-----------------------------------------------------------------------------
(* Handing blocks out *)

\* t gives each file its blocks: disjoint, and the used ones of the bitmap.
Reparto(t, bits) ==
  /\ \A f \in DOMAIN t : t[f] \subseteq Bloques
  /\ \A f, g \in DOMAIN t : f # g => t[f] \cap t[g] = {}
  /\ \A b \in Bloques : bits[b] <=> \E f \in DOMAIN t : b \in t[f]

Sitios(m) ==
  [f \in DOMAIN m |-> Tramo(m[f].BLOQUE_INICIAL, CantBloques(m[f].TAMANIO_ARCHIVO))]

\* In a disk that is right the metadata gives each file its own blocks, those of
\* the bitmap.
LEMMA HayReparto ==
  ASSUME TiposDelDisco
  PROVE  /\ Reparto(Sitios(metadata), bitmap_bloques)
         /\ DOMAIN Sitios(metadata) = Existentes
         /\ \A f \in Existentes : Sitios(metadata)[f] = BloquesDe(f)
<1>1. /\ DOMAIN Sitios(metadata) = Existentes
      /\ \A f \in Existentes : Sitios(metadata)[f] = BloquesDe(f)
  BY DEF Sitios, BloquesDe, Existentes
<1>2. \A f \in Existentes : BloquesDe(f) \subseteq Bloques BY BloquesDeArchivo
<1>3. \A f, g \in Existentes : f # g => BloquesDe(f) \cap BloquesDe(g) = {}
  BY DEF TiposDelDisco, ArchivosDisjuntos
<1>4. \A b \in Bloques : bitmap_bloques[b] <=> \E f \in Existentes : b \in BloquesDe(f)
  BY BloqueUsado
<1>5. QED BY <1>1, <1>2, <1>3, <1>4 DEF Reparto

\* Blocks dealt that way make a disk that is right.
LEMMA DelReparto ==
  ASSUME TypeOK', Reparto(Sitios(metadata'), bitmap_bloques')
  PROVE  TiposDelDisco'
<1>1. /\ DOMAIN Sitios(metadata') = Existentes'
      /\ \A f \in Existentes' : Sitios(metadata')[f] = BloquesDe(f)'
  BY DEF Sitios, BloquesDe, Existentes
<1>2. /\ \A f \in Existentes' : BloquesDe(f)' \subseteq Bloques
      /\ \A f, g \in Existentes' : f # g => BloquesDe(f)' \cap BloquesDe(g)' = {}
      /\ \A b \in Bloques : bitmap_bloques'[b] <=> \E f \in Existentes' : b \in BloquesDe(f)'
  BY <1>1 DEF Reparto
<1>3. ArchivosDisjuntos' BY <1>2 DEF ArchivosDisjuntos
<1>4. \A b : b \in Bloques \ Libres(bitmap_bloques') <=> \E f \in Existentes' : b \in BloquesDe(f)'
  BY <1>2 DEF Libres
<1>5. BitmapExacto' BY <1>4 DEF BitmapExacto
<1>6. QED BY <1>3, <1>5 DEF TiposDelDisco

\* A file that did not hold any block, or that leaves the ones it held, takes
\* the blocks S, that no other file holds.
Sitio(t, bits, f, S, t2, bits2) ==
  /\ DOMAIN t2 = DOMAIN t \cup {f}
  /\ t2[f] = S /\ \A g \in DOMAIN t \ {f} : t2[g] = t[g]
  /\ \A g \in DOMAIN t \ {f} : S \cap t[g] = {}
  /\ \A b \in Bloques :
       bits2[b] <=> b \in S \/ (bits[b] /\ ~(f \in DOMAIN t /\ b \in t[f]))

\* Giving a file other free blocks keeps the deal.
LEMMA RepartoPone ==
  ASSUME NEW t, NEW bits, Reparto(t, bits), NEW f, NEW S \in SUBSET Bloques, NEW bits2,
         NEW t2, Sitio(t, bits, f, S, t2, bits2)
  PROVE  Reparto(t2, bits2)
<1>0. /\ DOMAIN t2 = DOMAIN t \cup {f}
      /\ t2[f] = S /\ \A g \in DOMAIN t \ {f} : t2[g] = t[g]
      /\ \A g \in DOMAIN t \ {f} : S \cap t[g] = {}
      /\ \A b \in Bloques :
           bits2[b] <=> b \in S \/ (bits[b] /\ ~(f \in DOMAIN t /\ b \in t[f]))
  BY DEF Sitio
<1>1. \A g \in DOMAIN t2 : t2[g] \subseteq Bloques BY <1>0 DEF Reparto
<1>2. \A g, h \in DOMAIN t2 : g # h => t2[g] \cap t2[h] = {} BY <1>0 DEF Reparto
<1>3. \A b \in Bloques : bits2[b] <=> \E g \in DOMAIN t2 : b \in t2[g]
  <2> TAKE b \in Bloques
  <2>1. ASSUME bits2[b], b \notin S PROVE \E g \in DOMAIN t2 : b \in t2[g]
    <3>1. bits[b] /\ ~(f \in DOMAIN t /\ b \in t[f]) BY <1>0, <2>1
    <3>2. PICK g \in DOMAIN t : b \in t[g] BY <3>1 DEF Reparto
    <3>3. g # f BY <3>1, <3>2
    <3>4. QED BY <1>0, <3>2, <3>3
  <2>2. ASSUME NEW g \in DOMAIN t2, b \in t2[g] PROVE bits2[b]
    <3>1. CASE g = f BY <1>0, <2>2, <3>1
    <3>2. CASE g # f
      <4>1. g \in DOMAIN t /\ b \in t[g] BY <1>0, <2>2, <3>2
      <4>2. bits[b] BY <4>1 DEF Reparto
      <4>3. ~(f \in DOMAIN t /\ b \in t[f]) BY <3>2, <4>1 DEF Reparto
      <4>4. QED BY <1>0, <4>2, <4>3
    <3>3. QED BY <3>1, <3>2
  <2>3. QED BY <1>0, <2>1, <2>2
<1>4. QED BY <1>1, <1>2, <1>3 DEF Reparto

\* A file goes and its blocks are freed.
LEMMA RepartoQuita ==
  ASSUME NEW t, NEW bits, Reparto(t, bits), NEW f \in DOMAIN t, NEW bits2,
         NEW t2, DOMAIN t2 = DOMAIN t \ {f}, \A g \in DOMAIN t2 : t2[g] = t[g],
         \A b \in Bloques : bits2[b] <=> bits[b] /\ b \notin t[f]
  PROVE  Reparto(t2, bits2)
<1>1. \A b \in Bloques : bits2[b] <=> \E g \in DOMAIN t2 : b \in t2[g]
  <2> TAKE b \in Bloques
  <2>1. \A g \in DOMAIN t : g # f => ~(b \in t[g] /\ b \in t[f]) BY DEF Reparto
  <2>2. bits[b] <=> \E g \in DOMAIN t : b \in t[g] BY DEF Reparto
  <2>3. QED BY <2>1, <2>2
<1>2. QED BY <1>1 DEF Reparto

-----------------------------------------------------------------------------
(* One request at a time *)

\* The search for contiguous free blocks answers free blocks of the disk.
LEMMA HuecoLibre ==
  ASSUME NEW bits, NEW c \in Nat, c >= 1, Huecos(bits, c) # {}
  PROVE  /\ PrimerHueco(bits, c) \in Bloques
         /\ Tramo(PrimerHueco(bits, c), c) \subseteq Bloques
         /\ \A b \in Tramo(PrimerHueco(bits, c), c) : ~bits[b]
<1>1. Huecos(bits, c) \subseteq Bloques BY DEF Huecos
<1>2. PrimerHueco(bits, c) \in Huecos(bits, c) BY <1>1, PrimerBloque DEF PrimerHueco
<1>3. PICK h : h = PrimerHueco(bits, c) OBVIOUS
<1>4. h \in Bloques /\ Tramo(h, c) \subseteq Libres(bits) BY <1>2, <1>3 DEF Huecos
<1>5. QED BY <1>3, <1>4 DEF Libres

\* Changing where an entry of the list points changes only that.
LEMMA ReapuntarTipo ==
  ASSUME NEW lista \in Seq(Entradas), NEW k, NEW b \in Bloques
  PROVE  /\ Reapuntar(lista, k, b) \in Seq(Entradas)
         /\ DOMAIN Reapuntar(lista, k, b) = DOMAIN lista
         /\ \A j \in DOMAIN lista :
              Reapuntar(lista, k, b)[j] =
                [nombre |-> lista[j].nombre,
                 bloque_inicial |-> IF j = k THEN b ELSE lista[j].bloque_inicial]
<1> DEFINE l2 == Reapuntar(lista, k, b)
<1>1. DOMAIN lista = 1 .. Len(lista) /\ Len(lista) \in Nat OBVIOUS
<1>2. l2 = [j \in DOMAIN lista |->
              IF j = k THEN [lista[j] EXCEPT !.bloque_inicial = b] ELSE lista[j]]
  BY DEF Reapuntar
<1> HIDE DEF l2
<1>3. ASSUME NEW j \in DOMAIN lista
      PROVE  l2[j] = [nombre |-> lista[j].nombre,
                      bloque_inicial |-> IF j = k THEN b ELSE lista[j].bloque_inicial]
  <2>1. lista[j] \in Entradas OBVIOUS
  <2>2. CASE j = k
    <3>1. l2[j] = [lista[j] EXCEPT !.bloque_inicial = b] BY <1>2, <2>2
    <3>2. QED BY <2>1, <2>2, <3>1 DEF Entradas
  <2>3. CASE j # k
    <3>1. l2[j] = lista[j] BY <1>2, <2>3
    <3>2. QED BY <2>1, <2>3, <3>1 DEF Entradas
  <2>4. QED BY <2>2, <2>3
<1>4. \A j \in DOMAIN lista : l2[j] \in Entradas
  <2> TAKE j \in DOMAIN lista
  <2>1. lista[j] \in Entradas OBVIOUS
  <2>2. lista[j].nombre \in Archivos /\ lista[j].bloque_inicial \in Bloques BY <2>1 DEF Entradas
  <2>3. PICK c \in Bloques : c = IF j = k THEN b ELSE lista[j].bloque_inicial BY <2>2
  <2>4. l2[j] = [nombre |-> lista[j].nombre, bloque_inicial |-> c] BY <1>3, <2>3
  <2>5. QED BY <2>2, <2>4 DEF Entradas
<1>5. l2 \in Seq(Entradas)
  <2>1. DOMAIN l2 = 1 .. Len(lista) /\ l2 = [j \in 1 .. Len(lista) |-> l2[j]] BY <1>1, <1>2
  <2>2. QED BY <1>1, <1>4, <2>1
<1>6. QED BY <1>2, <1>3, <1>5 DEF l2

\* The list without one of its entries.
LEMMA QuitarEntrada ==
  ASSUME NEW S, NEW s \in Seq(S), NEW k \in DOMAIN s
  PROVE  /\ RemoveAt(s, k) \in Seq(S)
         /\ Len(RemoveAt(s, k)) = Len(s) - 1
         /\ \A j \in 1 .. Len(s) - 1 : RemoveAt(s, k)[j] = IF j < k THEN s[j] ELSE s[j + 1]
<1>1. Len(s) \in Nat /\ k \in 1 .. Len(s) /\ \A i \in 1 .. Len(s) : s[i] \in S OBVIOUS
<1>a. PICK l \in Nat : l = Len(s) BY <1>1
<1>2. PICK p : p = SubSeq(s, 1, k - 1) OBVIOUS
<1>3. PICK q : q = SubSeq(s, k + 1, l) OBVIOUS
<1>b. k - 1 \in Int /\ k + 1 \in Int /\ k \in 1 .. l BY <1>1, <1>a
<1>c. p \in Seq(S) /\ Len(p) = k - 1 /\ \A j \in 1 .. k - 1 : p[j] = s[j]
  <2>1. \A i \in 1 .. k - 1 : s[i] \in S BY <1>1, <1>a, <1>b
  <2>2. /\ p \in Seq(S) /\ Len(p) = IF 1 <= k - 1 THEN k - 1 - 1 + 1 ELSE 0
        /\ \A i \in 1 .. k - 1 - 1 + 1 : p[i] = s[1 + i - 1]
    BY <1>2, <1>b, <2>1, SubSeqProperties
  <2>3. Len(p) = k - 1 BY <1>b, <2>2
  <2>4. \A j \in 1 .. k - 1 : 1 + j - 1 = j /\ j \in 1 .. k - 1 - 1 + 1 BY <1>b
  <2>5. QED BY <2>2, <2>3, <2>4
<1>d. q \in Seq(S) /\ Len(q) = l - k /\ \A j \in 1 .. l - k : q[j] = s[k + j]
  <2>1. \A i \in k + 1 .. l : s[i] \in S BY <1>1, <1>a, <1>b
  <2>2. /\ q \in Seq(S) /\ Len(q) = IF k + 1 <= l THEN l - (k + 1) + 1 ELSE 0
        /\ \A i \in 1 .. l - (k + 1) + 1 : q[i] = s[k + 1 + i - 1]
    BY <1>3, <1>b, <2>1, SubSeqProperties
  <2>3. Len(q) = l - k BY <1>b, <2>2
  <2>4. \A j \in 1 .. l - k : k + 1 + j - 1 = k + j /\ j \in 1 .. l - (k + 1) + 1 BY <1>b
  <2>5. QED BY <2>2, <2>3, <2>4
<1>4. RemoveAt(s, k) = p \o q BY <1>2, <1>3, <1>a DEF RemoveAt
<1>e. /\ p \o q \in Seq(S) /\ Len(p \o q) = (k - 1) + (l - k)
      /\ \A i \in 1 .. (k - 1) + (l - k) : (p \o q)[i] = IF i <= k - 1 THEN p[i] ELSE q[i - (k - 1)]
  <2>1. p \in Seq(S) /\ q \in Seq(S) /\ Len(p) = k - 1 /\ Len(q) = l - k BY <1>c, <1>d
  <2>2. /\ p \o q \in Seq(S) /\ Len(p \o q) = Len(p) + Len(q)
        /\ \A i \in 1 .. Len(p) + Len(q) : (p \o q)[i] = IF i <= Len(p) THEN p[i] ELSE q[i - Len(p)]
    BY <2>1, ConcatProperties
  <2>3. QED BY <2>1, <2>2
<1>f. (k - 1) + (l - k) = l - 1 BY <1>b
<1>5. p \o q \in Seq(S) /\ Len(p \o q) = Len(s) - 1 BY <1>a, <1>e, <1>f
<1>6. \A j \in 1 .. Len(s) - 1 : (p \o q)[j] = IF j < k THEN s[j] ELSE s[j + 1]
  <2> TAKE j \in 1 .. Len(s) - 1
  <2>0. (p \o q)[j] = IF j <= k - 1 THEN p[j] ELSE q[j - (k - 1)] BY <1>a, <1>e, <1>f
  <2>1. CASE j < k
    <3>1. j <= k - 1 /\ j \in 1 .. k - 1 BY <1>a, <1>b, <2>1
    <3>2. QED BY <1>c, <2>0, <2>1, <3>1
  <2>2. CASE ~(j < k)
    <3>1. ~(j <= k - 1) BY <1>a, <1>b, <2>2
    <3>2. j - (k - 1) \in 1 .. l - k /\ k + (j - (k - 1)) = j + 1 BY <1>a, <1>b, <2>2
    <3>3. QED BY <1>d, <2>0, <2>2, <3>1, <3>2
  <2>3. QED BY <2>1, <2>2
<1>7. QED BY <1>4, <1>5, <1>6

\* Removing at index 0, where list_remove_and_destroy_element finds nothing,
\* leaves the list as it was.
LEMMA QuitarTipo ==
  ASSUME NEW S, NEW s \in Seq(S), NEW k \in 0 .. Len(s)
  PROVE  RemoveAt(s, k) \in Seq(S)
<1>1. CASE k # 0 BY <1>1, QuitarEntrada
<1>2. CASE k = 0
  <2>1. SubSeq(s, 1, 0 - 1) = <<>> BY SubSeqEmpty
  <2>2. SubSeq(s, 0 + 1, Len(s)) = s BY SubSeqFull
  <2>3. RemoveAt(s, 0) = <<>> \o s BY <2>1, <2>2 DEF RemoveAt
  <2>4. <<>> \o s = s BY ConcatEmptySeq
  <2>5. QED BY <1>2, <2>3, <2>4
<1>3. QED BY <1>1, <1>2

\* io_fs_create keeps the disk right.
LEMMA CrearConserva ==
  ASSUME TiposDelDisco, NEW f \in Archivos, Crear(f)
  PROVE  TiposDelDisco'
<1> DEFINE b == PrimerHueco(bitmap_bloques, 1)
<1>0. TypeOK BY DEF TiposDelDisco
<1>1. /\ f \notin Existentes /\ Libres(bitmap_bloques) # {}
      /\ metadata' = [g \in Existentes \cup {f} |->
                        IF g = f THEN [BLOQUE_INICIAL |-> b, TAMANIO_ARCHIVO |-> 0]
                        ELSE metadata[g]]
      /\ lista_archivos' = Append(lista_archivos, [nombre |-> f, bloque_inicial |-> b])
      /\ bitmap_bloques' = AsignarBloques(bitmap_bloques, {b})
      /\ UNCHANGED <<bloques_dat, vivo>>
  BY DEF Crear
<1>2. Huecos(bitmap_bloques, 1) # {}
  <2>1. PICK x \in Libres(bitmap_bloques) : x \in Bloques /\ x \in Nat
    BY <1>1, BloquesFinitos DEF Libres
  <2>2. Tramo(x, 1) = {x} BY <2>1 DEF Tramo
  <2>3. QED BY <2>1, <2>2 DEF Huecos
<1>3. b \in Bloques /\ \A x \in Tramo(b, 1) : ~bitmap_bloques[x] BY <1>2, HuecoLibre
<1> HIDE DEF b
<1>4. b \in Nat BY <1>3, BloquesFinitos
<1>5. Tramo(b, 1) = {b} /\ ~bitmap_bloques[b]
  <2>1. Tramo(b, 1) = {b} BY <1>4 DEF Tramo
  <2>2. QED BY <1>3, <2>1
<1>6. DOMAIN metadata' = Existentes \cup {f} BY <1>1
<1>7. TypeOK'
  <2>1. 0 \in Tamanios
    <3>1. PICK n \in Nat : n = BLOCK_COUNT OBVIOUS
    <3>2. PICK m \in Nat : m = BLOCK_SIZE OBVIOUS
    <3>3. n * m \in Nat OBVIOUS
    <3>4. QED BY <3>1, <3>2, <3>3 DEF Tamanios
  <2>2. \A g \in Existentes \cup {f} :
          metadata'[g] \in [BLOQUE_INICIAL : Bloques, TAMANIO_ARCHIVO : Tamanios]
    BY <1>0, <1>1, <1>3, <2>1 DEF TypeOK
  <2>3. metadata' \in [Existentes' -> [BLOQUE_INICIAL : Bloques, TAMANIO_ARCHIVO : Tamanios]]
    BY <1>1, <1>6, <2>2 DEF Existentes
  <2>4. bitmap_bloques' \in [Bloques -> BOOLEAN] BY <1>1 DEF AsignarBloques
  <2>5. Existentes' \subseteq Archivos BY <1>0, <1>6 DEF TypeOK, Existentes
  <2>6. lista_archivos' \in Seq([nombre : Archivos, bloque_inicial : Bloques])
    <3>1. [nombre |-> f, bloque_inicial |-> b] \in [nombre : Archivos, bloque_inicial : Bloques]
      BY <1>3
    <3>2. QED BY <1>0, <1>1, <3>1 DEF TypeOK
  <2>7. QED BY <1>0, <1>1, <2>3, <2>4, <2>5, <2>6 DEF TypeOK
<1>8. Reparto(Sitios(metadata'), bitmap_bloques')
  <2>1. PICK t : t = Sitios(metadata) OBVIOUS
  <2>2. /\ Reparto(t, bitmap_bloques) /\ DOMAIN t = Existentes
    BY <2>1, HayReparto
  <2>3. PICK t2 : t2 = Sitios(metadata') OBVIOUS
  <2>4. DOMAIN t2 = DOMAIN t \cup {f} BY <1>6, <2>2, <2>3 DEF Sitios
  <2>5. t2[f] = {b}
    <3>1. metadata'[f] = [BLOQUE_INICIAL |-> b, TAMANIO_ARCHIVO |-> 0] BY <1>1
    <3>2. t2[f] = Tramo(b, CantBloques(0)) BY <1>6, <2>3, <3>1 DEF Sitios
    <3>3. CantBloques(0) = 1 BY DEF CantBloques
    <3>4. QED BY <1>5, <3>2, <3>3
  <2>6. \A g \in DOMAIN t \ {f} : t2[g] = t[g] BY <1>1, <2>1, <2>2, <2>3 DEF Sitios, Existentes
  <2>7. \A g \in DOMAIN t \ {f} : {b} \cap t[g] = {} BY <1>3, <1>5, <2>2 DEF Reparto
  <2>8. \A x \in Bloques :
          bitmap_bloques'[x] <=> x \in {b} \/ (bitmap_bloques[x] /\ ~(f \in DOMAIN t /\ x \in t[f]))
    BY <1>1, <2>2 DEF AsignarBloques
  <2>9. {b} \in SUBSET Bloques BY <1>3
  <2>a. PICK S \in SUBSET Bloques : S = {b} BY <2>9
  <2>b. Sitio(t, bitmap_bloques, f, S, t2, bitmap_bloques')
    BY <2>4, <2>5, <2>6, <2>7, <2>8, <2>a DEF Sitio
  <2>10. Reparto(t2, bitmap_bloques') BY <2>2, <2>b, RepartoPone
  <2>11. QED BY <2>3, <2>10
<1>9. QED BY <1>7, <1>8, DelReparto

\* io_fs_delete keeps the disk right.
LEMMA BorrarConserva ==
  ASSUME TiposDelDisco, NEW f \in Archivos, Borrar(f)
  PROVE  TiposDelDisco'
<1> DEFINE k == BuscarPorBloqueInicial(lista_archivos, metadata[f].BLOQUE_INICIAL)
<1>0. TypeOK BY DEF TiposDelDisco
<1>1. /\ f \in Existentes
      /\ bitmap_bloques' = DesasignarBloques(bitmap_bloques, BloquesDe(f))
      /\ lista_archivos' = RemoveAt(lista_archivos, k)
      /\ metadata' = [g \in Existentes \ {f} |-> metadata[g]]
      /\ UNCHANGED <<bloques_dat, vivo>>
  BY DEF Borrar
<1>2. k \in 0 .. Len(lista_archivos)
  <2>1. lista_archivos \in Seq(Entradas) BY <1>0 DEF TypeOK, Entradas
  <2>2. k = 0 \/ k \in DOMAIN lista_archivos BY <2>1, Buscado
  <2> HIDE DEF k
  <2>3. QED BY <2>1, <2>2
<1> HIDE DEF k
<1>3. DOMAIN metadata' = Existentes \ {f} BY <1>1
<1>4. TypeOK'
  <2>1. metadata' \in [Existentes' -> [BLOQUE_INICIAL : Bloques, TAMANIO_ARCHIVO : Tamanios]]
    BY <1>0, <1>1, <1>3 DEF TypeOK, Existentes
  <2>2. bitmap_bloques' \in [Bloques -> BOOLEAN] BY <1>0, <1>1 DEF TypeOK, DesasignarBloques
  <2>3. Existentes' \subseteq Archivos BY <1>0, <1>3 DEF TypeOK, Existentes
  <2>4. lista_archivos' \in Seq([nombre : Archivos, bloque_inicial : Bloques])
    BY <1>0, <1>1, <1>2, QuitarTipo DEF TypeOK
  <2>5. QED BY <1>0, <1>1, <2>1, <2>2, <2>3, <2>4 DEF TypeOK
<1>5. Reparto(Sitios(metadata'), bitmap_bloques')
  <2>1. PICK t : t = Sitios(metadata) OBVIOUS
  <2>2. Reparto(t, bitmap_bloques) /\ DOMAIN t = Existentes /\ t[f] = BloquesDe(f)
    BY <1>1, <2>1, HayReparto
  <2>3. PICK t2 : t2 = Sitios(metadata') OBVIOUS
  <2>4. DOMAIN t2 = DOMAIN t \ {f} BY <1>3, <2>2, <2>3 DEF Sitios
  <2>5. \A g \in DOMAIN t2 : t2[g] = t[g] BY <1>1, <2>1, <2>2, <2>3, <2>4 DEF Sitios, Existentes
  <2>6. \A b \in Bloques : bitmap_bloques'[b] <=> bitmap_bloques[b] /\ b \notin t[f]
    BY <1>1, <2>2 DEF DesasignarBloques
  <2>7. f \in DOMAIN t BY <1>1, <2>2
  <2>8. Reparto(t2, bitmap_bloques') BY <2>2, <2>4, <2>5, <2>6, <2>7, RepartoQuita
  <2>9. QED BY <2>3, <2>8
<1>6. QED BY <1>4, <1>5, DelReparto

\* io_fs_truncate in place keeps the disk right: the blocks it adds were free.
LEMMA TruncarEnElLugarConserva ==
  ASSUME TiposDelDisco, NEW f \in Archivos, NEW tam \in Tamanios, TruncarEnElLugar(f, tam)
  PROVE  TiposDelDisco'
<1>0. TypeOK BY DEF TiposDelDisco
<1>1. /\ f \in Existentes
      /\ CantBloques(tam) - Cardinality(BloquesDe(f)) > 0
      /\ bitmap_bloques' = AsignarBloques(bitmap_bloques,
                             Tramo(metadata[f].BLOQUE_INICIAL, CantBloques(tam)))
      /\ metadata' = [metadata EXCEPT ![f].TAMANIO_ARCHIVO = tam]
      /\ UNCHANGED <<bloques_dat, lista_archivos, vivo>>
  BY DEF TruncarEnElLugar, Crece
<1>2. PICK a \in Nat : a = metadata[f].BLOQUE_INICIAL /\ a \in Bloques
  BY <1>1, BloquesDeArchivo, BloquesFinitos
<1>3. PICK n \in Nat : n = Cardinality(BloquesDe(f)) /\ BloquesDe(f) = Tramo(a, n)
  BY <1>1, <1>2, BloquesDeArchivo DEF BloquesDe
<1>4. PICK m \in Nat : m = CantBloques(tam) BY CantPositiva, TamaniosNat
<1>5. m > n BY <1>1, <1>3, <1>4
<1>6. Tramo(a + n, m - n) \subseteq Libres(bitmap_bloques)
  <2>1. LibresDesde(bitmap_bloques, m - n, a + n - 1 + 1)
    BY <1>2, <1>3, <1>4 DEF TruncarEnElLugar, CabeEnElLugar
  <2>2. a + n - 1 + 1 = a + n OBVIOUS
  <2>3. QED BY <2>1, <2>2 DEF LibresDesde
<1>7. Tramo(a, m) = Tramo(a, n) \cup Tramo(a + n, m - n) BY <1>5 DEF Tramo
<1>8. PICK S \in SUBSET Bloques : S = Tramo(a, m)
  BY <1>1, <1>3, <1>6, <1>7, BloquesDeArchivo DEF Libres
<1>9. DOMAIN metadata' = Existentes BY <1>1 DEF Existentes
<1>10. /\ \A g \in Existentes \ {f} : metadata'[g] = metadata[g]
       /\ metadata'[f] = [BLOQUE_INICIAL |-> a, TAMANIO_ARCHIVO |-> tam]
  <2>1. metadata[f] \in Fichas BY <1>1, BloquesDeArchivo
  <2>2. metadata'[f] = [metadata[f] EXCEPT !.TAMANIO_ARCHIVO = tam] BY <1>1 DEF Existentes
  <2>3. QED BY <1>1, <1>2, <2>1, <2>2 DEF Fichas, Existentes
<1>11. TypeOK'
  <2>1. \A g \in Existentes :
          metadata'[g] \in [BLOQUE_INICIAL : Bloques, TAMANIO_ARCHIVO : Tamanios]
    BY <1>0, <1>2, <1>10 DEF TypeOK
  <2>2. metadata' \in [Existentes' -> [BLOQUE_INICIAL : Bloques, TAMANIO_ARCHIVO : Tamanios]]
    BY <1>1, <1>9, <2>1 DEF Existentes
  <2>3. bitmap_bloques' \in [Bloques -> BOOLEAN] BY <1>1 DEF AsignarBloques
  <2>4. QED BY <1>0, <1>1, <1>9, <2>2, <2>3 DEF TypeOK, Existentes
<1>12. PICK t : t = Sitios(metadata) OBVIOUS
<1>13. Reparto(t, bitmap_bloques) /\ DOMAIN t = Existentes /\ t[f] = Tramo(a, n)
  BY <1>1, <1>3, <1>12, HayReparto
<1>14. PICK t2 : t2 = Sitios(metadata') OBVIOUS
<1>15. Sitio(t, bitmap_bloques, f, S, t2, bitmap_bloques')
  <2>1. DOMAIN t2 = DOMAIN t \cup {f} BY <1>1, <1>9, <1>13, <1>14 DEF Sitios
  <2>2. t2[f] = S BY <1>1, <1>4, <1>8, <1>9, <1>10, <1>14 DEF Sitios
  <2>3. \A g \in DOMAIN t \ {f} : t2[g] = t[g]
    BY <1>9, <1>10, <1>12, <1>13, <1>14 DEF Sitios, Existentes
  <2>4. \A g \in DOMAIN t \ {f} : S \cap t[g] = {}
    <3> TAKE g \in DOMAIN t \ {f}
    <3>1. Tramo(a, n) \cap t[g] = {} BY <1>1, <1>13 DEF Reparto
    <3>2. \A b \in t[g] : b \in Bloques /\ bitmap_bloques[b] BY <1>13 DEF Reparto
    <3>3. QED BY <1>6, <1>7, <1>8, <3>1, <3>2 DEF Libres
  <2>5. \A b \in Bloques :
          bitmap_bloques'[b] <=> b \in S \/ (bitmap_bloques[b] /\ ~(f \in DOMAIN t /\ b \in t[f]))
    BY <1>1, <1>2, <1>4, <1>7, <1>8, <1>13 DEF AsignarBloques
  <2>6. QED BY <2>1, <2>2, <2>3, <2>4, <2>5 DEF Sitio
<1>16. Reparto(t2, bitmap_bloques') BY <1>13, <1>15, RepartoPone
<1>17. QED BY <1>11, <1>14, <1>16, DelReparto

\* io_fs_truncate to a smaller size keeps the disk right.
LEMMA TruncarAchicandoConserva ==
  ASSUME TiposDelDisco, NEW f \in Archivos, NEW tam \in Tamanios, TruncarAchicando(f, tam)
  PROVE  TiposDelDisco'
<1>0. TypeOK BY DEF TiposDelDisco
<1>1. /\ f \in Existentes
      /\ metadata' = [metadata EXCEPT ![f].TAMANIO_ARCHIVO = tam]
      /\ UNCHANGED <<bloques_dat, lista_archivos, vivo>>
  BY DEF TruncarAchicando
<1>2. PICK a \in Nat : a = metadata[f].BLOQUE_INICIAL /\ a \in Bloques
  BY <1>1, BloquesDeArchivo, BloquesFinitos
<1>3. PICK n \in Nat : n = Cardinality(BloquesDe(f)) /\ BloquesDe(f) = Tramo(a, n)
  BY <1>1, <1>2, BloquesDeArchivo DEF BloquesDe
<1>4. PICK m \in Nat : m = CantBloques(tam) BY CantPositiva, TamaniosNat
<1>5. n > m /\ bitmap_bloques' =
                 DesasignarBloques(bitmap_bloques, a + n - 1 - (n - m) + 1 .. a + n - 1)
  <2>1. LET actual == Cardinality(BloquesDe(f))
            nueva  == CantBloques(tam)
            final  == metadata[f].BLOQUE_INICIAL + actual - 1
        IN  /\ actual > nueva
            /\ bitmap_bloques' =
                 DesasignarBloques(bitmap_bloques, final - (actual - nueva) + 1 .. final)
    BY DEF TruncarAchicando
  <2>2. QED BY <1>2, <1>3, <1>4, <2>1
<1>6. Tramo(a, n) \ Tramo(a, m) = a + n - 1 - (n - m) + 1 .. a + n - 1 /\ Tramo(a, m) \subseteq Tramo(a, n)
  BY <1>5 DEF Tramo
<1>8. PICK S \in SUBSET Bloques : S = Tramo(a, m) BY <1>1, <1>3, <1>6, BloquesDeArchivo
<1>9. DOMAIN metadata' = Existentes BY <1>1 DEF Existentes
<1>10. /\ \A g \in Existentes \ {f} : metadata'[g] = metadata[g]
       /\ metadata'[f] = [BLOQUE_INICIAL |-> a, TAMANIO_ARCHIVO |-> tam]
  <2>1. metadata[f] \in Fichas BY <1>1, BloquesDeArchivo
  <2>2. metadata'[f] = [metadata[f] EXCEPT !.TAMANIO_ARCHIVO = tam] BY <1>1 DEF Existentes
  <2>3. QED BY <1>1, <1>2, <2>1, <2>2 DEF Fichas, Existentes
<1>11. TypeOK'
  <2>1. \A g \in Existentes :
          metadata'[g] \in [BLOQUE_INICIAL : Bloques, TAMANIO_ARCHIVO : Tamanios]
    BY <1>0, <1>2, <1>10 DEF TypeOK
  <2>2. metadata' \in [Existentes' -> [BLOQUE_INICIAL : Bloques, TAMANIO_ARCHIVO : Tamanios]]
    BY <1>1, <1>9, <2>1 DEF Existentes
  <2>3. bitmap_bloques' \in [Bloques -> BOOLEAN] BY <1>0, <1>5 DEF TypeOK, DesasignarBloques
  <2>4. QED BY <1>0, <1>1, <1>9, <2>2, <2>3 DEF TypeOK, Existentes
<1>12. PICK t : t = Sitios(metadata) OBVIOUS
<1>13. Reparto(t, bitmap_bloques) /\ DOMAIN t = Existentes /\ t[f] = Tramo(a, n)
  BY <1>1, <1>3, <1>12, HayReparto
<1>14. PICK t2 : t2 = Sitios(metadata') OBVIOUS
<1>15. Sitio(t, bitmap_bloques, f, S, t2, bitmap_bloques')
  <2>1. DOMAIN t2 = DOMAIN t \cup {f} BY <1>1, <1>9, <1>13, <1>14 DEF Sitios
  <2>2. t2[f] = S BY <1>1, <1>4, <1>8, <1>9, <1>10, <1>14 DEF Sitios
  <2>3. \A g \in DOMAIN t \ {f} : t2[g] = t[g]
    BY <1>9, <1>10, <1>12, <1>13, <1>14 DEF Sitios, Existentes
  <2>4. \A g \in DOMAIN t \ {f} : S \cap t[g] = {}
    <3> TAKE g \in DOMAIN t \ {f}
    <3>1. Tramo(a, n) \cap t[g] = {} BY <1>1, <1>13 DEF Reparto
    <3>2. QED BY <1>6, <1>8, <3>1
  <2>5. \A b \in Bloques :
          bitmap_bloques'[b] <=> b \in S \/ (bitmap_bloques[b] /\ ~(f \in DOMAIN t /\ b \in t[f]))
    <3> TAKE b \in Bloques
    <3>1. bitmap_bloques'[b] <=> bitmap_bloques[b] /\ ~(b \in Tramo(a, n) \ Tramo(a, m))
      BY <1>5, <1>6 DEF DesasignarBloques
    <3>2. b \in Tramo(a, n) => bitmap_bloques[b] BY <1>1, <1>3, BloquesDeArchivo
    <3>3. QED BY <1>1, <1>6, <1>8, <1>13, <3>1, <3>2
  <2>6. QED BY <2>1, <2>2, <2>3, <2>4, <2>5 DEF Sitio
<1>16. Reparto(t2, bitmap_bloques') BY <1>13, <1>15, RepartoPone
<1>17. QED BY <1>11, <1>14, <1>16, DelReparto

\* Both ways of moving a file write values of their types.
LEMMA Reubicado ==
  ASSUME TiposDelDisco, NEW f \in Existentes, NEW tam \in Tamanios,
         NEW fs \in Discos(Existentes), NEW a \in Bloques,
         Reubicar(f, tam, fs, Contenido(f), a)
  PROVE  /\ TypeOK'
         /\ DOMAIN metadata' = Existentes
         /\ metadata'[f] = [BLOQUE_INICIAL |-> a, TAMANIO_ARCHIVO |-> tam]
         /\ \A g \in Existentes \ {f} : metadata'[g] = fs.meta[g]
         /\ \A b \in Bloques : bitmap_bloques'[b] <=> fs.bits[b] \/ b \in Tramo(a, CantBloques(tam))
<1> DEFINE k == BuscarPorBloqueInicial(fs.lista, metadata[f].BLOQUE_INICIAL)
<1>0. TypeOK BY DEF TiposDelDisco
<1>1. /\ bitmap_bloques' = AsignarBloques(fs.bits, Tramo(a, CantBloques(tam)))
      /\ bloques_dat' = Grabado(fs.dat, Contenido(f), a)
      /\ metadata' = [fs.meta EXCEPT ![f] = [BLOQUE_INICIAL |-> a, TAMANIO_ARCHIVO |-> tam]]
      /\ lista_archivos' = Reapuntar(fs.lista, k, a)
      /\ UNCHANGED vivo
  BY DEF Reubicar
<1>2. /\ fs.bits \in [Bloques -> BOOLEAN] /\ fs.dat \in [Bloques -> Datos]
      /\ fs.lista \in Seq(Entradas) /\ fs.meta \in [Existentes -> Fichas]
  BY DiscoCampos
<1> HIDE DEF k
<1>3. DOMAIN metadata' = Existentes BY <1>1, <1>2
<1>4. /\ metadata'[f] = [BLOQUE_INICIAL |-> a, TAMANIO_ARCHIVO |-> tam]
      /\ \A g \in Existentes \ {f} : metadata'[g] = fs.meta[g]
  BY <1>1, <1>2
<1>5. \A b \in Bloques : bitmap_bloques'[b] <=> fs.bits[b] \/ b \in Tramo(a, CantBloques(tam))
  BY <1>1 DEF AsignarBloques
<1>6. bitmap_bloques' \in [Bloques -> BOOLEAN] BY <1>1 DEF AsignarBloques
<1>7. bloques_dat' \in [Bloques -> Datos]
  <2>1. PICK n \in Nat : n = Cardinality(BloquesDe(f)) BY BloquesDeArchivo
  <2>2. PICK i \in Nat : i = metadata[f].BLOQUE_INICIAL BY BloquesDeArchivo, BloquesFinitos
  <2>3. BloquesDe(f) = Tramo(i, n) /\ BloquesDe(f) \subseteq Bloques
    BY <2>1, <2>2, BloquesDeArchivo DEF BloquesDe
  <2>4. Contenido(f) = [j \in 0 .. n - 1 |-> bloques_dat[i + j]]
    BY <2>1, <2>2 DEF Contenido, Leido
  <2>5. \A j \in 0 .. n - 1 : i + j \in Tramo(i, n) BY DEF Tramo
  <2>6. PICK c : c = Contenido(f) OBVIOUS
  <2>7. \A j \in DOMAIN c : c[j] \in Datos BY <1>0, <2>3, <2>4, <2>5, <2>6 DEF TypeOK
  <2>8. bloques_dat' = [b \in Bloques |-> IF b - a \in DOMAIN c THEN c[b - a] ELSE fs.dat[b]]
    BY <1>1, <2>6 DEF Grabado
  <2>9. QED BY <1>2, <2>7, <2>8
<1>8. lista_archivos' \in Seq([nombre : Archivos, bloque_inicial : Bloques])
  BY <1>1, <1>2, ReapuntarTipo DEF Entradas
<1>9. metadata' \in [Existentes' -> [BLOQUE_INICIAL : Bloques, TAMANIO_ARCHIVO : Tamanios]]
  <2>1. \A g \in Existentes : metadata'[g] \in Fichas
    <3> TAKE g \in Existentes
    <3>1. CASE g = f
      <4>1. metadata'[g] = [BLOQUE_INICIAL |-> a, TAMANIO_ARCHIVO |-> tam] BY <1>4, <3>1
      <4>2. QED BY <4>1 DEF Fichas
    <3>2. CASE g # f BY <1>2, <1>4, <3>2
    <3>3. QED BY <3>1, <3>2
  <2>2. metadata' = [g \in Existentes |-> metadata'[g]] BY <1>1, <1>2
  <2>3. Existentes' = Existentes BY <1>3 DEF Existentes
  <2>4. QED BY <2>1, <2>2, <2>3 DEF Fichas
<1>10. TypeOK' BY <1>0, <1>1, <1>3, <1>6, <1>7, <1>8, <1>9 DEF TypeOK, Existentes
<1>11. QED BY <1>3, <1>4, <1>5, <1>10

\* io_fs_truncate into another hole keeps the disk right.
LEMMA TruncarMoviendoConserva ==
  ASSUME TiposDelDisco, NEW f \in Archivos, NEW tam \in Tamanios, TruncarMoviendo(f, tam)
  PROVE  TiposDelDisco'
<1>0. TypeOK BY DEF TiposDelDisco
<1>1. PICK m \in Nat : m = CantBloques(tam) /\ m >= 1 BY CantPositiva, TamaniosNat
<1>2. PICK a : a = PrimerHueco(bitmap_bloques, m) OBVIOUS
<1>3. PICK fs : fs = SinSusBloques(f) OBVIOUS
<1>4. /\ f \in Existentes /\ Huecos(bitmap_bloques, m) # {}
      /\ Reubicar(f, tam, fs, Contenido(f), a)
  BY <1>1, <1>2, <1>3 DEF TruncarMoviendo, Crece
<1>5. a \in Bloques /\ Tramo(a, m) \subseteq Bloques /\ \A b \in Tramo(a, m) : ~bitmap_bloques[b]
  BY <1>1, <1>2, <1>4, HuecoLibre
<1>6. PICK S \in SUBSET Bloques : S = Tramo(a, m) BY <1>5
<1>7. fs \in Discos(Existentes) /\ fs.meta = metadata
  <2>1. fs.bits \in [Bloques -> BOOLEAN] BY <1>3, <1>4, Liberados
  <2>2. fs = [bits |-> fs.bits, dat |-> bloques_dat, lista |-> lista_archivos, meta |-> metadata]
    BY <1>3 DEF SinSusBloques
  <2>3. QED BY <1>0, <2>1, <2>2 DEF TypeOK, Discos, Entradas, Fichas
<1>8. \A b \in Bloques : fs.bits[b] <=> bitmap_bloques[b] /\ b \notin BloquesDe(f)
  BY <1>3, <1>4, Liberados
<1>9. /\ TypeOK'
      /\ DOMAIN metadata' = Existentes
      /\ metadata'[f] = [BLOQUE_INICIAL |-> a, TAMANIO_ARCHIVO |-> tam]
      /\ \A g \in Existentes \ {f} : metadata'[g] = fs.meta[g]
      /\ \A b \in Bloques : bitmap_bloques'[b] <=> fs.bits[b] \/ b \in Tramo(a, CantBloques(tam))
  BY <1>4, <1>5, <1>7, Reubicado
<1>10. PICK t : t = Sitios(metadata) OBVIOUS
<1>11. Reparto(t, bitmap_bloques) /\ DOMAIN t = Existentes /\ t[f] = BloquesDe(f)
  BY <1>4, <1>10, HayReparto
<1>12. PICK t2 : t2 = Sitios(metadata') OBVIOUS
<1>13. Sitio(t, bitmap_bloques, f, S, t2, bitmap_bloques')
  <2>1. DOMAIN t2 = DOMAIN t \cup {f} BY <1>4, <1>9, <1>11, <1>12 DEF Sitios
  <2>2. t2[f] = S BY <1>1, <1>4, <1>6, <1>9, <1>12 DEF Sitios
  <2>3. \A g \in DOMAIN t \ {f} : t2[g] = t[g]
    BY <1>7, <1>9, <1>10, <1>11, <1>12 DEF Sitios, Existentes
  <2>4. \A g \in DOMAIN t \ {f} : S \cap t[g] = {}
    <3> TAKE g \in DOMAIN t \ {f}
    <3>1. \A b \in t[g] : b \in Bloques /\ bitmap_bloques[b] BY <1>11 DEF Reparto
    <3>2. QED BY <1>5, <1>6, <3>1
  <2>5. \A b \in Bloques :
          bitmap_bloques'[b] <=> b \in S \/ (bitmap_bloques[b] /\ ~(f \in DOMAIN t /\ b \in t[f]))
    BY <1>1, <1>4, <1>6, <1>8, <1>9, <1>11
  <2>6. QED BY <2>1, <2>2, <2>3, <2>4, <2>5 DEF Sitio
<1>14. Reparto(t2, bitmap_bloques') BY <1>11, <1>13, RepartoPone
<1>15. QED BY <1>9, <1>12, <1>14, DelReparto

\* io_fs_truncate with a compaction keeps the disk right, while the list is
\* faithful.
LEMMA TruncarCompactandoConserva ==
  ASSUME TiposDelDisco, ListaFiel, NEW f \in Archivos, NEW tam \in Tamanios,
         TruncarCompactando(f, tam)
  PROVE  TiposDelDisco'
<1>1. PICK m \in Nat : m = CantBloques(tam) /\ m >= 1 BY CantPositiva, TamaniosNat
<1>2. PICK fs : fs = Compactar(SinSusBloques(f)) OBVIOUS
<1>3. PICK a : a = PrimerHueco(fs.bits, m) OBVIOUS
<1>4. /\ f \in Existentes /\ Crece(f, tam)
      /\ Reubicar(f, tam, fs, Contenido(f), a)
  BY <1>1, <1>2, <1>3 DEF TruncarCompactando, Crece
<1>5. Huecos(fs.bits, m) # {} BY <1>1, <1>2, <1>4, HuecoTrasCompactar
<1>6. a \in Bloques /\ Tramo(a, m) \subseteq Bloques /\ \A b \in Tramo(a, m) : ~fs.bits[b]
  <2>1. PICK bits : bits = fs.bits OBVIOUS
  <2>2. Huecos(bits, m) # {} /\ a = PrimerHueco(bits, m) BY <1>3, <1>5, <2>1
  <2>3. a \in Bloques /\ Tramo(a, m) \subseteq Bloques /\ \A b \in Tramo(a, m) : ~bits[b]
    BY <1>1, <2>2, HuecoLibre
  <2>4. QED BY <2>1, <2>3
<1>7. PICK S \in SUBSET Bloques : S = Tramo(a, m) BY <1>6
<1> DEFINE G == Existentes \ {f}
           t == [g \in G |-> Tramo(fs.meta[g].BLOQUE_INICIAL, CantBloques(fs.meta[g].TAMANIO_ARCHIVO))]
           en(g) == Tramo(fs.meta[g].BLOQUE_INICIAL, CantBloques(fs.meta[g].TAMANIO_ARCHIVO))
<1>a. /\ fs \in Discos(Existentes)
      /\ \A g, h \in G : g # h => en(g) \cap en(h) = {}
      /\ Usados(fs.bits) = UNION {en(g) : g \in G}
  <2>1. Compacto(f, fs) BY <1>2, <1>4, Compactado
  <2>2. QED BY <2>1 DEF Compacto
<1>b. \A g \in G : t[g] = en(g) OBVIOUS
<1>8. /\ fs \in Discos(Existentes)
      /\ \A g, h \in G : g # h => t[g] \cap t[h] = {}
      /\ Usados(fs.bits) = UNION {t[g] : g \in G}
  <2> HIDE DEF en, t, G
  <2>1. UNION {en(g) : g \in G} = UNION {t[g] : g \in G} BY <1>b
  <2>2. QED BY <1>a, <1>b, <2>1
<1>9. /\ TypeOK'
      /\ DOMAIN metadata' = Existentes
      /\ metadata'[f] = [BLOQUE_INICIAL |-> a, TAMANIO_ARCHIVO |-> tam]
      /\ \A g \in Existentes \ {f} : metadata'[g] = fs.meta[g]
      /\ \A b \in Bloques : bitmap_bloques'[b] <=> fs.bits[b] \/ b \in Tramo(a, CantBloques(tam))
  BY <1>4, <1>6, <1>8, Reubicado
<1>10. DOMAIN t = G OBVIOUS
<1>11. \A g \in G : t[g] = Tramo(fs.meta[g].BLOQUE_INICIAL, CantBloques(fs.meta[g].TAMANIO_ARCHIVO))
  OBVIOUS
<1> HIDE DEF t
<1>12. Reparto(t, fs.bits)
  <2>1. \A b : b \in Usados(fs.bits) <=> \E g \in G : b \in t[g] BY <1>8
  <2>2. \A b : b \in Usados(fs.bits) <=> b \in Bloques /\ fs.bits[b] BY DEF Usados
  <2>3. QED BY <1>8, <1>10, <2>1, <2>2 DEF Reparto
<1>13. PICK t2 : t2 = Sitios(metadata') OBVIOUS
<1>14. Sitio(t, fs.bits, f, S, t2, bitmap_bloques')
  <2>1. DOMAIN t2 = DOMAIN t \cup {f} BY <1>4, <1>9, <1>10, <1>13 DEF Sitios
  <2>2. t2[f] = S BY <1>1, <1>4, <1>7, <1>9, <1>13 DEF Sitios
  <2>3. \A g \in DOMAIN t \ {f} : t2[g] = t[g]
    BY <1>9, <1>10, <1>11, <1>13 DEF Sitios
  <2>4. \A g \in DOMAIN t \ {f} : S \cap t[g] = {}
    <3> TAKE g \in DOMAIN t \ {f}
    <3>1. \A b \in t[g] : b \in Bloques /\ fs.bits[b] BY <1>12 DEF Reparto
    <3>2. QED BY <1>6, <1>7, <3>1
  <2>5. \A b \in Bloques :
          bitmap_bloques'[b] <=> b \in S \/ (fs.bits[b] /\ ~(f \in DOMAIN t /\ b \in t[f]))
    BY <1>1, <1>7, <1>9, <1>10
  <2>6. QED BY <2>1, <2>2, <2>3, <2>4, <2>5 DEF Sitio
<1>15. Reparto(t2, bitmap_bloques')
  <2>1. PICK bits : bits = fs.bits OBVIOUS
  <2>2. QED BY <1>12, <1>14, <2>1, RepartoPone
<1>16. QED BY <1>9, <1>13, <1>15, DelReparto

\* A step that changes neither bitmap nor metadata keeps the disk right.
LEMMA SinMoverConserva ==
  ASSUME TiposDelDisco, TypeOK', UNCHANGED <<bitmap_bloques, metadata>>
  PROVE  TiposDelDisco'
BY HayReparto, DelReparto

\* io_fs_write keeps the disk right.
LEMMA EscribirConserva ==
  ASSUME TiposDelDisco, NEW f, NEW s, NEW p, NEW d \in Datos, Escribir(f, s, p, d)
  PROVE  TiposDelDisco'
<1>1. UNCHANGED <<bitmap_bloques, metadata, lista_archivos, vivo>> /\ TypeOK
  BY DEF Escribir, TiposDelDisco
<1>2. bloques_dat' \in [Bloques -> Datos] BY <1>1 DEF Escribir, TypeOK
<1>3. TypeOK' BY <1>1, <1>2 DEF TypeOK, Existentes
<1>4. QED BY <1>1, <1>3, SinMoverConserva

\* A restart keeps the disk right: it rebuilds the list from the metadata.
LEMMA ReiniciarConserva ==
  ASSUME TiposDelDisco, IsFiniteSet(Existentes), Reiniciar
  PROVE  TiposDelDisco'
<1>0. TypeOK BY DEF TiposDelDisco
<1>1. UNCHANGED <<bitmap_bloques, bloques_dat, metadata>> /\ vivo' = TRUE BY DEF Reiniciar
<1>2. PICK n \in Nat : n = Cardinality(Existentes) BY FS_CardinalityType
<1>3. PICK s \in [1 .. n -> Existentes] :
        lista_archivos' = [i \in DOMAIN s |->
          [nombre |-> s[i], bloque_inicial |-> metadata[s[i]].BLOQUE_INICIAL]]
  BY <1>2 DEF Reiniciar, SetToSeqs
<1>4. \A i \in 1 .. n : [nombre |-> s[i], bloque_inicial |-> metadata[s[i]].BLOQUE_INICIAL]
                          \in [nombre : Archivos, bloque_inicial : Bloques]
  BY <1>0 DEF TypeOK
<1>5. lista_archivos' \in Seq([nombre : Archivos, bloque_inicial : Bloques])
  <2>1. DOMAIN s = 1 .. n OBVIOUS
  <2>2. PICK l : l = [i \in 1 .. n |->
          [nombre |-> s[i], bloque_inicial |-> metadata[s[i]].BLOQUE_INICIAL]]
    OBVIOUS
  <2>3. \A i \in 1 .. n : l[i] \in [nombre : Archivos, bloque_inicial : Bloques]
    BY <1>4, <2>2
  <2>4. l = [i \in 1 .. n |-> l[i]] BY <2>2
  <2>5. ASSUME NEW S, \A i \in 1 .. n : l[i] \in S PROVE l \in Seq(S)
    <3>1. DOMAIN l = 1 .. n BY <2>4
    <3>2. l \in [1 .. n -> S] BY <2>4, <2>5
    <3>3. QED BY <1>2, <3>2
  <2>7. l \in Seq([nombre : Archivos, bloque_inicial : Bloques]) BY <2>3, <2>5
  <2>6. QED BY <1>3, <2>1, <2>2, <2>7
<1>6. TypeOK' BY <1>0, <1>1, <1>5 DEF TypeOK, Existentes
<1>7. QED BY <1>1, <1>6, SinMoverConserva

\* The request that compacts does so with a faithful list.
Compacta == \E f \in Archivos, t \in Tamanios : TruncarCompactando(f, t)
CompactaFiel == Compacta => ListaFiel

\* A request creates at most one file.
LEMMA SiguenFinitos ==
  ASSUME TiposDelDisco, IsFiniteSet(Existentes), [Next]_vars, CompactaFiel
  PROVE  IsFiniteSet(Existentes')
<1>1. CASE UNCHANGED metadata BY <1>1 DEF Existentes
<1>2. ASSUME NEW f \in Archivos, Crear(f) PROVE IsFiniteSet(Existentes')
  <2>1. Existentes' = Existentes \cup {f} BY <1>2 DEF Crear, Existentes
  <2>2. QED BY <2>1, FS_AddElement
<1>3. ASSUME NEW f \in Archivos, Borrar(f) PROVE IsFiniteSet(Existentes')
  <2>1. Existentes' = Existentes \ {f} BY <1>3 DEF Borrar, Existentes
  <2>2. QED BY <2>1, FS_RemoveElement
<1>4. ASSUME NEW f \in Archivos, NEW t \in Tamanios, Truncar(f, t) PROVE IsFiniteSet(Existentes')
  <2>1. CASE TruncarEnElLugar(f, t)
    <3>1. Existentes' = Existentes BY <2>1 DEF TruncarEnElLugar, Existentes
    <3>2. QED BY <3>1
  <2>2. CASE TruncarAchicando(f, t)
    <3>1. Existentes' = Existentes BY <2>2 DEF TruncarAchicando, Existentes
    <3>2. QED BY <3>1
  <2>3. ASSUME NEW fs, NEW c, NEW a, Reubicar(f, t, fs, c, a), DOMAIN fs.meta = Existentes
        PROVE  IsFiniteSet(Existentes')
    <3>1. Existentes' = Existentes BY <2>3 DEF Reubicar, Existentes
    <3>2. QED BY <3>1
  <2>4. CASE TruncarMoviendo(f, t)
    <3>1. DOMAIN SinSusBloques(f).meta = Existentes BY DEF SinSusBloques, Existentes
    <3>2. QED BY <2>3, <2>4, <3>1 DEF TruncarMoviendo
  <2>5. CASE TruncarCompactando(f, t)
    <3>1. ListaFiel BY <1>4, <2>5 DEF CompactaFiel, Compacta
    <3>2. f \in Existentes BY <2>5 DEF TruncarCompactando, Crece
    <3>3. PICK fs : fs = Compactar(SinSusBloques(f)) OBVIOUS
    <3>4. fs \in Discos(Existentes)
      <4>1. Compacto(f, fs) BY <3>1, <3>2, <3>3, Compactado
      <4>2. QED BY <4>1 DEF Compacto
    <3>5. DOMAIN fs.meta = Existentes
      <4>1. fs.meta \in [Existentes -> Fichas] BY <3>4, DiscoCampos
      <4>2. QED BY <4>1
    <3>6. QED BY <2>3, <2>5, <3>3, <3>5 DEF TruncarCompactando
  <2>6. QED BY <1>4, <2>1, <2>2, <2>4, <2>5 DEF Truncar
<1>5. QED
  BY <1>1, <1>2, <1>3, <1>4 DEF Next, vars, Escribir, EscribirFuera, SinArchivo, Reiniciar

\* What every state of the disc satisfies, and what keeps it
Disco == TiposDelDisco /\ IsFiniteSet(Existentes)

\* The disk is right at the start.
LEMMA DiscoInicial == Init => Disco
<1> SUFFICES ASSUME Init PROVE Disco OBVIOUS
<1>1. /\ bitmap_bloques = [b \in Bloques |-> FALSE] /\ bloques_dat = [b \in Bloques |-> Cero]
      /\ Existentes = {} /\ metadata = [f \in {} |-> 0] /\ lista_archivos = <<>> /\ vivo = TRUE
  BY DEF Init, Existentes
<1>2. TypeOK
  <2>1. metadata \in [Existentes -> [BLOQUE_INICIAL : Bloques, TAMANIO_ARCHIVO : Tamanios]]
    BY <1>1
  <2>2. lista_archivos \in Seq([nombre : Archivos, bloque_inicial : Bloques]) BY <1>1
  <2>3. QED BY <1>1, <2>1, <2>2 DEF TypeOK
<1>3. ArchivosDisjuntos BY <1>1 DEF ArchivosDisjuntos
<1>4. BitmapExacto
  <2>1. Libres(bitmap_bloques) = Bloques BY <1>1 DEF Libres
  <2>2. UNION {BloquesDe(f) : f \in Existentes} = {} BY <1>1
  <2>3. QED BY <2>1, <2>2 DEF BitmapExacto
<1>5. IsFiniteSet(Existentes) BY <1>1, FS_EmptySet
<1>6. QED BY <1>2, <1>3, <1>4, <1>5 DEF Disco, TiposDelDisco

\* Every step keeps the disk right, if it compacts only with a faithful list.
LEMMA DiscoPaso == Disco /\ [Next]_vars /\ CompactaFiel => Disco'
<1> SUFFICES ASSUME Disco, [Next]_vars, CompactaFiel PROVE Disco' OBVIOUS
<1>0. TiposDelDisco /\ IsFiniteSet(Existentes) /\ TypeOK BY DEF Disco, TiposDelDisco
<1>1. IsFiniteSet(Existentes') BY <1>0, SiguenFinitos
<1>2. ASSUME NEW f \in Archivos, Crear(f) PROVE TiposDelDisco'
  BY <1>0, <1>2, CrearConserva
<1>3. ASSUME NEW f \in Archivos, Borrar(f) PROVE TiposDelDisco'
  BY <1>0, <1>3, BorrarConserva
<1>4. ASSUME NEW f \in Archivos, NEW t \in Tamanios, Truncar(f, t) PROVE TiposDelDisco'
  <2>1. CASE TruncarEnElLugar(f, t) BY <1>0, <2>1, TruncarEnElLugarConserva
  <2>2. CASE TruncarMoviendo(f, t) BY <1>0, <2>2, TruncarMoviendoConserva
  <2>3. CASE TruncarCompactando(f, t)
    <3>1. ListaFiel BY <2>3 DEF CompactaFiel, Compacta
    <3>2. QED BY <1>0, <2>3, <3>1, TruncarCompactandoConserva
  <2>4. CASE TruncarAchicando(f, t) BY <1>0, <2>4, TruncarAchicandoConserva
  <2>5. QED BY <1>4, <2>1, <2>2, <2>3, <2>4 DEF Truncar
<1>5. ASSUME NEW f, NEW s, NEW p, NEW d \in Datos, Escribir(f, s, p, d) PROVE TiposDelDisco'
  BY <1>0, <1>5, EscribirConserva
<1>6. ASSUME UNCHANGED <<bitmap_bloques, bloques_dat, metadata, lista_archivos>>, vivo' \in BOOLEAN
      PROVE  TiposDelDisco'
  <2>1. TypeOK' BY <1>0, <1>6 DEF TypeOK, Existentes
  <2>2. QED BY <1>0, <1>6, <2>1, SinMoverConserva
<1>7. ASSUME NEW f, NEW p, EscribirFuera(f, p) PROVE TiposDelDisco'
  BY <1>6, <1>7 DEF EscribirFuera
<1>8. ASSUME NEW f, SinArchivo(f) PROVE TiposDelDisco'
  BY <1>6, <1>8 DEF SinArchivo
<1>9. ASSUME Reiniciar PROVE TiposDelDisco' BY <1>0, <1>9, ReiniciarConserva
<1>10. ASSUME UNCHANGED vars PROVE TiposDelDisco' BY <1>0, <1>6, <1>10 DEF vars, TypeOK
<1>11. TiposDelDisco'
  BY <1>2, <1>3, <1>4, <1>5, <1>7, <1>8, <1>9, <1>10 DEF Next
<1>12. QED BY <1>1, <1>11 DEF Disco, Existentes

\* So the disk is always right.
LEMMA DiscoSiempre == Spec /\ [][CompactaFiel]_vars => []Disco
<1>1. Disco /\ UNCHANGED vars => Disco'
  <2>1. ASSUME Disco, UNCHANGED vars PROVE Disco'
    <3>1. Disco' <=> Disco
      BY <2>1 DEF vars, Disco, TiposDelDisco, TypeOK, ArchivosDisjuntos, BitmapExacto,
                  BloquesDe, Existentes, Libres
    <3>2. QED BY <2>1, <3>1
  <2>2. QED BY <2>1
<1>2. Disco /\ [Next]_vars /\ [CompactaFiel]_vars => Disco' BY <1>1, DiscoPaso
<1>3. QED BY <1>2, DiscoInicial, PTL DEF Spec

-----------------------------------------------------------------------------
(* Theorems *)

\* Every variable of the device keeps its type, in every sequence of requests and
\* restarts in which compactar_bloques only runs on a faithful list.
THEOREM TiposDelFS == Spec /\ [][CompactaFiel]_vars => []TypeOK
<1>1. Disco => TypeOK BY DEF Disco, TiposDelDisco
<1>2. QED BY <1>1, DiscoSiempre, PTL

\* No two files share a block (io_fs_create, io_fs_truncate, io_fs_delete and
\* compactar_bloques), under the same condition.
THEOREM ArchivosSinSolapar == Spec /\ [][CompactaFiel]_vars => []ArchivosDisjuntos
<1>1. Disco => ArchivosDisjuntos BY DEF Disco, TiposDelDisco
<1>2. QED BY <1>1, DiscoSiempre, PTL

\* bitmap.dat marks the blocks of the metadata files and no others, under the
\* same condition.
THEOREM BitmapDelMetadata == Spec /\ [][CompactaFiel]_vars => []BitmapExacto
<1>1. Disco => BitmapExacto BY DEF Disco, TiposDelDisco
<1>2. QED BY <1>1, DiscoSiempre, PTL

\* Whenever the list is faithful, compacting would leave room for any file the
\* free blocks suffice for: the search after compactar_bloques, whose failure
\* io_fs_truncate does not check, cannot fail.
THEOREM CompactarHaceSitio == Spec /\ [][CompactaFiel]_vars => [](ListaFiel => CompactarAlcanza)
<1>1. Disco => (ListaFiel => CompactarAlcanza) BY Alcanza DEF Disco
<1>2. QED BY <1>1, DiscoSiempre, PTL

-----------------------------------------------------------------------------
(* The list, entry by entry *)

\* The list has exactly one entry of each file of the metadata.
Nombra(l, m) ==
  /\ Len(l) \in Nat /\ DOMAIN l = 1 .. Len(l)
  /\ \A j \in DOMAIN l :
       /\ l[j].nombre \in DOMAIN m
       /\ l[j] = [nombre |-> l[j].nombre, bloque_inicial |-> m[l[j].nombre].BLOQUE_INICIAL]
  /\ \A g \in DOMAIN m : \E j \in DOMAIN l : l[j].nombre = g
  /\ \A i, j \in DOMAIN l : i # j => l[i].nombre # l[j].nombre

\* A faithful list names each file once, with its first block.
LEMMA FielNombra ==
  ASSUME TypeOK, ListaFiel
  PROVE  Nombra(lista_archivos, metadata)
BY ListaNombra DEF Nombra, Existentes

\* And the other way round.
LEMMA NombraFiel ==
  ASSUME NEW l, NEW m, Nombra(l, m)
  PROVE  /\ Len(l) = Cardinality(DOMAIN m)
         /\ ToSet(l) = {[nombre |-> f, bloque_inicial |-> m[f].BLOQUE_INICIAL] : f \in DOMAIN m}
<1>1. PICK n \in Nat : n = Len(l) /\ DOMAIN l = 1 .. n BY DEF Nombra
<1>2. \A j \in 1 .. n :
        /\ l[j].nombre \in DOMAIN m
        /\ l[j] = [nombre |-> l[j].nombre, bloque_inicial |-> m[l[j].nombre].BLOQUE_INICIAL]
  BY <1>1 DEF Nombra
<1>3. \A g \in DOMAIN m : \E j \in 1 .. n : l[j].nombre = g BY <1>1 DEF Nombra
<1>4. \A i, j \in 1 .. n : i # j => l[i].nombre # l[j].nombre BY <1>1 DEF Nombra
<1> DEFINE s == [j \in 1 .. n |-> l[j].nombre]
<1>5. s \in Surjection(1 .. n, DOMAIN m) BY <1>2, <1>3 DEF Surjection
<1>6. s \in Injection(1 .. n, DOMAIN m) BY <1>2, <1>4 DEF Injection, IsInjective
<1> HIDE DEF s
<1>7. IsFiniteSet(1 .. n) /\ Cardinality(1 .. n) = n
  <2>1. Tramo(1, n) = 1 .. n BY DEF Tramo
  <2>2. QED BY <2>1, TramoCuenta
<1>8. Cardinality(DOMAIN m) = n BY <1>5, <1>6, <1>7, FS_Surjection
<1>9. ToSet(l) = {[nombre |-> f, bloque_inicial |-> m[f].BLOQUE_INICIAL] : f \in DOMAIN m}
  <2>1. ToSet(l) = {l[j] : j \in 1 .. n} BY <1>1 DEF ToSet
  <2>2. ASSUME NEW j \in 1 .. n
        PROVE  l[j] \in {[nombre |-> f, bloque_inicial |-> m[f].BLOQUE_INICIAL] : f \in DOMAIN m}
    BY <1>2
  <2>3. ASSUME NEW f \in DOMAIN m
        PROVE  [nombre |-> f, bloque_inicial |-> m[f].BLOQUE_INICIAL] \in {l[j] : j \in 1 .. n}
    <3>1. PICK j \in 1 .. n : l[j].nombre = f BY <1>3
    <3>2. l[j] = [nombre |-> f, bloque_inicial |-> m[f].BLOQUE_INICIAL] BY <1>2, <3>1
    <3>3. QED BY <3>2
  <2>4. QED BY <2>1, <2>2, <2>3
<1>10. QED BY <1>1, <1>8, <1>9

\* The same, after a step.
LEMMA NombraSigue ==
  ASSUME Nombra(lista_archivos', metadata')
  PROVE  ListaFiel'
BY NombraFiel DEF ListaFiel, Existentes

\* The list after io_fs_create and after io_fs_delete
Agregada(m, e, m2) ==
  /\ e.nombre \notin DOMAIN m
  /\ e = [nombre |-> e.nombre, bloque_inicial |-> e.bloque_inicial]
  /\ DOMAIN m2 = DOMAIN m \cup {e.nombre} /\ m2[e.nombre].BLOQUE_INICIAL = e.bloque_inicial
  /\ \A g \in DOMAIN m : m2[g] = m[g]

\* A list that names a new file and its first block is still right.
LEMMA NombraAgrega ==
  ASSUME NEW l \in Seq(Entradas), NEW m, Nombra(l, m), NEW e \in Entradas,
         NEW m2, Agregada(m, e, m2)
  PROVE  Nombra(Append(l, e), m2)
<1> DEFINE l2 == Append(l, e)
<1>a. PICK f : f = e.nombre OBVIOUS
<1>b. PICK b : b = e.bloque_inicial OBVIOUS
<1>c. /\ f \notin DOMAIN m /\ e = [nombre |-> f, bloque_inicial |-> b]
      /\ DOMAIN m2 = DOMAIN m \cup {f} /\ m2[f].BLOQUE_INICIAL = b
      /\ \A g \in DOMAIN m : m2[g] = m[g]
  BY <1>a, <1>b DEF Agregada
<1>1. PICK n \in Nat : n = Len(l) /\ DOMAIN l = 1 .. n BY DEF Nombra
<1>2. /\ Len(l2) = n + 1 /\ DOMAIN l2 = 1 .. n + 1 /\ l2[n + 1] = e
      /\ \A j \in 1 .. n : l2[j] = l[j]
  BY <1>1
<1> HIDE DEF l2
<1>3. e.nombre = f /\ e.bloque_inicial = b BY <1>a, <1>b
<1>4. \A j \in 1 .. n : j \in 1 .. n + 1 /\ j # n + 1 OBVIOUS
<1>5. \A j \in 1 .. n + 1 : j \in 1 .. n \/ j = n + 1 OBVIOUS
<1>6. n + 1 \in 1 .. n + 1 /\ n + 1 \in Nat OBVIOUS
<1>7. \A j \in 1 .. n + 1 :
        /\ l2[j].nombre \in DOMAIN m2
        /\ l2[j] = [nombre |-> l2[j].nombre, bloque_inicial |-> m2[l2[j].nombre].BLOQUE_INICIAL]
  <2> TAKE j \in 1 .. n + 1
  <2>1. CASE j = n + 1 BY <1>2, <1>3, <1>c, <2>1
  <2>2. CASE j # n + 1
    <3>1. j \in 1 .. n /\ l2[j] = l[j] BY <1>2, <1>5, <2>2
    <3>2. PICK g \in DOMAIN m : g = l[j].nombre
                               /\ l[j] = [nombre |-> g, bloque_inicial |-> m[g].BLOQUE_INICIAL]
      BY <1>1, <3>1 DEF Nombra
    <3>3. m2[g] = m[g] /\ g \in DOMAIN m2 BY <1>c
    <3>4. QED BY <3>1, <3>2, <3>3
  <2>3. QED BY <2>1, <2>2
<1>8. \A g \in DOMAIN m2 : \E j \in 1 .. n + 1 : l2[j].nombre = g
  <2> TAKE g \in DOMAIN m2
  <2>1. CASE g = f BY <1>2, <1>3, <1>6, <2>1
  <2>2. CASE g # f
    <3>1. PICK j \in 1 .. n : l[j].nombre = g BY <1>1, <1>c, <2>2 DEF Nombra
    <3>2. QED BY <1>2, <1>4, <3>1
  <2>3. QED BY <2>1, <2>2
<1>9. \A i, j \in 1 .. n + 1 : i # j => l2[i].nombre # l2[j].nombre
  <2>1. \A j \in 1 .. n : l2[j].nombre \in DOMAIN m BY <1>1, <1>2 DEF Nombra
  <2>2. \A i, j \in 1 .. n : i # j => l2[i].nombre # l2[j].nombre BY <1>1, <1>2 DEF Nombra
  <2>3. l2[n + 1].nombre = f BY <1>2, <1>3
  <2>4. QED BY <1>5, <1>c, <2>1, <2>2, <2>3
<1>10. QED BY <1>2, <1>6, <1>7, <1>8, <1>9 DEF Nombra, l2

\* So is one without the entry of a file that is gone.
LEMMA NombraSaca ==
  ASSUME NEW S, NEW l \in Seq(S), NEW m, Nombra(l, m), NEW k \in DOMAIN l,
         NEW m2, DOMAIN m2 = DOMAIN m \ {l[k].nombre}, \A g \in DOMAIN m2 : m2[g] = m[g]
  PROVE  Nombra(RemoveAt(l, k), m2)
<1>1. PICK n \in Nat : n = Len(l) /\ DOMAIN l = 1 .. n BY DEF Nombra
<1>2. PICK l2 : l2 = RemoveAt(l, k) OBVIOUS
<1>3. /\ l2 \in Seq(S) /\ Len(l2) = n - 1
      /\ \A j \in 1 .. n - 1 : l2[j] = IF j < k THEN l[j] ELSE l[j + 1]
  <2>1. /\ RemoveAt(l, k) \in Seq(S) /\ Len(RemoveAt(l, k)) = Len(l) - 1
        /\ \A j \in 1 .. Len(l) - 1 : RemoveAt(l, k)[j] = IF j < k THEN l[j] ELSE l[j + 1]
    BY QuitarEntrada
  <2>2. QED BY <1>1, <1>2, <2>1
<1>4. DOMAIN l2 = 1 .. n - 1 /\ Len(l2) \in Nat BY <1>3
<1> DEFINE o(j) == IF j < k THEN j ELSE j + 1
<1>5. k \in 1 .. n BY <1>1
<1>6. \A j \in 1 .. n - 1 : o(j) \in 1 .. n /\ o(j) # k BY <1>5
<1>7. \A i, j \in 1 .. n - 1 : i # j => o(i) # o(j) BY <1>5
<1>8. \A j \in 1 .. n : j # k => \E i \in 1 .. n - 1 : o(i) = j
  <2> SUFFICES ASSUME NEW j \in 1 .. n, j # k PROVE \E i \in 1 .. n - 1 : o(i) = j OBVIOUS
  <2>1. CASE j < k
    <3>1. j \in 1 .. n - 1 /\ o(j) = j BY <1>5, <2>1
    <3>2. QED BY <3>1
  <2>2. CASE ~(j < k)
    <3>1. j - 1 \in 1 .. n - 1 /\ o(j - 1) = j BY <1>5, <2>2
    <3>2. QED BY <3>1
  <2>3. QED BY <2>1, <2>2
<1>9. \A j \in 1 .. n - 1 : l2[j] = l[o(j)] BY <1>3, <1>5
<1> HIDE DEF o
<1>10. \A j \in 1 .. n :
         /\ l[j].nombre \in DOMAIN m
         /\ l[j] = [nombre |-> l[j].nombre, bloque_inicial |-> m[l[j].nombre].BLOQUE_INICIAL]
  BY <1>1 DEF Nombra
<1>11. \A i, j \in 1 .. n : i # j => l[i].nombre # l[j].nombre BY <1>1 DEF Nombra
<1>12. \A j \in 1 .. n - 1 :
         /\ l2[j].nombre \in DOMAIN m2
         /\ l2[j] = [nombre |-> l2[j].nombre, bloque_inicial |-> m2[l2[j].nombre].BLOQUE_INICIAL]
  <2> TAKE j \in 1 .. n - 1
  <2>1. PICK i \in 1 .. n : i = o(j) /\ i # k /\ l2[j] = l[i] BY <1>6, <1>9
  <2>2. PICK g \in DOMAIN m : g = l[i].nombre BY <1>10
  <2>3. g # l[k].nombre BY <1>5, <1>11, <2>1, <2>2
  <2>4. g \in DOMAIN m2 /\ m2[g] = m[g] BY <2>3
  <2>5. l[i] = [nombre |-> g, bloque_inicial |-> m[g].BLOQUE_INICIAL] BY <1>10, <2>2
  <2>6. QED BY <2>1, <2>2, <2>4, <2>5
<1>13. \A g \in DOMAIN m2 : \E j \in 1 .. n - 1 : l2[j].nombre = g
  <2> TAKE g \in DOMAIN m2
  <2>1. PICK i \in 1 .. n : l[i].nombre = g BY <1>1 DEF Nombra
  <2>2. i # k BY <2>1
  <2>3. PICK j \in 1 .. n - 1 : o(j) = i BY <1>8, <2>2
  <2>4. QED BY <1>9, <2>1, <2>3
<1>14. \A i, j \in 1 .. n - 1 : i # j => l2[i].nombre # l2[j].nombre
  <2> SUFFICES ASSUME NEW i \in 1 .. n - 1, NEW j \in 1 .. n - 1, i # j
               PROVE  l2[i].nombre # l2[j].nombre
    OBVIOUS
  <2>1. PICK a \in 1 .. n : a = o(i) /\ l2[i] = l[a] BY <1>6, <1>9
  <2>2. PICK b \in 1 .. n : b = o(j) /\ l2[j] = l[b] BY <1>6, <1>9
  <2>3. a # b BY <1>7, <2>1, <2>2
  <2>4. QED BY <1>11, <2>1, <2>2, <2>3
<1>15. QED BY <1>2, <1>4, <1>3, <1>12, <1>13, <1>14 DEF Nombra

\* An entry that stands in for a file that moves gets its new first block.
LEMMA NombraApunta ==
  ASSUME NEW l \in Seq(Entradas), NEW m, Nombra(l, m), NEW k \in DOMAIN l, NEW f, f = l[k].nombre,
         NEW a \in Bloques, NEW m2, DOMAIN m2 = DOMAIN m, m2[f].BLOQUE_INICIAL = a,
         \A g \in DOMAIN m : g # f => m2[g] = m[g]
  PROVE  Nombra(Reapuntar(l, k, a), m2)
<1>1. PICK l2 : l2 = Reapuntar(l, k, a) OBVIOUS
<1>2. /\ l2 \in Seq(Entradas) /\ DOMAIN l2 = DOMAIN l
      /\ \A j \in DOMAIN l : l2[j] = [nombre |-> l[j].nombre,
                                      bloque_inicial |-> IF j = k THEN a ELSE l[j].bloque_inicial]
  BY <1>1, ReapuntarTipo
<1>3. Len(l2) \in Nat /\ DOMAIN l2 = 1 .. Len(l2) BY <1>2
<1>4. \A j \in DOMAIN l : l2[j].nombre = l[j].nombre BY <1>2
<1>5. \A j \in DOMAIN l2 :
        /\ l2[j].nombre \in DOMAIN m2
        /\ l2[j] = [nombre |-> l2[j].nombre, bloque_inicial |-> m2[l2[j].nombre].BLOQUE_INICIAL]
  <2> TAKE j \in DOMAIN l2
  <2>0. j \in DOMAIN l BY <1>2
  <2>1. PICK g \in DOMAIN m : g = l[j].nombre /\ l[j].bloque_inicial = m[g].BLOQUE_INICIAL
    <3>1. PICK g \in DOMAIN m : g = l[j].nombre
                               /\ l[j] = [nombre |-> g, bloque_inicial |-> m[g].BLOQUE_INICIAL]
      BY <2>0 DEF Nombra
    <3>2. QED BY <3>1
  <2>2. l2[j] = [nombre |-> g, bloque_inicial |-> IF j = k THEN a ELSE m[g].BLOQUE_INICIAL]
    BY <1>2, <2>0, <2>1
  <2>3. j = k <=> g = f BY <2>0, <2>1 DEF Nombra
  <2>4. l2[j] = [nombre |-> g, bloque_inicial |-> m2[g].BLOQUE_INICIAL] BY <2>2, <2>3
  <2>5. QED BY <2>0, <2>1, <2>4, <1>4
<1>6. \A g \in DOMAIN m2 : \E j \in DOMAIN l2 : l2[j].nombre = g BY <1>2, <1>4 DEF Nombra
<1>7. \A i, j \in DOMAIN l2 : i # j => l2[i].nombre # l2[j].nombre BY <1>2, <1>4 DEF Nombra
<1>8. QED BY <1>1, <1>3, <1>5, <1>6, <1>7 DEF Nombra

\* So is the same list, if no first block has changed.
LEMMA NombraIgual ==
  ASSUME NEW l, NEW m, Nombra(l, m), NEW m2, DOMAIN m2 = DOMAIN m,
         \A g \in DOMAIN m : m2[g].BLOQUE_INICIAL = m[g].BLOQUE_INICIAL
  PROVE  Nombra(l, m2)
<1>1. \A j \in DOMAIN l :
        /\ l[j].nombre \in DOMAIN m2
        /\ l[j] = [nombre |-> l[j].nombre, bloque_inicial |-> m2[l[j].nombre].BLOQUE_INICIAL]
  <2> TAKE j \in DOMAIN l
  <2>1. PICK g \in DOMAIN m : g = l[j].nombre
                             /\ l[j] = [nombre |-> g, bloque_inicial |-> m[g].BLOQUE_INICIAL]
    BY DEF Nombra
  <2>2. m2[g].BLOQUE_INICIAL = m[g].BLOQUE_INICIAL OBVIOUS
  <2>3. QED BY <2>1, <2>2
<1>2. QED BY <1>1 DEF Nombra

\* io_fs_create keeps the list faithful.
LEMMA CrearFiel ==
  ASSUME Disco, ListaFiel, NEW f \in Archivos, Crear(f)
  PROVE  ListaFiel'
<1>1. TiposDelDisco /\ TypeOK /\ Nombra(lista_archivos, metadata)
  BY FielNombra DEF Disco, TiposDelDisco
<1>2. PICK b : b = PrimerHueco(bitmap_bloques, 1) OBVIOUS
<1>3. PICK e : e = [nombre |-> f, bloque_inicial |-> b] OBVIOUS
<1>4. /\ f \notin DOMAIN metadata
      /\ metadata' = [g \in DOMAIN metadata \cup {f} |->
                        IF g = f THEN [BLOQUE_INICIAL |-> b, TAMANIO_ARCHIVO |-> 0]
                        ELSE metadata[g]]
      /\ lista_archivos' = Append(lista_archivos, e)
  BY <1>2, <1>3 DEF Crear, Existentes
<1>5. PICK m2 : m2 = metadata' OBVIOUS
<1>6. DOMAIN m2 = DOMAIN metadata \cup {f} /\ m2[f].BLOQUE_INICIAL = b
      /\ \A g \in DOMAIN metadata : m2[g] = metadata[g]
  BY <1>4, <1>5
<1>7. b \in Bloques
  <2>1. Libres(bitmap_bloques) # {} BY DEF Crear
  <2>2. PICK x \in Libres(bitmap_bloques) : x \in Bloques /\ x \in Nat
    BY <2>1, BloquesFinitos DEF Libres
  <2>3. Tramo(x, 1) = {x} BY <2>2 DEF Tramo
  <2>4. Huecos(bitmap_bloques, 1) # {} BY <2>2, <2>3 DEF Huecos
  <2>5. QED BY <1>2, <2>4, HuecoLibre
<1>8. Nombra(Append(lista_archivos, e), m2)
  <2>1. lista_archivos \in Seq(Entradas) BY <1>1 DEF TypeOK, Entradas
  <2>2. e \in Entradas BY <1>3, <1>7 DEF Entradas
  <2>3. PICK m : m = metadata OBVIOUS
  <2>4. PICK l \in Seq(Entradas) : l = lista_archivos BY <2>1
  <2>5. Nombra(l, m) /\ f \notin DOMAIN m BY <1>1, <1>4, <2>3, <2>4
  <2>6. /\ DOMAIN m2 = DOMAIN m \cup {f} /\ m2[f].BLOQUE_INICIAL = b
        /\ \A g \in DOMAIN m : m2[g] = m[g]
    BY <1>6, <2>3
  <2>a. Agregada(m, e, m2) BY <1>3, <2>5, <2>6 DEF Agregada
  <2>7. Nombra(Append(l, e), m2) BY <2>2, <2>5, <2>a, NombraAgrega
  <2>8. QED BY <2>4, <2>7
<1>9. QED BY <1>4, <1>5, <1>8, NombraSigue

\* io_fs_delete keeps the list faithful.
LEMMA BorrarFiel ==
  ASSUME Disco, ListaFiel, NEW f \in Archivos, Borrar(f)
  PROVE  ListaFiel'
<1>1. TiposDelDisco /\ TypeOK /\ Nombra(lista_archivos, metadata)
  BY FielNombra DEF Disco, TiposDelDisco
<1>2. PICK k : k = BuscarPorBloqueInicial(lista_archivos, metadata[f].BLOQUE_INICIAL) OBVIOUS
<1>3. /\ f \in Existentes /\ lista_archivos' = RemoveAt(lista_archivos, k)
      /\ metadata' = [g \in Existentes \ {f} |-> metadata[g]]
  BY <1>2 DEF Borrar
<1>4. k \in DOMAIN lista_archivos /\ lista_archivos[k].nombre = f BY <1>1, <1>2, <1>3, EntradaDe
<1>5. PICK m2 : m2 = metadata' OBVIOUS
<1>6. DOMAIN m2 = DOMAIN metadata \ {lista_archivos[k].nombre} /\ \A g \in DOMAIN m2 : m2[g] = metadata[g]
  BY <1>3, <1>4, <1>5 DEF Existentes
<1>7. lista_archivos \in Seq([nombre : Archivos, bloque_inicial : Bloques]) BY <1>1 DEF TypeOK
<1>8. Nombra(RemoveAt(lista_archivos, k), m2) BY <1>1, <1>4, <1>6, <1>7, NombraSaca
<1>9. QED BY <1>3, <1>5, <1>8, NombraSigue

\* io_fs_truncate without a compaction keeps the list faithful.
LEMMA TruncarFiel ==
  ASSUME Disco, ListaFiel, NEW f \in Archivos, NEW tam \in Tamanios,
         Truncar(f, tam), ~Compacta
  PROVE  ListaFiel'
<1>1. TiposDelDisco /\ TypeOK /\ Nombra(lista_archivos, metadata)
  BY FielNombra DEF Disco, TiposDelDisco
<1>2. ASSUME f \in Existentes, metadata' = [metadata EXCEPT ![f].TAMANIO_ARCHIVO = tam],
             lista_archivos' = lista_archivos
      PROVE  ListaFiel'
  <2>1. PICK m2 : m2 = metadata' OBVIOUS
  <2>2. DOMAIN m2 = DOMAIN metadata BY <1>2, <2>1
  <2>3. \A g \in DOMAIN metadata : m2[g].BLOQUE_INICIAL = metadata[g].BLOQUE_INICIAL
    <3> TAKE g \in DOMAIN metadata
    <3>1. CASE g # f BY <1>2, <2>1, <3>1
    <3>2. CASE g = f
      <4>1. metadata[f] \in Fichas BY <1>1, <1>2, BloquesDeArchivo
      <4>2. m2[f] = [metadata[f] EXCEPT !.TAMANIO_ARCHIVO = tam] BY <1>2, <2>1 DEF Existentes
      <4>3. QED BY <3>2, <4>1, <4>2 DEF Fichas
    <3>3. QED BY <3>1, <3>2
  <2>4. Nombra(lista_archivos, m2) BY <1>1, <2>2, <2>3, NombraIgual
  <2>5. QED BY <1>2, <2>1, <2>4, NombraSigue
<1>3. CASE TruncarEnElLugar(f, tam) BY <1>2, <1>3 DEF TruncarEnElLugar, Crece
<1>4. CASE TruncarAchicando(f, tam) BY <1>2, <1>4 DEF TruncarAchicando
<1>5. CASE TruncarMoviendo(f, tam)
  <2>1. PICK n \in Nat : n = CantBloques(tam) /\ n >= 1 BY CantPositiva, TamaniosNat
  <2>2. PICK a : a = PrimerHueco(bitmap_bloques, n) OBVIOUS
  <2>3. PICK k : k = BuscarPorBloqueInicial(lista_archivos, metadata[f].BLOQUE_INICIAL) OBVIOUS
  <2>4. /\ f \in Existentes /\ Huecos(bitmap_bloques, n) # {}
        /\ metadata' = [metadata EXCEPT ![f] = [BLOQUE_INICIAL |-> a, TAMANIO_ARCHIVO |-> tam]]
        /\ lista_archivos' = Reapuntar(lista_archivos, k, a)
    BY <1>5, <2>1, <2>2, <2>3 DEF TruncarMoviendo, Crece, Reubicar, SinSusBloques
  <2>5. a \in Bloques BY <2>1, <2>2, <2>4, HuecoLibre
  <2>6. k \in DOMAIN lista_archivos /\ f = lista_archivos[k].nombre
    BY <1>1, <2>3, <2>4, EntradaDe
  <2>7. PICK m2 : m2 = metadata' OBVIOUS
  <2>8. /\ DOMAIN m2 = DOMAIN metadata /\ m2[f].BLOQUE_INICIAL = a
        /\ \A g \in DOMAIN metadata : g # f => m2[g] = metadata[g]
    BY <2>4, <2>7 DEF Existentes
  <2>9. lista_archivos \in Seq(Entradas) BY <1>1 DEF TypeOK, Entradas
  <2>10. Nombra(Reapuntar(lista_archivos, k, a), m2)
    BY <1>1, <2>5, <2>6, <2>8, <2>9, NombraApunta
  <2>11. QED BY <2>4, <2>7, <2>10, NombraSigue
<1>6. QED BY <1>3, <1>4, <1>5 DEF Truncar, Compacta

\* A restart makes the list faithful.
LEMMA ReiniciarFiel ==
  ASSUME Disco, Reiniciar
  PROVE  ListaFiel'
<1>1. IsFiniteSet(Existentes) BY DEF Disco
<1>2. PICK n \in Nat : n = Cardinality(Existentes) BY <1>1, FS_CardinalityType
<1>3. PICK s \in [1 .. n -> Existentes] :
        /\ \A i, j \in 1 .. n : i # j => s[i] # s[j]
        /\ lista_archivos' = [i \in DOMAIN s |->
             [nombre |-> s[i], bloque_inicial |-> metadata[s[i]].BLOQUE_INICIAL]]
  BY <1>2 DEF Reiniciar, SetToSeqs
<1>4. PICK l : l = lista_archivos' OBVIOUS
<1>5. \A j \in 1 .. n : l[j].nombre = s[j]
        /\ l[j] = [nombre |-> s[j], bloque_inicial |-> metadata[s[j]].BLOQUE_INICIAL]
  BY <1>3, <1>4
<1>6. DOMAIN l = 1 .. n /\ Len(l) = n
  <2>1. DOMAIN l = 1 .. n BY <1>3, <1>4
  <2>2. l \in Seq({l[j] : j \in 1 .. n})
    <3>1. l = [j \in 1 .. n |-> l[j]] BY <1>3, <1>4
    <3>2. PICK S : S = {l[j] : j \in 1 .. n} OBVIOUS
    <3>3. l \in [1 .. n -> S] BY <3>1, <3>2
    <3>4. QED BY <1>2, <3>2, <3>3
  <2>3. QED BY <1>2, <2>1, <2>2
<1>7. s \in Surjection(1 .. n, Existentes)
  <2>1. IsFiniteSet(1 .. n) /\ Cardinality(1 .. n) = n
    <3>1. Tramo(1, n) = 1 .. n BY DEF Tramo
    <3>2. QED BY <3>1, TramoCuenta
  <2>2. s \in Injection(1 .. n, Existentes) BY <1>3 DEF Injection, IsInjective
  <2>3. QED BY <1>1, <1>2, <2>1, <2>2, FS_Injection
<1>8. Nombra(l, metadata)
  <2>1. \A g \in DOMAIN metadata : \E j \in DOMAIN l : l[j].nombre = g
    <3> TAKE g \in DOMAIN metadata
    <3>1. \E j \in 1 .. n : s[j] = g BY <1>7 DEF Surjection, Existentes
    <3>2. QED BY <1>5, <1>6, <3>1
  <2>2. \A i, j \in DOMAIN l : i # j => l[i].nombre # l[j].nombre BY <1>3, <1>5, <1>6
  <2>3. \A j \in DOMAIN l :
          /\ l[j].nombre \in DOMAIN metadata
          /\ l[j] = [nombre |-> l[j].nombre, bloque_inicial |-> metadata[l[j].nombre].BLOQUE_INICIAL]
    BY <1>3, <1>5, <1>6 DEF Existentes
  <2>4. QED BY <1>2, <1>6, <2>1, <2>2, <2>3 DEF Nombra
<1>9. metadata' = metadata BY DEF Reiniciar
<1>10. QED BY <1>4, <1>8, <1>9, NombraSigue

\* Every step that does not compact keeps the list faithful.
LEMMA FielPaso ==
  Disco /\ ListaFiel /\ [Next]_vars /\ ~Compacta => Disco' /\ ListaFiel'
<1> SUFFICES ASSUME Disco, ListaFiel, [Next]_vars, ~Compacta PROVE Disco' /\ ListaFiel'
  OBVIOUS
<1>1. Disco' BY DiscoPaso DEF CompactaFiel
<1>2. ASSUME UNCHANGED <<metadata, lista_archivos>> PROVE ListaFiel'
  BY <1>2 DEF ListaFiel, Existentes
<1>3. ListaFiel'
  BY <1>2, CrearFiel, BorrarFiel, TruncarFiel, ReiniciarFiel
  DEF Next, vars, Escribir, EscribirFuera, SinArchivo
<1>4. QED BY <1>1, <1>3

\* Without compactions, the list in memory keeps saying of each file what its
\* metadata says: creations, deletions, the other truncations and restarts all
\* leave it faithful, and compactar_bloques is the only part of the code that
\* can spoil it (HallazgoListaInfiel shows it doing so).
THEOREM ListaFielSinCompactar == Spec /\ [][~Compacta]_vars => []ListaFiel
<1>1. Init => ListaFiel
  <2> SUFFICES ASSUME Init PROVE ListaFiel OBVIOUS
  <2>1. Existentes = {} /\ lista_archivos = <<>> BY DEF Init, Existentes
  <2>2. Cardinality({}) = 0 BY FS_EmptySet
  <2>3. QED BY <2>1, <2>2 DEF ListaFiel, ToSet
<1>2. Disco /\ ListaFiel /\ UNCHANGED vars => Disco' /\ ListaFiel'
  <2>1. ASSUME Disco, ListaFiel, UNCHANGED vars PROVE Disco' /\ ListaFiel'
    <3>1. Disco' <=> Disco
      BY <2>1 DEF vars, Disco, TiposDelDisco, TypeOK, ArchivosDisjuntos, BitmapExacto,
                  BloquesDe, Existentes, Libres
    <3>2. ListaFiel' BY <2>1 DEF vars, ListaFiel, Existentes
    <3>3. QED BY <2>1, <3>1, <3>2
  <2>2. QED BY <2>1
<1>3. Disco /\ ListaFiel /\ [Next]_vars /\ [~Compacta]_vars => Disco' /\ ListaFiel'
  BY <1>2, FielPaso
<1>4. QED BY <1>1, <1>3, DiscoInicial, PTL DEF Spec

-----------------------------------------------------------------------------
(* What programs see *)

\* What the metadata m and the blocks dat say of each file
Programa(m, dat) ==
  [f \in DOMAIN m |->
     [j \in 1 .. CantBloques(m[f].TAMANIO_ARCHIVO) |-> dat[m[f].BLOQUE_INICIAL + (j - 1)]]]

\* What the programs see of the files, by metadata and data.
LEMMA LoQueVen == TiposDelDisco => Contenidos = Programa(metadata, bloques_dat)
<1> SUFFICES ASSUME TiposDelDisco PROVE Contenidos = Programa(metadata, bloques_dat) OBVIOUS
<1>1. ASSUME NEW f \in Existentes
      PROVE  Contenidos[f] = [j \in 1 .. CantBloques(metadata[f].TAMANIO_ARCHIVO) |->
                                bloques_dat[metadata[f].BLOQUE_INICIAL + (j - 1)]]
  <2>1. PICK n \in Nat : n = CantBloques(metadata[f].TAMANIO_ARCHIVO) /\ n = Cardinality(BloquesDe(f))
    BY <1>1, BloquesDeArchivo
  <2>2. Contenido(f) = [j \in 0 .. n - 1 |-> bloques_dat[metadata[f].BLOQUE_INICIAL + j]]
    BY <2>1 DEF Contenido, Leido
  <2>3. Contenidos[f] = [j \in 1 .. n |-> Contenido(f)[j - 1]] BY <1>1, <2>1 DEF Contenidos
  <2>4. \A j \in 1 .. n : j - 1 \in 0 .. n - 1 BY <2>1
  <2>5. QED BY <2>1, <2>2, <2>3, <2>4
<1>2. Contenidos = [f \in Existentes |-> Contenidos[f]] BY DEF Contenidos
<1>3. QED BY <1>1, <1>2 DEF Programa, Existentes

\* The same, after a step.
LEMMA LoQueVenDespues == TiposDelDisco' => Contenidos' = Programa(metadata', bloques_dat')
<1>1. TiposDelDisco' => (Contenidos = Programa(metadata, bloques_dat))' BY LoQueVen, PTL
<1>2. QED BY <1>1

\* Each used block is a block of one file: the abstract specification counts
\* the same ones as the bitmap.
LEMMA Ocupacion ==
  ASSUME TiposDelDisco
  PROVE  /\ D!Usados = BLOCK_COUNT - Cardinality(Libres(bitmap_bloques))
         /\ Cardinality(Libres(bitmap_bloques)) \in 0 .. BLOCK_COUNT
<1> DEFINE P == UNION {{f} \X DOMAIN Contenidos[f] : f \in Existentes}
           U == Usados(bitmap_bloques)
           L == Libres(bitmap_bloques)
           ini(f) == metadata[f].BLOQUE_INICIAL
           n(f) == CantBloques(metadata[f].TAMANIO_ARCHIVO)
           h == [p \in P |-> ini(p[1]) + (p[2] - 1)]
<1>1. D!Usados = Cardinality(P)
  <2>1. D!Existentes = Existentes BY DEF D!Existentes, Contenidos
  <2>2. QED BY <2>1 DEF D!Usados, D!Cardinality, Cardinality
<1>2. \A f \in Existentes : /\ ini(f) \in Nat /\ n(f) \in Nat /\ BloquesDe(f) = Tramo(ini(f), n(f))
                            /\ BloquesDe(f) \subseteq Bloques /\ \A b \in BloquesDe(f) : bitmap_bloques[b]
  BY BloquesDeArchivo, BloquesFinitos DEF BloquesDe
<1>3. \A f \in Existentes : DOMAIN Contenidos[f] = 1 .. n(f) BY LoQueVen DEF Programa, Existentes
<1>4. \A p : p \in P <=> \E f \in Existentes : \E j \in 1 .. n(f) : p = <<f, j>>
  <2> HIDE DEF n
  <2>1. ASSUME NEW p, p \in P PROVE \E f \in Existentes : \E j \in 1 .. n(f) : p = <<f, j>>
    <3>1. PICK f \in Existentes : p \in {f} \X DOMAIN Contenidos[f] BY <2>1
    <3>2. PICK S : S = DOMAIN Contenidos[f] OBVIOUS
    <3>3. p \in {f} \X S BY <3>1, <3>2
    <3>4. PICK j \in S : p = <<f, j>> BY <3>3
    <3>5. S = 1 .. n(f) BY <1>3, <3>1, <3>2
    <3>6. QED BY <3>1, <3>4, <3>5
  <2>2. ASSUME NEW f \in Existentes, NEW j \in 1 .. n(f) PROVE <<f, j>> \in P
    <3>1. <<f, j>> \in {f} \X DOMAIN Contenidos[f] BY <1>3, <2>2
    <3>2. QED BY <3>1
  <2> HIDE DEF P
  <2>3. QED BY <2>1, <2>2
<1> HIDE DEF P, ini, n
<1>5. \A f \in Existentes : \A j \in 1 .. n(f) :
        /\ <<f, j>> \in P /\ h[<<f, j>>] = ini(f) + (j - 1) /\ h[<<f, j>>] \in BloquesDe(f)
  <2> SUFFICES ASSUME NEW f \in Existentes, NEW j \in 1 .. n(f)
               PROVE  /\ <<f, j>> \in P /\ h[<<f, j>>] = ini(f) + (j - 1)
                      /\ h[<<f, j>>] \in BloquesDe(f)
    OBVIOUS
  <2>1. <<f, j>> \in P BY <1>4
  <2>2. h[<<f, j>>] = ini(f) + (j - 1) BY <2>1
  <2>3. ini(f) + (j - 1) \in Tramo(ini(f), n(f)) BY <1>2 DEF Tramo
  <2>4. QED BY <1>2, <2>1, <2>2, <2>3
<1>6. h \in [P -> U]
  <2>1. ASSUME NEW p \in P PROVE h[p] \in U
    <3> HIDE DEF h
    <3>1. PICK f \in Existentes : \E j \in 1 .. n(f) : p = <<f, j>> BY <1>4
    <3>2. h[p] \in BloquesDe(f) BY <1>5, <3>1
    <3>3. QED BY <1>2, <3>1, <3>2 DEF Usados
  <2>2. h = [p \in P |-> h[p]] OBVIOUS
  <2> HIDE DEF h, U
  <2>3. QED BY <2>1, <2>2
<1>7. \A p, q \in P : h[p] = h[q] => p = q
  <2> SUFFICES ASSUME NEW p \in P, NEW q \in P, h[p] = h[q] PROVE p = q OBVIOUS
  <2>1. PICK f \in Existentes : \E j \in 1 .. n(f) : p = <<f, j>> BY <1>4
  <2>2. PICK g \in Existentes : \E l \in 1 .. n(g) : q = <<g, l>> BY <1>4
  <2>a. PICK j \in 1 .. n(f) : p = <<f, j>> BY <2>1
  <2>b. PICK l \in 1 .. n(g) : q = <<g, l>> BY <2>2
  <2> HIDE DEF h
  <2>3. f = g BY <1>5, <2>a, <2>b DEF TiposDelDisco, ArchivosDisjuntos
  <2>4. ini(f) + (j - 1) = ini(f) + (l - 1) BY <1>5, <2>a, <2>b, <2>3
  <2>5. ini(f) \in Nat /\ j \in Nat /\ l \in Nat BY <1>2, <2>a, <2>b
  <2>6. QED BY <2>a, <2>b, <2>3, <2>4, <2>5
<1>8. \A b \in U : \E p \in P : h[p] = b
  <2> SUFFICES ASSUME NEW b \in U PROVE \E p \in P : h[p] = b OBVIOUS
  <2>1. b \in Bloques /\ bitmap_bloques[b] BY DEF Usados
  <2>2. PICK f \in Existentes : b \in BloquesDe(f) BY <2>1, BloqueUsado
  <2>3. b \in Tramo(ini(f), n(f)) /\ ini(f) \in Nat /\ n(f) \in Nat BY <1>2, <2>2
  <2>4. PICK j \in 1 .. n(f) : b = ini(f) + (j - 1)
    <3>1. b - ini(f) + 1 \in 1 .. n(f) /\ b = ini(f) + ((b - ini(f) + 1) - 1) BY <2>3 DEF Tramo
    <3>2. QED BY <3>1
  <2> HIDE DEF h
  <2>5. QED BY <1>5, <2>4
<1> HIDE DEF h
<1>9. h \in Injection(P, U) /\ h \in Surjection(P, U)
  <2>1. h \in Injection(P, U) BY <1>6, <1>7 DEF Injection, IsInjective
  <2>2. h \in Surjection(P, U) BY <1>6, <1>8 DEF Surjection
  <2>3. QED BY <2>1, <2>2
<1>10. U \in SUBSET Bloques /\ L \in SUBSET Bloques /\ L = Bloques \ U /\ U \cup L = Bloques /\ U \cap L = {}
  BY DEF Usados, Libres
<1> HIDE DEF U, L
<1>11. IsFiniteSet(U) /\ IsFiniteSet(L) BY <1>10, BloquesFinitos
<1>12. Cardinality(P) = Cardinality(U) BY <1>9, <1>11, FS_Injection
<1>13. Cardinality(U) \in Nat /\ Cardinality(L) \in Nat BY <1>11, FS_CardinalityType
<1>14. BLOCK_COUNT = Cardinality(U) + Cardinality(L)
  <2>1. Cardinality(U \cup L) = Cardinality(U) + Cardinality(L) - Cardinality(U \cap L)
    BY <1>11, FS_Union
  <2>2. Cardinality({}) = 0 BY FS_EmptySet
  <2>3. Cardinality(U \cup L) = BLOCK_COUNT /\ Cardinality(U \cap L) = 0
    BY <1>10, <2>2, BloquesFinitos
  <2>4. QED BY <1>13, <2>1, <2>3
<1>15. QED BY <1>1, <1>12, <1>13, <1>14 DEF L

\* To the programs io_fs_create is the creation of DialFS.
LEMMA CrearPrograma ==
  ASSUME Disco, Disco', NEW f \in Archivos, Crear(f)
  PROVE  D!Crear(f)
<1>0. TiposDelDisco /\ TiposDelDisco' /\ TypeOK BY DEF Disco, TiposDelDisco
<1>1. PICK b : b = PrimerHueco(bitmap_bloques, 1) OBVIOUS
<1>2. /\ f \notin Existentes /\ Libres(bitmap_bloques) # {}
      /\ metadata' = [g \in Existentes \cup {f} |->
                        IF g = f THEN [BLOQUE_INICIAL |-> b, TAMANIO_ARCHIVO |-> 0]
                        ELSE metadata[g]]
      /\ bloques_dat' = bloques_dat
  BY <1>1 DEF Crear
<1>3. D!Existentes = Existentes BY DEF D!Existentes, Contenidos
<1>4. D!Usados < BLOCK_COUNT
  <2>1. IsFiniteSet(Libres(bitmap_bloques))
    <3>1. Libres(bitmap_bloques) \in SUBSET Bloques BY DEF Libres
    <3>2. QED BY <3>1, BloquesFinitos
  <2>2. Cardinality(Libres(bitmap_bloques)) # 0 BY <1>2, <2>1, FS_EmptySet
  <2>3. QED BY <1>0, <2>2, Ocupacion
<1>5. f \in Existentes' BY <1>2 DEF Existentes
<1>6. b \in Bloques
  <2>1. metadata'[f].BLOQUE_INICIAL \in Bloques
    <3>1. metadata'[f] \in [BLOQUE_INICIAL : Bloques, TAMANIO_ARCHIVO : Tamanios]
      BY <1>0, <1>5 DEF TiposDelDisco, TypeOK
    <3>2. QED BY <3>1
  <2>2. QED BY <1>2, <2>1
<1>7. PICK d \in Datos : d = bloques_dat[b] BY <1>0, <1>6 DEF TypeOK
<1>8. PICK M2 : M2 = Programa(metadata', bloques_dat') OBVIOUS
<1>9. M2[f] = <<d>>
  <2>1. CantBloques(0) = 1 BY DEF CantBloques
  <2>2. metadata'[f] = [BLOQUE_INICIAL |-> b, TAMANIO_ARCHIVO |-> 0] /\ f \in DOMAIN metadata' BY <1>2
  <2>3. M2[f] = [j \in 1 .. 1 |-> bloques_dat[b + (j - 1)]] BY <1>2, <1>8, <2>1, <2>2 DEF Programa
  <2>4. \A j \in 1 .. 1 : b + (j - 1) = b BY <1>6, BloquesFinitos
  <2>5. QED BY <1>7, <2>3, <2>4
<1>10. \A g \in Existentes : M2[g] = Contenidos[g]
  BY <1>0, <1>2, <1>8, LoQueVen DEF Programa, Existentes
<1>11. M2 = [g \in Existentes \cup {f} |-> M2[g]] BY <1>2, <1>8 DEF Programa
<1>12. M2 = [g \in Existentes \cup {f} |-> IF g = f THEN <<d>> ELSE Contenidos[g]]
  BY <1>9, <1>10, <1>11
<1>13. Contenidos' = M2 BY <1>0, <1>8, LoQueVenDespues
<1>14. QED BY <1>2, <1>3, <1>4, <1>7, <1>12, <1>13 DEF D!Crear

\* To the programs io_fs_delete is the deletion of DialFS.
LEMMA BorrarPrograma ==
  ASSUME Disco, Disco', NEW f \in Archivos, Borrar(f)
  PROVE  D!Borrar(f)
<1>0. TiposDelDisco /\ TiposDelDisco' BY DEF Disco
<1>1. /\ f \in Existentes /\ metadata' = [g \in Existentes \ {f} |-> metadata[g]]
      /\ bloques_dat' = bloques_dat
  BY DEF Borrar
<1>2. D!Existentes = Existentes BY DEF D!Existentes, Contenidos
<1>3. Contenidos' = [g \in Existentes \ {f} |-> Contenidos[g]]
  <2>1. PICK M : M = Programa(metadata, bloques_dat) OBVIOUS
  <2>2. PICK M2 : M2 = Programa(metadata', bloques_dat') OBVIOUS
  <2>3. \A g \in Existentes \ {f} : M2[g] = M[g] BY <1>1, <2>1, <2>2 DEF Programa, Existentes
  <2>4. M2 = [g \in Existentes \ {f} |-> M2[g]] BY <1>1, <2>2 DEF Programa
  <2>5. Contenidos = M /\ Contenidos' = M2 BY <1>0, <2>1, <2>2, LoQueVen, LoQueVenDespues
  <2>6. QED BY <2>3, <2>4, <2>5
<1>4. QED BY <1>1, <1>2, <1>3 DEF D!Borrar

\* A file is seen as long as the blocks it has.
LEMMA ContenidoDe ==
  ASSUME TiposDelDisco, NEW f \in Existentes
  PROVE  /\ DOMAIN Contenidos = Existentes
         /\ Contenidos[f] \in [1 .. Cardinality(BloquesDe(f)) -> Datos]
         /\ Len(Contenidos[f]) = Cardinality(BloquesDe(f))
         /\ CantBloques(metadata[f].TAMANIO_ARCHIVO) = Cardinality(BloquesDe(f))
<1>1. PICK n \in Nat : n = CantBloques(metadata[f].TAMANIO_ARCHIVO) /\ n = Cardinality(BloquesDe(f))
  BY BloquesDeArchivo
<1>2. PICK a \in Nat : a = metadata[f].BLOQUE_INICIAL BY BloquesDeArchivo, BloquesFinitos
<1>3. Tramo(a, n) \subseteq Bloques BY <1>1, <1>2, BloquesDeArchivo DEF BloquesDe
<1>4. PICK c : c = Contenidos[f] OBVIOUS
<1>5. c = [j \in 1 .. n |-> bloques_dat[a + (j - 1)]]
  BY <1>1, <1>2, <1>4, LoQueVen DEF Programa, Existentes
<1>6. \A j \in 1 .. n : bloques_dat[a + (j - 1)] \in Datos
  <2>1. \A j \in 1 .. n : a + (j - 1) \in Tramo(a, n) BY DEF Tramo
  <2>2. QED BY <1>3, <2>1 DEF TiposDelDisco, TypeOK
<1>7. c \in [1 .. n -> Datos] BY <1>5, <1>6
<1>8. Len(c) = n
  <2>1. c \in Seq(Datos) BY <1>7
  <2>2. DOMAIN c = 1 .. n BY <1>7
  <2>3. QED BY <2>1, <2>2
<1>9. DOMAIN Contenidos = Existentes BY DEF Contenidos
<1>10. QED BY <1>1, <1>4, <1>7, <1>8, <1>9

\* What is seen after a step is data.
LEMMA DatosDespues ==
  TiposDelDisco' => \A f \in DOMAIN Contenidos' : \A j \in DOMAIN Contenidos'[f] : Contenidos'[f][j] \in Datos
<1>1. TiposDelDisco => \A f \in DOMAIN Contenidos : \A j \in DOMAIN Contenidos[f] : Contenidos[f][j] \in Datos
  <2> SUFFICES ASSUME TiposDelDisco, NEW f \in DOMAIN Contenidos
               PROVE  \A j \in DOMAIN Contenidos[f] : Contenidos[f][j] \in Datos
    OBVIOUS
  <2>1. f \in Existentes BY DEF Contenidos
  <2>2. Contenidos[f] \in [1 .. Cardinality(BloquesDe(f)) -> Datos] BY <2>1, ContenidoDe
  <2>3. QED BY <2>2
<1>2. TiposDelDisco' =>
        (\A f \in DOMAIN Contenidos : \A j \in DOMAIN Contenidos[f] : Contenidos[f][j] \in Datos)'
  BY <1>1, PTL
<1>3. QED BY <1>2

\* Of the files M and M2 say, only f changes: to n blocks, of which those that
\* it already had stay.
Recorta(M, f, n, M2) ==
  /\ DOMAIN M2 = DOMAIN M
  /\ \A g \in DOMAIN M \ {f} : M2[g] = M[g]
  /\ DOMAIN M2[f] = 1 .. n
  /\ \A j \in 1 .. n : j \in DOMAIN M[f] => M2[f][j] = M[f][j]

\* Cutting or growing one file and no other is the truncation of DialFS.
LEMMA TruncaPrograma ==
  ASSUME Disco, Disco', NEW f \in Existentes, NEW n \in Nat, n >= 1,
         n <= Cardinality(Libres(bitmap_bloques)) + Cardinality(BloquesDe(f)),
         Recorta(Programa(metadata, bloques_dat), f, n, Programa(metadata', bloques_dat'))
  PROVE  n \in 1 .. BLOCK_COUNT /\ D!Truncar(f, n)
<1>0. TiposDelDisco /\ TiposDelDisco' BY DEF Disco
<1>1. PICK M : M = Contenidos OBVIOUS
<1>2. PICK M2 : M2 = Contenidos' OBVIOUS
<1>3. Recorta(M, f, n, M2) BY <1>0, <1>1, <1>2, LoQueVen, LoQueVenDespues
<1>4. PICK k \in Nat : k = Cardinality(BloquesDe(f)) BY <1>0, BloquesDeArchivo
<1>5. /\ DOMAIN M = Existentes /\ M[f] \in [1 .. k -> Datos] /\ Len(M[f]) = k
  BY <1>0, <1>1, <1>4, ContenidoDe
<1>6. PICK l \in Nat : l = Cardinality(Libres(bitmap_bloques)) BY <1>0, Ocupacion
<1>7. n \in 1 .. BLOCK_COUNT
  <2>1. PICK bits : bits = SinSusBloques(f).bits OBVIOUS
  <2>2. Cardinality(Libres(bits)) = l + k BY <1>0, <1>4, <1>6, <2>1, Liberados
  <2>3. Libres(bits) \in SUBSET Bloques BY DEF Libres
  <2>4. Cardinality(Libres(bits)) <= BLOCK_COUNT BY <2>3, BloquesFinitos, FS_Subset
  <2>5. n <= l + k BY <1>4, <1>6
  <2>6. QED BY <2>2, <2>4, <2>5
<1>8. D!Usados - Len(M[f]) + n <= BLOCK_COUNT
  <2>1. D!Usados = BLOCK_COUNT - l BY <1>0, <1>6, Ocupacion
  <2>2. n <= l + k BY <1>4, <1>6
  <2>3. QED BY <1>5, <2>1, <2>2
<1>9. PICK c : c = M2[f] OBVIOUS
<1>10. c \in [1 .. n -> Datos]
  <2>1. \A j \in DOMAIN c : c[j] \in Datos
    BY <1>0, <1>2, <1>3, <1>5, <1>9, DatosDespues DEF Recorta
  <2>2. c = [j \in DOMAIN c |-> c[j]]
    <3>1. f \in DOMAIN metadata' /\ c = Programa(metadata', bloques_dat')[f]
      BY <1>0, <1>2, <1>3, <1>5, <1>9, LoQueVenDespues DEF Programa, Recorta
    <3>2. QED BY <3>1 DEF Programa
  <2>3. QED BY <1>3, <1>9, <2>1, <2>2 DEF Recorta
<1>11. \A j \in 1 .. n : j <= Len(M[f]) => c[j] = M[f][j]
  BY <1>3, <1>5, <1>9 DEF Recorta
<1>12. M2 = [M EXCEPT ![f] = c]
  <2>1. M2 = [g \in DOMAIN M |-> M2[g]]
    <3>1. M2 = [g \in DOMAIN M2 |-> M2[g]]
      <4>1. M2 = [g \in DOMAIN metadata' |-> M2[g]]
        BY <1>0, <1>2, LoQueVenDespues DEF Programa
      <4>2. QED BY <4>1
    <3>2. QED BY <1>3, <3>1 DEF Recorta
  <2>2. M = [g \in DOMAIN M |-> M[g]] BY <1>1 DEF Contenidos
  <2>3. QED BY <1>3, <1>9, <2>1, <2>2 DEF Recorta
<1>13. f \in D!Existentes BY <1>1, <1>5 DEF D!Existentes
<1>14. D!Truncar(f, n) BY <1>1, <1>2, <1>8, <1>10, <1>11, <1>12, <1>13 DEF D!Truncar
<1>15. QED BY <1>7, <1>14

\* A truncation that leaves the first block where it is
LEMMA EnElLugarPrograma ==
  ASSUME TiposDelDisco, NEW f \in Existentes, NEW tam \in Tamanios,
         metadata' = [metadata EXCEPT ![f].TAMANIO_ARCHIVO = tam], bloques_dat' = bloques_dat
  PROVE  Recorta(Programa(metadata, bloques_dat), f, CantBloques(tam),
                 Programa(metadata', bloques_dat'))
<1>1. PICK m2 : m2 = metadata' OBVIOUS
<1>2. DOMAIN m2 = DOMAIN metadata /\ \A g \in DOMAIN metadata \ {f} : m2[g] = metadata[g] BY <1>1
<1>3. m2[f].BLOQUE_INICIAL = metadata[f].BLOQUE_INICIAL /\ m2[f].TAMANIO_ARCHIVO = tam
  <2>1. metadata[f] \in Fichas BY BloquesDeArchivo
  <2>2. m2[f] = [metadata[f] EXCEPT !.TAMANIO_ARCHIVO = tam] BY <1>1 DEF Existentes
  <2>3. QED BY <2>1, <2>2 DEF Fichas
<1>4. PICK M : M = Programa(metadata, bloques_dat) OBVIOUS
<1>5. PICK M2 : M2 = Programa(m2, bloques_dat) OBVIOUS
<1>6. DOMAIN M2 = DOMAIN M /\ DOMAIN M = DOMAIN metadata BY <1>2, <1>4, <1>5 DEF Programa
<1>7. \A g \in DOMAIN M \ {f} : M2[g] = M[g] BY <1>2, <1>4, <1>5, <1>6 DEF Programa
<1>8. M2[f] = [j \in 1 .. CantBloques(tam) |-> bloques_dat[metadata[f].BLOQUE_INICIAL + (j - 1)]]
  BY <1>2, <1>3, <1>5 DEF Programa, Existentes
<1>9. \A j \in DOMAIN M[f] : M[f][j] = bloques_dat[metadata[f].BLOQUE_INICIAL + (j - 1)]
  BY <1>4 DEF Programa, Existentes
<1>10. Recorta(M, f, CantBloques(tam), M2) BY <1>6, <1>7, <1>8, <1>9 DEF Recorta
<1>11. QED BY <1>1, <1>4, <1>5, <1>10

\* The deal of the blocks, after a step.
LEMMA RepartoDespues == TiposDelDisco' => Reparto(Sitios(metadata'), bitmap_bloques')
<1>1. TiposDelDisco => Reparto(Sitios(metadata), bitmap_bloques) BY HayReparto
<1>2. TiposDelDisco' => (Reparto(Sitios(metadata), bitmap_bloques))' BY <1>1, PTL
<1>3. QED BY <1>2

\* A truncation that moves the file, and maybe the others: nothing is written
\* over what the others hold.
LEMMA ReubicaPrograma ==
  ASSUME TiposDelDisco, TiposDelDisco', NEW f \in Existentes, NEW tam \in Tamanios, Crece(f, tam),
         NEW fs \in Discos(Existentes), NEW a \in Bloques, Reubicar(f, tam, fs, Contenido(f), a),
         Cant(fs.meta, Existentes \ {f}) = Cant(metadata, Existentes \ {f}),
         Piezas(fs.meta, fs.dat, Existentes \ {f}) = Piezas(metadata, bloques_dat, Existentes \ {f})
  PROVE  Recorta(Programa(metadata, bloques_dat), f, CantBloques(tam),
                 Programa(metadata', bloques_dat'))
<1> DEFINE G == Existentes \ {f}
<1>1. PICK m2 : m2 = metadata' OBVIOUS
<1>2. PICK dat2 : dat2 = bloques_dat' OBVIOUS
<1>3. /\ DOMAIN m2 = Existentes /\ m2[f] = [BLOQUE_INICIAL |-> a, TAMANIO_ARCHIVO |-> tam]
      /\ \A g \in G : m2[g] = fs.meta[g]
  BY <1>1, Reubicado
<1>4. PICK n \in Nat : n = CantBloques(tam) BY CantPositiva, TamaniosNat
<1>5. PICK k \in Nat : k = CantBloques(metadata[f].TAMANIO_ARCHIVO) /\ k = Cardinality(BloquesDe(f))
  BY BloquesDeArchivo
<1>6. PICK i : i = metadata[f].BLOQUE_INICIAL OBVIOUS
<1>7. k < n BY <1>4, <1>5 DEF Crece
<1>8. a \in Nat BY BloquesFinitos
<1>9. PICK c : c = Contenido(f) OBVIOUS
<1>10. c = [j \in 0 .. k - 1 |-> bloques_dat[i + j]] BY <1>5, <1>6, <1>9 DEF Contenido, Leido
<1>11. \A b \in Bloques : dat2[b] = IF b - a \in 0 .. k - 1 THEN c[b - a] ELSE fs.dat[b]
  <2>1. dat2 = Grabado(fs.dat, c, a) BY <1>2, <1>9 DEF Reubicar
  <2>2. DOMAIN c = 0 .. k - 1 BY <1>10
  <2>3. QED BY <2>1, <2>2 DEF Grabado
<1>12. PICK t : t = Sitios(m2) OBVIOUS
<1>13. Reparto(t, bitmap_bloques') /\ DOMAIN t = Existentes
  BY <1>1, <1>3, <1>12, RepartoDespues DEF Sitios
<1>14. t[f] = Tramo(a, n) BY <1>3, <1>4, <1>12 DEF Sitios
<1>15. PICK M : M = Programa(metadata, bloques_dat) OBVIOUS
<1>16. PICK M2 : M2 = Programa(m2, dat2) OBVIOUS
<1>17. DOMAIN M2 = Existentes /\ DOMAIN M = Existentes
  BY <1>3, <1>15, <1>16 DEF Programa, Existentes
<1>18. ASSUME NEW g \in G PROVE M2[g] = M[g]
  <2>1. PICK q \in Nat : q = CantBloques(metadata[g].TAMANIO_ARCHIVO) BY BloquesDeArchivo
  <2>2. CantBloques(fs.meta[g].TAMANIO_ARCHIVO) = q
    <3>1. Cant(fs.meta, G)[g] = Cant(metadata, G)[g] OBVIOUS
    <3>2. QED BY <2>1, <3>1 DEF Cant
  <2>3. PICK x \in Nat : x = fs.meta[g].BLOQUE_INICIAL
    <3>1. fs.meta \in [Existentes -> Fichas] BY DiscoCampos
    <3>2. fs.meta[g] \in Fichas BY <3>1
    <3>3. QED BY <3>2, BloquesFinitos DEF Fichas
  <2>4. PICK y : y = metadata[g].BLOQUE_INICIAL OBVIOUS
  <2>5. \A j \in 0 .. q - 1 : fs.dat[x + j] = bloques_dat[y + j]
    <3>1. Piezas(fs.meta, fs.dat, G)[g] = [j \in 0 .. q - 1 |-> fs.dat[x + j]]
      BY <2>2, <2>3 DEF Piezas, Leido
    <3>2. Piezas(metadata, bloques_dat, G)[g] = [j \in 0 .. q - 1 |-> bloques_dat[y + j]]
      BY <2>1, <2>4 DEF Piezas, Leido
    <3>3. PICK P : P = Piezas(metadata, bloques_dat, G)[g] OBVIOUS
    <3>4. P = [j \in 0 .. q - 1 |-> fs.dat[x + j]] /\ P = [j \in 0 .. q - 1 |-> bloques_dat[y + j]]
      BY <3>1, <3>2, <3>3
    <3>5. QED BY <3>4
  <2>6. t[g] = Tramo(x, q) BY <1>3, <1>12, <2>2, <2>3 DEF Sitios
  <2>7. Tramo(x, q) \subseteq Bloques /\ Tramo(x, q) \cap Tramo(a, n) = {}
    BY <1>13, <1>14, <2>6 DEF Reparto
  <2>8. ASSUME NEW j \in 1 .. q PROVE dat2[x + (j - 1)] = bloques_dat[y + (j - 1)]
    <3>1. PICK b \in Nat : b = x + (j - 1) OBVIOUS
    <3>2. b \in Tramo(x, q) BY <3>1 DEF Tramo
    <3>3. b \notin Tramo(a, n) /\ b \in Bloques BY <2>7, <3>2
    <3>4. b - a \notin 0 .. k - 1
      <4> SUFFICES ASSUME b - a \in 0 .. k - 1 PROVE FALSE OBVIOUS
      <4>1. b \in a .. a + n - 1 BY <1>7, <1>8
      <4>2. QED BY <3>3, <4>1 DEF Tramo
    <3>5. dat2[b] = fs.dat[b] BY <1>11, <3>3, <3>4
    <3>6. j - 1 \in 0 .. q - 1 OBVIOUS
    <3>7. fs.dat[x + (j - 1)] = bloques_dat[y + (j - 1)] BY <2>5, <3>6
    <3>8. QED BY <3>1, <3>5, <3>7
  <2>9. M2[g] = [j \in 1 .. q |-> dat2[x + (j - 1)]]
    BY <1>3, <1>16, <2>2, <2>3 DEF Programa
  <2>10. M[g] = [j \in 1 .. q |-> bloques_dat[y + (j - 1)]]
    BY <1>15, <2>1, <2>4 DEF Programa, Existentes
  <2>11. QED BY <2>8, <2>9, <2>10
<1>19. M2[f] = [j \in 1 .. n |-> dat2[a + (j - 1)]] BY <1>3, <1>4, <1>16 DEF Programa
<1>20. M[f] = [j \in 1 .. k |-> bloques_dat[i + (j - 1)]] BY <1>5, <1>6, <1>15 DEF Programa, Existentes
<1>21. ASSUME NEW j \in 1 .. k PROVE dat2[a + (j - 1)] = bloques_dat[i + (j - 1)]
  <2>1. PICK b \in Nat : b = a + (j - 1) BY <1>8
  <2>2. b \in Tramo(a, n) BY <1>7, <1>8, <2>1 DEF Tramo
  <2>3. b \in Bloques BY <1>13, <1>14, <2>2 DEF Reparto
  <2>4. b - a = j - 1 /\ j - 1 \in 0 .. k - 1 BY <1>8, <2>1
  <2>5. dat2[b] = c[j - 1] BY <1>11, <2>3, <2>4
  <2>6. c[j - 1] = bloques_dat[i + (j - 1)] BY <1>10, <2>4
  <2>7. QED BY <2>1, <2>5, <2>6
<1>22. Recorta(M, f, n, M2)
  <2>1. DOMAIN M2[f] = 1 .. n BY <1>19
  <2>2. \A j \in 1 .. n : j \in DOMAIN M[f] => M2[f][j] = M[f][j] BY <1>19, <1>20, <1>21
  <2>3. QED BY <1>17, <1>18, <2>1, <2>2 DEF Recorta
<1>23. QED BY <1>1, <1>2, <1>4, <1>15, <1>16, <1>22

\* To the programs every way of io_fs_truncate is the truncation of DialFS.
LEMMA TruncarPrograma ==
  ASSUME Disco, Disco', CompactaFiel, NEW f \in Archivos, NEW tam \in Tamanios, Truncar(f, tam)
  PROVE  \E n \in 1 .. BLOCK_COUNT : D!Truncar(f, n)
<1>0. TiposDelDisco /\ TiposDelDisco' /\ TypeOK BY DEF Disco, TiposDelDisco
<1>1. f \in Existentes
  BY DEF Truncar, TruncarEnElLugar, TruncarMoviendo, TruncarCompactando, TruncarAchicando, Crece
<1>2. PICK n \in Nat : n = CantBloques(tam) /\ n >= 1 BY CantPositiva, TamaniosNat
<1>3. PICK k \in Nat : k = Cardinality(BloquesDe(f)) BY <1>0, <1>1, BloquesDeArchivo
<1>4. PICK l \in Nat : l = Cardinality(Libres(bitmap_bloques)) BY <1>0, Ocupacion
<1>5. Crece(f, tam) => n <= l + k BY <1>2, <1>3, <1>4 DEF Crece
<1>6. SUFFICES /\ n <= l + k
               /\ Recorta(Programa(metadata, bloques_dat), f, n, Programa(metadata', bloques_dat'))
  BY <1>1, <1>2, <1>3, <1>4, TruncaPrograma
<1>7. CASE TruncarEnElLugar(f, tam)
  <2>1. /\ Crece(f, tam) /\ metadata' = [metadata EXCEPT ![f].TAMANIO_ARCHIVO = tam]
        /\ bloques_dat' = bloques_dat
    BY <1>7 DEF TruncarEnElLugar
  <2>2. QED BY <1>0, <1>1, <1>2, <1>5, <2>1, EnElLugarPrograma
<1>8. CASE TruncarAchicando(f, tam)
  <2>1. /\ k > n /\ metadata' = [metadata EXCEPT ![f].TAMANIO_ARCHIVO = tam]
        /\ bloques_dat' = bloques_dat
    BY <1>2, <1>3, <1>8 DEF TruncarAchicando
  <2>2. n <= l + k BY <2>1
  <2>3. QED BY <1>0, <1>1, <1>2, <2>1, <2>2, EnElLugarPrograma
<1>9. CASE TruncarMoviendo(f, tam)
  <2>1. PICK fs : fs = SinSusBloques(f) OBVIOUS
  <2>2. PICK a : a = PrimerHueco(bitmap_bloques, n) OBVIOUS
  <2>3. /\ Crece(f, tam) /\ Huecos(bitmap_bloques, n) # {}
        /\ Reubicar(f, tam, fs, Contenido(f), a)
    BY <1>2, <1>9, <2>1, <2>2 DEF TruncarMoviendo
  <2>4. a \in Bloques BY <1>2, <2>2, <2>3, HuecoLibre
  <2>5. fs \in Discos(Existentes) /\ fs.meta = metadata /\ fs.dat = bloques_dat
    <3>1. fs.bits \in [Bloques -> BOOLEAN] BY <1>0, <1>1, <2>1, Liberados
    <3>2. fs = [bits |-> fs.bits, dat |-> bloques_dat, lista |-> lista_archivos, meta |-> metadata]
      BY <2>1 DEF SinSusBloques
    <3>3. QED BY <1>0, <3>1, <3>2 DEF TypeOK, Discos, Entradas, Fichas
  <2>6. QED BY <1>0, <1>1, <1>2, <1>5, <2>3, <2>4, <2>5, ReubicaPrograma
<1>10. CASE TruncarCompactando(f, tam)
  <2>1. PICK fs : fs = Compactar(SinSusBloques(f)) OBVIOUS
  <2>2. PICK a : a = PrimerHueco(fs.bits, n) OBVIOUS
  <2>3. Crece(f, tam) /\ Reubicar(f, tam, fs, Contenido(f), a)
    BY <1>2, <1>10, <2>1, <2>2 DEF TruncarCompactando
  <2>4. ListaFiel BY <1>10 DEF CompactaFiel, Compacta
  <2>5. Huecos(fs.bits, n) # {} BY <1>0, <1>1, <1>2, <2>1, <2>3, <2>4, HuecoTrasCompactar
  <2>6. a \in Bloques
    <3>1. PICK bits : bits = fs.bits OBVIOUS
    <3>2. QED BY <1>2, <2>2, <2>5, <3>1, HuecoLibre
  <2>7. Compacto(f, fs) BY <1>0, <1>1, <2>1, <2>4, Compactado
  <2>8. /\ fs \in Discos(Existentes)
        /\ Cant(fs.meta, Existentes \ {f}) = Cant(metadata, Existentes \ {f})
        /\ Piezas(fs.meta, fs.dat, Existentes \ {f}) = Piezas(metadata, bloques_dat, Existentes \ {f})
    BY <2>7 DEF Compacto
  <2>9. QED BY <1>0, <1>1, <1>2, <1>5, <2>3, <2>6, <2>8, ReubicaPrograma
<1>11. QED BY <1>7, <1>8, <1>9, <1>10 DEF Truncar

\* Bytes and blocks
LEMMA BloqueDelByte ==
  ASSUME NEW x \in Nat
  PROVE  /\ x \div BLOCK_SIZE \in Nat
         /\ \A b \in Nat : /\ b * BLOCK_SIZE <= x <=> b <= x \div BLOCK_SIZE
                           /\ x <= b * BLOCK_SIZE + BLOCK_SIZE - 1 <=> x \div BLOCK_SIZE <= b
<1>1. PICK z \in Nat : z = BLOCK_SIZE /\ z > 0 OBVIOUS
<1>2. x \div z \in Int /\ x % z \in 0 .. z - 1 /\ x = z * (x \div z) + (x % z) BY <1>1
<1>3. PICK q \in Int : q = x \div z BY <1>2
<1>4. PICK r \in 0 .. z - 1 : r = x % z BY <1>2
<1>5. x = z * q + r BY <1>2, <1>3, <1>4
<1>6. q >= 0
  <2> SUFFICES ASSUME q <= -1 PROVE FALSE BY <1>3
  <2>1. z * q <= z * (-1) BY <1>1
  <2>2. QED BY <1>1, <1>4, <1>5, <2>1
<1>7. \A b, c \in Nat : b <= c => b * z <= c * z
  <2> TAKE b, c \in Nat
  <2> SUFFICES ASSUME b <= c PROVE b * z <= c * z OBVIOUS
  <2>1. PICK d \in Nat : c = b + d
    <3>1. c - b \in Nat /\ c = b + (c - b) OBVIOUS
    <3>2. QED BY <3>1
  <2>2. c * z = b * z + d * z BY <1>1, <2>1
  <2>3. d * z \in Nat /\ b * z \in Nat BY <1>1
  <2>4. QED BY <2>2, <2>3
<1>8. q \in Nat /\ q * z = z * q BY <1>1, <1>6
<1>9. ASSUME NEW b \in Nat
      PROVE  /\ b * z <= x <=> b <= q
             /\ x <= b * z + z - 1 <=> q <= b
  <2>1. b * z \in Nat /\ q * z \in Nat /\ (q + 1) * z = q * z + z /\ (b + 1) * z = b * z + z
    BY <1>1, <1>8
  <2>2. q * z <= x /\ x <= q * z + z - 1 BY <1>1, <1>4, <1>5, <1>8, <2>1
  <2>3. b <= q => b * z <= q * z BY <1>7, <1>8
  <2>4. q <= b => q * z <= b * z BY <1>7, <1>8
  <2>5. ~(b <= q) => q * z + z <= b * z
    <3>1. ~(b <= q) => q + 1 <= b BY <1>8
    <3>2. q + 1 \in Nat BY <1>8
    <3>3. QED BY <1>7, <2>1, <3>1, <3>2
  <2>6. ~(q <= b) => b * z + z <= q * z
    <3>1. ~(q <= b) => b + 1 <= q BY <1>8
    <3>2. b + 1 \in Nat BY <1>9
    <3>3. QED BY <1>7, <1>8, <2>1, <3>1, <3>2
  <2>7. b * z <= x <=> b <= q BY <1>1, <1>8, <2>1, <2>2, <2>3, <2>5
  <2>8. x <= b * z + z - 1 <=> q <= b BY <1>1, <1>8, <2>1, <2>2, <2>4, <2>6
  <2>9. QED BY <2>7, <2>8
<1>10. QED BY <1>1, <1>3, <1>8, <1>9

\* The blocks that hold some of cant bytes from `desde` on are those from the
\* one of the first byte to the one of the last.
LEMMA BloquesTocados ==
  ASSUME NEW desde \in Nat, NEW cant \in Nat
  PROVE  /\ cant = 0 => \A b \in Nat : Tramo(b * BLOCK_SIZE, BLOCK_SIZE) \cap Tramo(desde, cant) = {}
         /\ cant # 0 =>
              /\ desde + cant - 1 \in Nat
              /\ \A b \in Nat :
                   Tramo(b * BLOCK_SIZE, BLOCK_SIZE) \cap Tramo(desde, cant) # {}
                   <=> desde \div BLOCK_SIZE <= b /\ b <= (desde + cant - 1) \div BLOCK_SIZE
<1>1. CASE cant = 0
  <2>1. Tramo(desde, cant) = {} BY <1>1 DEF Tramo
  <2>2. QED BY <1>1, <2>1
<1>2. CASE cant # 0
  <2>1. PICK u \in Nat : u = desde + cant - 1 /\ desde <= u BY <1>2
  <2>2. ASSUME NEW b \in Nat
        PROVE  Tramo(b * BLOCK_SIZE, BLOCK_SIZE) \cap Tramo(desde, cant) # {}
               <=> desde \div BLOCK_SIZE <= b /\ b <= u \div BLOCK_SIZE
    <3>1. PICK x \in Nat : x = b * BLOCK_SIZE
      <4>1. PICK z \in Nat : z = BLOCK_SIZE OBVIOUS
      <4>2. b * z \in Nat BY <2>2
      <4>3. QED BY <4>1, <4>2
    <3>2. PICK y \in Nat : y = x + BLOCK_SIZE - 1 /\ x <= y OBVIOUS
    <3>3. Tramo(x, BLOCK_SIZE) = x .. y /\ Tramo(desde, cant) = desde .. u
      BY <2>1, <3>2 DEF Tramo
    <3>4. (x .. y) \cap (desde .. u) # {} <=> x <= u /\ desde <= y
      <4>1. ASSUME x <= u, desde <= y PROVE (x .. y) \cap (desde .. u) # {}
        <5>1. CASE x <= desde
          <6>1. desde \in x .. y /\ desde \in desde .. u BY <2>1, <3>2, <4>1, <5>1
          <6>2. QED BY <6>1
        <5>2. CASE ~(x <= desde)
          <6>1. x \in x .. y /\ x \in desde .. u BY <2>1, <3>1, <3>2, <4>1, <5>2
          <6>2. QED BY <6>1
        <5>3. QED BY <5>1, <5>2
      <4>2. ASSUME NEW e \in (x .. y) \cap (desde .. u) PROVE x <= u /\ desde <= y
        BY <2>1, <3>1, <3>2, <4>2
      <4>3. QED BY <4>1, <4>2
    <3>5. x <= u <=> b <= u \div BLOCK_SIZE BY <2>1, <3>1, BloqueDelByte
    <3>6. desde <= y <=> desde \div BLOCK_SIZE <= b BY <3>1, <3>2, BloqueDelByte
    <3>7. QED BY <3>1, <3>3, <3>4, <3>5, <3>6
  <2>3. QED BY <1>2, <2>1, <2>2
<1>3. QED BY <1>1, <1>2

\* The least of two numbers.
LEMMA MinimoDeDos ==
  ASSUME NEW a \in Nat, NEW b \in Nat
  PROVE  Min({a, b}) \in Nat /\ Min({a, b}) <= a /\ Min({a, b}) <= b
<1>1. IsFiniteSet({a, b})
  <2>1. IsFiniteSet({a}) BY FS_Singleton
  <2>2. IsFiniteSet({a} \cup {b}) BY <2>1, FS_AddElement
  <2>3. {a, b} = {a} \cup {b} OBVIOUS
  <2>4. QED BY <2>2, <2>3
<1>2. {a, b} \in SUBSET Nat /\ {a, b} # {} OBVIOUS
<1>3. Min({a, b}) \in {a, b} /\ \A y \in {a, b} : Min({a, b}) <= y BY <1>1, <1>2, MinimoFinito
<1>4. QED BY <1>3

\* The offset of a block is a natural number.
LEMMA ByteNat ==
  ASSUME NEW n \in Nat
  PROVE  n * BLOCK_SIZE \in Nat
<1>1. PICK z \in Nat : z = BLOCK_SIZE OBVIOUS
<1>2. QED BY <1>1

\* Every block that io_fs_write touches is one of the file's.
LEMMA EscribirPrograma ==
  ASSUME Disco, Disco', NEW f \in Archivos, NEW size \in Largos, NEW pointer \in Tamanios,
         NEW dato \in Datos, Escribir(f, size, pointer, dato)
  PROVE  D!Escribir(f, dato) \/ UNCHANGED Contenidos
<1>0. TiposDelDisco /\ TiposDelDisco' /\ TypeOK BY DEF Disco, TiposDelDisco
<1>1. f \in Existentes /\ metadata' = metadata BY DEF Escribir
<1>2. PICK i \in Nat : i = metadata[f].BLOQUE_INICIAL BY <1>0, <1>1, BloquesDeArchivo, BloquesFinitos
<1>3. PICK n \in Nat : /\ n = Cardinality(BloquesDe(f)) /\ n = CantBloques(metadata[f].TAMANIO_ARCHIVO)
                       /\ BloquesDe(f) = Tramo(i, n)
  BY <1>0, <1>1, <1>2, BloquesDeArchivo DEF BloquesDe
<1>4. PICK x \in Nat : x = i * BLOCK_SIZE BY ByteNat
<1>5. PICK y \in Nat : y = n * BLOCK_SIZE BY ByteNat
<1>6. pointer \in Nat /\ pointer <= y BY <1>3, <1>5, TamaniosNat DEF Escribir, BytesReales
<1>7. PICK r \in Nat : r = y - pointer BY <1>6
<1>8. PICK cant \in Nat : cant = Min({size, r}) /\ cant <= r
  <2>1. size \in Nat BY DEF Largos
  <2>2. QED BY <2>1, MinimoDeDos
<1>9. PICK desde \in Nat : desde = x + pointer BY <1>6
<1>10. bloques_dat' = [b \in Bloques |->
                         IF Tramo(b * BLOCK_SIZE, BLOCK_SIZE) \cap Tramo(desde, cant) # {}
                         THEN dato ELSE bloques_dat[b]]
  <2>1. LET d == metadata[f].BLOQUE_INICIAL * BLOCK_SIZE + pointer
            c == Min({size, BytesReales(f) - pointer})
        IN  bloques_dat' =
              [b \in Bloques |->
                 IF Tramo(b * BLOCK_SIZE, BLOCK_SIZE) \cap Tramo(d, c) # {}
                 THEN dato ELSE bloques_dat[b]]
    BY DEF Escribir
  <2>2. BytesReales(f) = y BY <1>3, <1>5 DEF BytesReales
  <2>3. QED BY <1>2, <1>4, <1>7, <1>8, <1>9, <2>1, <2>2
<1>11. CASE cant = 0
  <2>1. \A b \in Bloques : Tramo(b * BLOCK_SIZE, BLOCK_SIZE) \cap Tramo(desde, cant) = {}
    BY <1>11, BloquesTocados, BloquesFinitos
  <2>2. bloques_dat' = bloques_dat BY <1>0, <1>10, <2>1 DEF TypeOK
  <2>3. QED BY <1>0, <1>1, <2>2, LoQueVen, LoQueVenDespues
<1>12. CASE cant # 0
  <2>1. PICK u \in Nat : u = desde + cant - 1 BY <1>12
  <2>2. PICK p \in Nat : p = desde \div BLOCK_SIZE BY BloqueDelByte
  <2>3. PICK q \in Nat : q = u \div BLOCK_SIZE BY BloqueDelByte
  <2>4. \A b \in Bloques : bloques_dat'[b] = IF p <= b /\ b <= q THEN dato ELSE bloques_dat[b]
    <3>1. \A b \in Nat : Tramo(b * BLOCK_SIZE, BLOCK_SIZE) \cap Tramo(desde, cant) # {}
                         <=> p <= b /\ b <= q
      BY <1>12, <2>1, <2>2, <2>3, BloquesTocados
    <3>2. QED BY <1>10, <3>1, BloquesFinitos
  <2>5. i <= p /\ p <= q /\ q <= i + n - 1
    <3>1. i <= p
      <4>1. i * BLOCK_SIZE <= desde BY <1>4, <1>6, <1>9
      <4>2. QED BY <2>2, <4>1, BloqueDelByte
    <3>2. p <= q
      <4>1. PICK w \in Nat : w = p * BLOCK_SIZE BY ByteNat
      <4>2. w <= desde BY <2>2, <4>1, BloqueDelByte
      <4>3. p * BLOCK_SIZE <= u BY <1>12, <2>1, <4>1, <4>2
      <4>4. QED BY <2>3, <4>3, BloqueDelByte
    <3>3. n >= 1 BY <1>0, <1>1, <1>3, BloquesDeArchivo
    <3>4. PICK e \in Nat : e = i + n - 1 BY <3>3
    <3>5. q <= e
      <4>1. PICK z \in Nat : z = BLOCK_SIZE OBVIOUS
      <4>2. e * z + z = i * z + n * z
        <5>1. e * z + z = (e + 1) * z BY <4>1
        <5>2. e + 1 = i + n BY <3>4
        <5>3. (i + n) * z = i * z + n * z BY <4>1
        <5>4. QED BY <5>1, <5>2, <5>3
      <4>3. PICK v \in Nat : v = e * z BY <4>1
      <4>4. v + z = x + y BY <1>4, <1>5, <4>1, <4>2, <4>3
      <4>5. u <= v + z - 1 BY <1>6, <1>7, <1>8, <1>9, <1>12, <2>1, <4>1, <4>4
      <4>6. u <= e * BLOCK_SIZE + BLOCK_SIZE - 1 BY <4>1, <4>3, <4>5
      <4>7. QED BY <2>3, <4>6, BloqueDelByte
    <3>6. QED BY <3>1, <3>2, <3>4, <3>5
  <2>6. PICK M : M = Contenidos OBVIOUS
  <2>7. PICK M2 : M2 = Contenidos' OBVIOUS
  <2>8. M = Programa(metadata, bloques_dat) /\ M2 = Programa(metadata, bloques_dat')
    BY <1>0, <1>1, <2>6, <2>7, LoQueVen, LoQueVenDespues
  <2>9. PICK a \in 1 .. n : a = p - i + 1
    <3>1. p - i + 1 \in 1 .. n BY <2>5
    <3>2. QED BY <3>1
  <2>10. PICK b \in 1 .. n : b = q - i + 1
    <3>1. q - i + 1 \in 1 .. n BY <2>5
    <3>2. QED BY <3>1
  <2>11. M2[f] = [j \in 1 .. n |-> IF a <= j /\ j <= b THEN dato ELSE M[f][j]]
    <3>1. ASSUME NEW j \in 1 .. n
          PROVE  bloques_dat'[i + (j - 1)] =
                   IF a <= j /\ j <= b THEN dato ELSE bloques_dat[i + (j - 1)]
      <4>1. PICK c \in Nat : c = i + (j - 1) OBVIOUS
      <4>2. c \in Bloques
        <5>1. c \in Tramo(i, n) BY <4>1 DEF Tramo
        <5>2. QED BY <1>0, <1>1, <1>3, <5>1, BloquesDeArchivo
      <4>3. p <= c /\ c <= q <=> a <= j /\ j <= b BY <2>9, <2>10, <4>1
      <4>4. QED BY <2>4, <4>1, <4>2, <4>3
    <3>2. M[f] = [j \in 1 .. n |-> bloques_dat[i + (j - 1)]]
      BY <1>1, <1>2, <1>3, <2>8 DEF Programa, Existentes
    <3>3. M2[f] = [j \in 1 .. n |-> bloques_dat'[i + (j - 1)]]
      BY <1>1, <1>2, <1>3, <2>8 DEF Programa, Existentes
    <3>4. \A j \in 1 .. n : M[f][j] = bloques_dat[i + (j - 1)] BY <3>2
    <3>5. \A j \in 1 .. n : bloques_dat'[i + (j - 1)] = IF a <= j /\ j <= b THEN dato ELSE M[f][j]
      BY <3>1, <3>4
    <3>6. QED BY <3>3, <3>5
  <2>12. ASSUME NEW g \in Existentes, g # f PROVE M2[g] = M[g]
    <3>1. PICK o \in Nat : o = metadata[g].BLOQUE_INICIAL
      BY <1>0, <2>12, BloquesDeArchivo, BloquesFinitos
    <3>2. PICK m \in Nat : m = CantBloques(metadata[g].TAMANIO_ARCHIVO) /\ BloquesDe(g) = Tramo(o, m)
      BY <1>0, <2>12, <3>1, BloquesDeArchivo DEF BloquesDe
    <3>3. ASSUME NEW j \in 1 .. m PROVE bloques_dat'[o + (j - 1)] = bloques_dat[o + (j - 1)]
      <4>1. PICK c \in Nat : c = o + (j - 1) OBVIOUS
      <4>2. c \in BloquesDe(g) BY <3>2, <4>1 DEF Tramo
      <4>3. c \in Bloques BY <1>0, <2>12, <4>2, BloquesDeArchivo
      <4>4. c \notin BloquesDe(f)
        BY <1>0, <1>1, <2>12, <4>2 DEF TiposDelDisco, ArchivosDisjuntos
      <4>5. ~(p <= c /\ c <= q)
        <5> SUFFICES ASSUME p <= c, c <= q PROVE FALSE OBVIOUS
        <5>1. c \in i .. i + n - 1 BY <2>5
        <5>2. QED BY <1>3, <4>4, <5>1 DEF Tramo
      <4>6. QED BY <2>4, <4>1, <4>3, <4>5
    <3>4. M[g] = [j \in 1 .. m |-> bloques_dat[o + (j - 1)]]
      BY <2>8, <2>12, <3>1, <3>2 DEF Programa, Existentes
    <3>5. M2[g] = [j \in 1 .. m |-> bloques_dat'[o + (j - 1)]]
      BY <2>8, <2>12, <3>1, <3>2 DEF Programa, Existentes
    <3>6. QED BY <3>3, <3>4, <3>5
  <2>13. DOMAIN M = Existentes /\ DOMAIN M[f] = 1 .. n
    BY <1>1, <1>3, <2>8 DEF Programa, Existentes
  <2>14. M2 = [M EXCEPT ![f] = [j \in DOMAIN @ |-> IF a <= j /\ j <= b THEN dato ELSE @[j]]]
    <3>1. PICK c : c = [j \in DOMAIN M[f] |-> IF a <= j /\ j <= b THEN dato ELSE M[f][j]] OBVIOUS
    <3>2. M2[f] = c BY <2>11, <2>13, <3>1
    <3>3. M2 = [g \in Existentes |-> M2[g]] BY <2>8 DEF Programa, Existentes
    <3>4. M2 = [M EXCEPT ![f] = c] BY <2>12, <2>13, <3>2, <3>3
    <3>5. QED BY <3>1, <3>4
  <2>15. f \in D!Existentes BY <1>1, <2>6, <2>13 DEF D!Existentes
  <2>16. a \in DOMAIN Contenidos[f] /\ b \in DOMAIN Contenidos[f] BY <2>6, <2>13
  <2>17. Contenidos' = [Contenidos EXCEPT ![f] =
                          [j \in DOMAIN @ |-> IF a <= j /\ j <= b THEN dato ELSE @[j]]]
    BY <2>6, <2>7, <2>14
  <2>18. D!Escribir(f, dato) BY <2>15, <2>16, <2>17 DEF D!Escribir
  <2>19. QED BY <2>18
<1>13. QED BY <1>11, <1>12

\* What is seen does not change if neither metadata nor data do.
LEMMA Quieto ==
  ASSUME Disco, Disco', UNCHANGED <<metadata, bloques_dat>>
  PROVE  UNCHANGED Contenidos
BY LoQueVen, LoQueVenDespues DEF Disco

\* Every step is one of DialFS, or is not seen by the programs.
LEMMA PasoDelPrograma ==
  Disco /\ Disco' /\ [Next]_vars /\ CompactaFiel => [D!Next]_Contenidos
<1> SUFFICES ASSUME Disco, Disco', [Next]_vars, CompactaFiel PROVE [D!Next]_Contenidos OBVIOUS
<1>1. ASSUME NEW f \in Archivos, Crear(f) PROVE D!Next BY <1>1, CrearPrograma DEF D!Next
<1>2. ASSUME NEW f \in Archivos, Borrar(f) PROVE D!Next BY <1>2, BorrarPrograma DEF D!Next
<1>3. ASSUME NEW f \in Archivos, NEW t \in Tamanios, Truncar(f, t) PROVE D!Next
  BY <1>3, TruncarPrograma DEF D!Next
<1>4. ASSUME NEW f \in Archivos, NEW s \in Largos, NEW p \in Tamanios, NEW d \in Datos,
             Escribir(f, s, p, d)
      PROVE  [D!Next]_Contenidos
  BY <1>4, EscribirPrograma DEF D!Next
<1>6. ASSUME NEW f, NEW p, EscribirFuera(f, p) PROVE UNCHANGED Contenidos
  BY <1>6, Quieto DEF EscribirFuera
<1>7. ASSUME NEW f, SinArchivo(f) PROVE UNCHANGED Contenidos BY <1>7, Quieto DEF SinArchivo
<1>8. ASSUME Reiniciar PROVE UNCHANGED Contenidos BY <1>8, Quieto DEF Reiniciar
<1>9. ASSUME UNCHANGED vars PROVE UNCHANGED Contenidos BY <1>9, Quieto DEF vars
<1>10. QED BY <1>1, <1>2, <1>3, <1>4, <1>6, <1>7, <1>8, <1>9 DEF Next

\* To programs, the blocks, the bitmap, the metadata files and the list are one
\* private sequence of blocks per file: every request that io_fs_create,
\* io_fs_delete, io_fs_truncate and io_fs_write serve does to the file it names
\* what DialFS says and leaves the others as they were, and so does a restart,
\* under the condition that compactar_bloques starts from a faithful list.
THEOREM ElDiscoSonArchivos == Spec /\ [][CompactaFiel]_vars => ImplementaDialFS
<1>1. Init => D!Init
  <2> SUFFICES ASSUME Init PROVE D!Init OBVIOUS
  <2>1. Existentes = {} BY DEF Init, Existentes
  <2>2. Contenidos = [f \in {} |-> Contenidos[f]] BY <2>1 DEF Contenidos
  <2>3. QED BY <2>2 DEF D!Init
<1>2. Disco /\ Disco' /\ UNCHANGED vars => [D!Next]_Contenidos BY Quieto DEF vars
<1>3. Disco /\ Disco' /\ [Next]_vars /\ [CompactaFiel]_vars => [D!Next]_Contenidos
  BY <1>2, PasoDelPrograma
<1>4. Spec /\ [][CompactaFiel]_vars => D!Spec
  BY <1>1, <1>3, DiscoSiempre, PTL DEF Spec, D!Spec
<1>5. QED BY <1>4 DEF ImplementaDialFS
=============================================================================
