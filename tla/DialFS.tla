------------------------------- MODULE DialFS -------------------------------
(***************************************************************************)
(* What the file system promises to programs, without block numbers,      *)
(* bitmap, metadata files or a list in memory: each file is a private      *)
(* sequence of blocks, a request changes one file, and what limits the     *)
(* files is the sum of their sizes and never how they are laid out.        *)
(***************************************************************************)
EXTENDS Naturals, Sequences, FiniteSets

CONSTANTS
  Archivos,      \* file names
  BLOCK_COUNT,   \* blocks of the disk
  Datos          \* what a block may hold

VARIABLE contenido   \* of each existing file

Existentes == DOMAIN contenido

\* How many blocks the files have between them.
Usados == Cardinality(UNION {{f} \X DOMAIN contenido[f] : f \in Existentes})

Init == contenido = [f \in {} |-> <<>>]

\* A new file has one block, with whatever the disk had there.
Crear(f) ==
  /\ f \notin Existentes
  /\ Usados < BLOCK_COUNT
  /\ \E d \in Datos :
       contenido' = [g \in Existentes \cup {f} |-> IF g = f THEN <<d>> ELSE contenido[g]]

Borrar(f) ==
  /\ f \in Existentes
  /\ contenido' = [g \in Existentes \ {f} |-> contenido[g]]

\* The blocks that remain keep what they hold; those added hold anything.
Truncar(f, n) ==
  /\ f \in Existentes
  /\ Usados - Len(contenido[f]) + n <= BLOCK_COUNT
  /\ \E s \in [1 .. n -> Datos] :
       /\ \A j \in 1 .. n : j <= Len(contenido[f]) => s[j] = contenido[f][j]
       /\ contenido' = [contenido EXCEPT ![f] = s]

\* A write covers a stretch of the blocks of the file.
Escribir(f, dato) ==
  /\ f \in Existentes
  /\ \E a, b \in DOMAIN contenido[f] :
       contenido' = [contenido EXCEPT ![f] =
                       [j \in DOMAIN @ |-> IF a <= j /\ j <= b THEN dato ELSE @[j]]]

Next ==
  \E f \in Archivos :
    \/ Crear(f) \/ Borrar(f)
    \/ \E n \in 1 .. BLOCK_COUNT : Truncar(f, n)
    \/ \E d \in Datos : Escribir(f, d)

Spec == Init /\ [][Next]_contenido
=============================================================================
