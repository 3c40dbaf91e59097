----------------------------- MODULE FileSystem -----------------------------
(***************************************************************************)
(* The DialFS of entradasalida/src/filesystem.c: one contiguous run of     *)
(* blocks per file, a bitmap mapped on bitmap.dat, one metadata file per   *)
(* file, and the list of open files kept in memory and rebuilt from the    *)
(* metadata when the device starts.                                        *)
(*                                                                         *)
(* Grain.  The device serves one request at a time, so a request is a      *)
(* step.  The process may be stopped and started between two requests.     *)
(* A block's content is one datum: a write gives it to every block it      *)
(* touches.  An entry of the list that the code looks for and does not     *)
(* find ends the process; that takes a list that already disagrees with    *)
(* the metadata (ListaFiel) and is not modelled.                           *)
(***************************************************************************)
EXTENDS Integers, SequencesExt, FiniteSetsExt

CONSTANTS
  Archivos,       \* file names
  BLOCK_COUNT,    \* config.block_count
  BLOCK_SIZE,     \* config.block_size
  Datos,          \* what programs write
  Cero            \* what ftruncate fills a new bloque.dat with

ASSUME ConstantesFS ==
  /\ BLOCK_COUNT \in Nat \ {0}
  /\ BLOCK_SIZE \in Nat \ {0}
  /\ Cero \in Datos

Bloques  == 0 .. BLOCK_COUNT - 1
Tamanios == 0 .. BLOCK_COUNT * BLOCK_SIZE   \* bound: sizes asked of TRUNCATE
Largos   == 1 .. BLOCK_SIZE + 1             \* bound: sizes asked of WRITE

VARIABLES
  bitmap_bloques,   \* bitmap.dat, mapped
  bloques_dat,      \* bloque.dat
  metadata,         \* the metadata files: BLOQUE_INICIAL and TAMANIO_ARCHIVO
  lista_archivos,   \* lista_archivos_abierto, in memory
  vivo              \* the device process runs

vars == <<bitmap_bloques, bloques_dat, metadata, lista_archivos, vivo>>

Existentes == DOMAIN metadata

-----------------------------------------------------------------------------
(* Blocks and bitmap. *)

\* Definitions whose name ends in Mut are mistaken forms of the one that
\* follows; no definition uses them (PROJECT.json, "mutants").

Techo(bytes) == (bytes + BLOCK_SIZE - 1) \div BLOCK_SIZE

\* A file of size 0 holds one block.
CantBloques(tamanio) == IF tamanio = 0 THEN 1 ELSE Techo(tamanio)

Tramo(inicial, cant) == inicial .. inicial + cant - 1

BloquesDe(f) ==
  Tramo(metadata[f].BLOQUE_INICIAL, CantBloques(metadata[f].TAMANIO_ARCHIVO))

Libres(bits) == {b \in Bloques : ~ bits[b]}

DesasignarBloquesMut(bits, tramo) == [b \in Bloques |-> bits[b] /\ b # Min(tramo)]

AsignarBloques(bits, tramo)    == [b \in Bloques |-> bits[b] \/ b \in tramo]
DesasignarBloques(bits, tramo) == [b \in Bloques |-> bits[b] /\ b \notin tramo]

\* buscar_bloques_libres_contiguos(cant, -1): the positions it may answer.
Huecos(bits, cant) == {b \in Bloques : Tramo(b, cant) \subseteq Libres(bits)}

PrimerHuecoMut(bits, cant) == Min(Huecos(bits, cant)) - 1
PrimerHueco(bits, cant)    == Min(Huecos(bits, cant))

LibresDesdeMut(bits, cant, desde) == Tramo(desde, cant - 1) \subseteq Libres(bits)

\* buscar_bloques_libres_contiguos(cant, desde) finds the blocks right there.
LibresDesde(bits, cant, desde) == Tramo(desde, cant) \subseteq Libres(bits)

\* Index in the list of the first entry with that initial block; 0 is NULL.
BuscarPorBloqueInicial(lista, bloque) ==
  SelectInSeq(lista, LAMBDA e : e.bloque_inicial = bloque)

\* The entry at index k, if there is one, gets another initial block.
Reapuntar(lista, k, bloque) ==
  [j \in DOMAIN lista |->
     IF j = k THEN [lista[j] EXCEPT !.bloque_inicial = bloque] ELSE lista[j]]

Leido(dat, inicial, cant) == [j \in 0 .. cant - 1 |-> dat[inicial + j]]

GrabadoMut(dat, contenido, inicial) == dat

Grabado(dat, contenido, inicial) ==
  [b \in Bloques |-> IF b - inicial \in DOMAIN contenido
                     THEN contenido[b - inicial] ELSE dat[b]]

-----------------------------------------------------------------------------
(* Compaction: every used block goes down to the first free one, and the   *)
(* file that begins in it follows, found through the list.                 *)

MueveBloqueMut(fs, i) ==
  LET usados == {b \in Bloques : b >= i /\ fs.bits[b]}
  IN  IF usados = {} THEN fs
      ELSE [fs EXCEPT !.bits = AsignarBloques(@, {i}), !.dat[i] = fs.dat[Min(usados)]]

MueveBloque(fs, i) ==
  LET usados == {b \in Bloques : b >= i /\ fs.bits[b]}
      u      == Min(usados)
      k      == BuscarPorBloqueInicial(fs.lista, u)
  IN  IF usados = {} THEN fs
      ELSE [bits  |-> AsignarBloques(DesasignarBloques(fs.bits, {u}), {i}),
            dat   |-> [fs.dat EXCEPT ![i] = fs.dat[u]],
            lista |-> Reapuntar(fs.lista, k, i),
            meta  |-> [f \in DOMAIN fs.meta |->
                         IF k # 0 /\ f = fs.lista[k].nombre
                         THEN [fs.meta[f] EXCEPT !.BLOQUE_INICIAL = i]
                         ELSE fs.meta[f]]]

\* From the first free block to the end of the disk; the caller has just freed
\* its own blocks.
Compactar(fs) ==
  LET primero == Min(Libres(fs.bits))
      tras[i \in primero .. BLOCK_COUNT] ==
        IF i = primero THEN fs ELSE MueveBloque(tras[i - 1], i - 1)
  IN  tras[BLOCK_COUNT]

-----------------------------------------------------------------------------
(* Requests. *)

\* fs_create in an empty directory.
Init ==
  /\ bitmap_bloques = [b \in Bloques |-> FALSE]
  /\ bloques_dat = [b \in Bloques |-> Cero]
  /\ metadata = [f \in {} |-> 0]
  /\ lista_archivos = <<>>
  /\ vivo = TRUE

\* io_fs_create.  With the disk full, or with the name taken, nothing changes.
Crear(f) ==
  LET b == PrimerHueco(bitmap_bloques, 1)
  IN  /\ vivo /\ f \notin Existentes
      /\ Libres(bitmap_bloques) # {}
      /\ metadata' = [g \in Existentes \cup {f} |->
                        IF g = f THEN [BLOQUE_INICIAL |-> b, TAMANIO_ARCHIVO |-> 0]
                        ELSE metadata[g]]
      /\ lista_archivos' = Append(lista_archivos, [nombre |-> f, bloque_inicial |-> b])
      /\ bitmap_bloques' = AsignarBloques(bitmap_bloques, {b})
      /\ UNCHANGED <<bloques_dat, vivo>>

\* io_fs_delete.  The entry that goes is the one found by the initial block.
Borrar(f) ==
  LET k == BuscarPorBloqueInicial(lista_archivos, metadata[f].BLOQUE_INICIAL)
  IN  /\ vivo /\ f \in Existentes
      /\ bitmap_bloques' = DesasignarBloques(bitmap_bloques, BloquesDe(f))
      /\ lista_archivos' = RemoveAt(lista_archivos, k)
      /\ metadata' = [g \in Existentes \ {f} |-> metadata[g]]
      /\ UNCHANGED <<bloques_dat, vivo>>

\* io_fs_truncate to a size of more blocks, of which enough are free.
Crece(f, tamanio) ==
  /\ vivo /\ f \in Existentes
  /\ LET faltan == CantBloques(tamanio) - Cardinality(BloquesDe(f))
     IN  faltan > 0 /\ Cardinality(Libres(bitmap_bloques)) >= faltan

CabeEnElLugar(f, tamanio) ==
  LET cant  == Cardinality(BloquesDe(f))
      final == metadata[f].BLOQUE_INICIAL + cant - 1
  IN  LibresDesde(bitmap_bloques, CantBloques(tamanio) - cant, final + 1)

\* The file takes the blocks that follow its last one.
TruncarEnElLugar(f, tamanio) ==
  /\ Crece(f, tamanio)
  /\ CabeEnElLugar(f, tamanio)
  /\ bitmap_bloques' =
       AsignarBloques(bitmap_bloques,
                      Tramo(metadata[f].BLOQUE_INICIAL, CantBloques(tamanio)))
  /\ metadata' = [metadata EXCEPT ![f].TAMANIO_ARCHIVO = tamanio]
  /\ UNCHANGED <<bloques_dat, lista_archivos, vivo>>

\* The end of both ways of moving a file: its content is written from block
\* `a` on, and the list entry found by the OLD initial block is updated.
Reubicar(f, tamanio, fs, contenido, a) ==
  LET k == BuscarPorBloqueInicial(fs.lista, metadata[f].BLOQUE_INICIAL)
  IN  /\ bitmap_bloques' = AsignarBloques(fs.bits, Tramo(a, CantBloques(tamanio)))
      /\ bloques_dat' = Grabado(fs.dat, contenido, a)
      /\ metadata' = [fs.meta EXCEPT ![f] = [BLOQUE_INICIAL |-> a,
                                             TAMANIO_ARCHIVO |-> tamanio]]
      /\ lista_archivos' = Reapuntar(fs.lista, k, a)
      /\ UNCHANGED vivo

\* What the file leaves behind once its own blocks are freed.
SinSusBloques(f) ==
  [bits  |-> DesasignarBloques(bitmap_bloques, BloquesDe(f)),
   dat   |-> bloques_dat,
   lista |-> lista_archivos,
   meta  |-> metadata]

Contenido(f) == Leido(bloques_dat, metadata[f].BLOQUE_INICIAL, Cardinality(BloquesDe(f)))

\* A hole for the whole file, found before its own blocks are freed.
TruncarMoviendo(f, tamanio) ==
  LET nueva == CantBloques(tamanio)
  IN  /\ Crece(f, tamanio) /\ ~ CabeEnElLugar(f, tamanio)
      /\ Huecos(bitmap_bloques, nueva) # {}
      /\ Reubicar(f, tamanio, SinSusBloques(f), Contenido(f),
                  PrimerHueco(bitmap_bloques, nueva))

\* No hole: the rest of the disk is compacted without the file, which then
\* goes to the first hole.
TruncarCompactando(f, tamanio) ==
  LET nueva == CantBloques(tamanio)
      fs    == Compactar(SinSusBloques(f))
  IN  /\ Crece(f, tamanio) /\ ~ CabeEnElLugar(f, tamanio)
      /\ Huecos(bitmap_bloques, nueva) = {}
      /\ Reubicar(f, tamanio, fs, Contenido(f), PrimerHueco(fs.bits, nueva))

\* io_fs_truncate to fewer blocks.  To as many blocks: nothing changes.
TruncarAchicando(f, tamanio) ==
  /\ vivo /\ f \in Existentes
  /\ LET actual == Cardinality(BloquesDe(f))
         nueva  == CantBloques(tamanio)
         final  == metadata[f].BLOQUE_INICIAL + actual - 1
     IN  /\ actual > nueva
         /\ bitmap_bloques' =
              DesasignarBloques(bitmap_bloques, final - (actual - nueva) + 1 .. final)
  /\ metadata' = [metadata EXCEPT ![f].TAMANIO_ARCHIVO = tamanio]
  /\ UNCHANGED <<bloques_dat, lista_archivos, vivo>>

\* io_fs_write of `size` bytes at `pointer`; what does not fit is cut.
BytesReales(f) == Cardinality(BloquesDe(f)) * BLOCK_SIZE

Escribir(f, size, pointer, dato) ==
  /\ vivo /\ f \in Existentes
  /\ pointer <= BytesReales(f)
  /\ LET desde == metadata[f].BLOQUE_INICIAL * BLOCK_SIZE + pointer
         cant  == Min({size, BytesReales(f) - pointer})
     IN  bloques_dat' =
           [b \in Bloques |->
              IF Tramo(b * BLOCK_SIZE, BLOCK_SIZE) \cap Tramo(desde, cant) # {}
              THEN dato ELSE bloques_dat[b]]
  /\ UNCHANGED <<bitmap_bloques, metadata, lista_archivos, vivo>>

\* io_fs_write past the end exits.
EscribirFuera(f, pointer) ==
  /\ vivo /\ f \in Existentes
  /\ pointer > BytesReales(f)
  /\ vivo' = FALSE
  /\ UNCHANGED <<bitmap_bloques, bloques_dat, metadata, lista_archivos>>

\* Every other request for a file that does not exist dereferences the NULL
\* that config_create returns.
SinArchivo(f) ==
  /\ vivo /\ f \notin Existentes
  /\ vivo' = FALSE
  /\ UNCHANGED <<bitmap_bloques, bloques_dat, metadata, lista_archivos>>

\* The device is started again: fs_create finds bloque.dat and bitmap.dat, and
\* cargar_archivos_existentes lists the files in the order of readdir.
Reiniciar ==
  /\ lista_archivos' \in
       {[i \in DOMAIN s |-> [nombre |-> s[i], bloque_inicial |-> metadata[s[i]].BLOQUE_INICIAL]] :
          s \in SetToSeqs(Existentes)}
  /\ vivo' = TRUE
  /\ UNCHANGED <<bitmap_bloques, bloques_dat, metadata>>

Truncar(f, tamanio) ==
  \/ TruncarEnElLugar(f, tamanio)
  \/ TruncarMoviendo(f, tamanio)
  \/ TruncarCompactando(f, tamanio)
  \/ TruncarAchicando(f, tamanio)

Next ==
  \/ \E f \in Archivos :
       \/ Crear(f)
       \/ Borrar(f)
       \/ \E t \in Tamanios : Truncar(f, t)
       \/ \E s \in Largos, p \in Tamanios, d \in Datos : Escribir(f, s, p, d)
       \/ \E p \in 0 .. BLOCK_COUNT * BLOCK_SIZE + 1 : EscribirFuera(f, p)
       \/ SinArchivo(f)
  \/ Reiniciar

Spec == Init /\ [][Next]_vars

-----------------------------------------------------------------------------
(* Properties. *)

\* Every variable holds a value of its type.
TypeOK ==
  /\ bitmap_bloques \in [Bloques -> BOOLEAN]
  /\ bloques_dat \in [Bloques -> Datos]
  /\ Existentes \subseteq Archivos
  /\ metadata \in [Existentes -> [BLOQUE_INICIAL : Bloques, TAMANIO_ARCHIVO : Tamanios]]
  /\ lista_archivos \in Seq([nombre : Archivos, bloque_inicial : Bloques])
  /\ vivo \in BOOLEAN

\* No two files share a block, whatever sequence of creations, deletions,
\* truncations, compactions and restarts led there.
ArchivosDisjuntos ==
  \A f, g \in Existentes : f # g => BloquesDe(f) \cap BloquesDe(g) = {}

\* The bitmap marks the blocks the metadata files give to files and no others:
\* no block leaks and none is handed out twice.
BitmapExacto ==
  Bloques \ Libres(bitmap_bloques) = UNION {BloquesDe(f) : f \in Existentes}

\* The list in memory, through which compaction and deletion find a file,
\* says of each file what its metadata says ("actualizar bloque inicial de
\* archivo si corresponde", filesystem.c:577).
ListaFiel ==
  /\ Len(lista_archivos) = Cardinality(Existentes)
  /\ ToSet(lista_archivos) =
       {[nombre |-> f, bloque_inicial |-> metadata[f].BLOQUE_INICIAL] : f \in Existentes}

\* When a growing file finds no hole but the free blocks suffice, compaction
\* leaves one: the unchecked second search (filesystem.c:335) never answers -3.
CompactarAlcanza ==
  \A f \in Existentes, t \in Tamanios :
    Crece(f, t) => Huecos(Compactar(SinSusBloques(f)).bits, CantBloques(t)) # {}

\* What programs read of each file, block by block.
Contenidos ==
  [f \in Existentes |->
     LET c == Contenido(f)
     IN  [j \in 1 .. Cardinality(BloquesDe(f)) |-> c[j - 1]]]

D == INSTANCE DialFS WITH contenido <- Contenidos

\* Whatever a request places, moves, compacts, cuts or writes, programs see
\* private files: the others keep their contents, the one truncated keeps the
\* blocks that remain in their order, a write lands in the file it names and
\* nowhere else, and the device comes back from a restart with what it had.
ImplementaDialFS == D!Spec
=============================================================================
