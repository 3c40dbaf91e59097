# TLA+ models of C-Comenta

C-Comenta (`src/`) is a distributed simulation of an operating system: five
processes written in C, joined by TCP sockets, which run programs of a small
assembly language. This directory holds TLA+ models of the parts that decide
whether it works, the TLC configurations that check them on small instances
and TLAPS proofs about the kernel, the CPU, the memory and the file system. Every definition is translated from the C
source; `PROJECT.json` says from which lines ("map").

Names are those of the code, in Spanish. Comments are in English.

## 1. The system

```
                 dispatch / interrupt
   console --> KERNEL <-----------------> CPU (MMU + TLB)
                 |  \                      |
                 |   \ one socket each     | page table lookups, reads, writes
                 |    \                    v
                 |     DEVICES ---------> MEMORY
                 |     (generic, STDIN,    ^
                 |      STDOUT, DialFS)    |
                 +-------------------------+  create / remove a process
```

| Component | State | Operations | Hard behaviour | Correct when |
|---|---|---|---|---|
| Kernel, console (`kernel/src/main.c`, `interpretar_comando_kernel`) | `PLANIFICACION_PAUSADA`, the degree of multiprogramming, `pid`, `monitor_NEW`, `procesos_sistema` | INICIAR_PROCESO, FINALIZAR_PROCESO, DETENER_PLANIFICACION, INICIAR_PLANIFICACION, MULTIPROGRAMACION, PROCESO_ESTADO, EJECUTAR_SCRIPT | Takes the four `mutex_planificacion_pausada` one by one while the other threads are in the sections they protect; FINALIZAR races the eviction of the process | Each command completes; a process asked to end ends; a stopped planning moves nothing |
| Kernel, short-term scheduler (`planificar_corto_plazo`, `recibir_proceso_desalojado`) | READY, READY+, RUNNING, the quantum timer, resources and their queues | FIFO, RR, VRR; eviction by EXIT, FIN_QUANTUM, WAIT, SIGNAL, I/O, OUT_OF_MEMORY, FINALIZAR | The reason of the eviction is read from the socket, then the planning may be stopped, then the queues change; the timer and the console interrupt the CPU meanwhile | One process runs, the one in RUNNING; no order is lost; resources are conserved |
| Kernel, long-term scheduler (`planificar_new_to_ready`, `planificar_all_to_exit`) | NEW, EXIT, `contador_grado_multiprogramacion` | NEW to READY, release of resources and memory | Two threads share the socket to the memory without a lock; units of the degree change hands between three threads | Every process is loaded and ended once; units of the degree are conserved |
| Kernel, interface handlers (`atender_cliente`) | `interfaces_conectadas`: availability, pid being served, queue of the blocked | connection, IO_LIBERAR, disconnection when not in use | The process served may have been ended meanwhile; the next one may not have stored its instruction yet | Busy exactly while an order is under way; nobody waits for a free interface |
| CPU (`cpu/src/main.c`) | registers, `list_interrupciones`, `tlb_list` | fetch, execute, `check_interrupt`, `mmu`, arithmetic through `int` and decimal text | Interrupts arrive on another thread, for processes that may have left; accesses over several pages; a WAIT that is never answered | Each program runs as on a machine of its own; no request to end is dropped; nobody starves |
| Memory (`memoria/src`) | `bitmap_marcos`, `lista_pcb_tablas_paginas`, the user space | create, remove, resize, lookup, read, write; a thread per client | The search for frames and their marking are different critical sections; a piece of an access at a time | No frame shared or leaked; a process sees its own pages |
| Devices (`entradasalida/src/main.c`) | the instruction under way | sleep, STDIN, STDOUT | Addresses translated before the process was ended | Each order is reported once |
| DialFS (`entradasalida/src/filesystem.c`) | `bitmap.dat`, `bloque.dat`, metadata files, `lista_archivos_abierto` | create, delete, truncate (in place, by moving, by compacting), read, write, start | Compaction moves other files; list, bitmap and metadata say the same thing three times; restart rebuilds the list | Files are disjoint runs of blocks, the bitmap is exact, programs see private files limited only by the sum of their sizes |
| Utils (`utils/src`) | none | serialisation, send, receive | none of its own | messages arrive whole and in order |

Components interact by sockets (blocking receives, FIFO), and inside the
kernel by semaphores and shared queues. A process travels
NEW, READY, RUNNING, BLOCKED, EXIT; each move is made by a different thread, and
after it that thread posts the semaphore ("order") that wakes the thread in
charge of the next queue.

## 2. Modules

| Module | What it is |
|---|---|
| `Planificador` | What the schedulers promise: five states, one process in execution, order of arrival with READY+ first, the degree |
| `Kernel` | All threads of the kernel and, as far as the kernel sees them, the CPU, the memory and the devices |
| `KernelProperties` | Its type invariant, safety, action and liveness properties, the fairness, and the mapping by which it implements `Planificador` |
| `MCKernel` | Its instances for TLC |
| `KernelProofs` | Its types, the accounting of its orders and the mutual exclusion of its threads, proved |
| `KernelQueueProofs` | Where each process is, who waits for a resource, the stopped planning, the NULL of the console; who each interface serves, who waits for it and the orders under way |
| `KernelCountProofs` | The degree, the two ways of the CPU's socket, the socket to memory, the instances of the resources |
| `KernelRefinementProofs` | That it implements `Planificador`, proved |
| `MaquinaPropia` | What CPU, MMU, dispatch, interrupts and devices promise to a program: a machine of its own |
| `Instrucciones` | Registers, their widths and packets, and the arithmetic of `instrucciones.c`, for bytes of any even number of values |
| `Cpu`, `MCCpu` | Dispatch loop, instruction cycle, MMU, interrupt thread, both sockets, the kernel's answers and the devices' accesses; implements `MaquinaPropia` |
| `CpuProofs` | Where the burst under way is at any moment, who may wait without an answer and which requests to end are dropped; what the MMU gives of an access, and the types of registers, bytes, messages and orders, proved |
| `CpuRefinementProofs` | That it implements `MaquinaPropia`, proved |
| `EspacioLogico` | What memory, MMU and TLB promise together: private address spaces |
| `Memoria`, `MCMemoria` | Memory server, MMU and TLB; implements `EspacioLogico` |
| `MemoriaProofs` | Who has each frame, and that implementation, proved |
| `DialFS` | What the file system promises: each file a private sequence of blocks |
| `FileSystem`, `MCFileSystem` | DialFS as the code does it, with bitmap, metadata, list and compaction; implements `DialFS` |
| `FileSystemProofs` | Its types, disjoint files, exact bitmap, room after a compaction, a faithful list without one, and that it implements `DialFS`, proved |

The three detailed views of a burst fit together so: `Kernel` has every
interleaving of the kernel's threads and a CPU without registers; `Cpu` has the
registers, bytes and interrupts of the CPU and a kernel that treats a message in one
step; `Memoria` has the TLB and RESIZE and a page as one datum. Each leaves out what
another one has.

### Kernel: correspondence with the code

| In the model | In `kernel/src/main.c` |
|---|---|
| `pc[h]` | the point of its code at which thread `h` is blocked or may be overtaken |
| `sem` | `mutex_planificacion_pausada[0..3]` (`pausada0` .. `pausada3`), `contador_grado_multiprogramacion` (`grado`), `orden_planificacion_corto_plazo` (`corto`), `orden_planificacion_largo_plazo` (`largo`), `orden_proceso_exit` (`exit`), `mutex_instancias_recursos` (`inst`), and the mutex of each interface's queue |
| `cola` | `monitor_NEW/READY/READY_VRR/RUNNING/EXIT`, `cola_recursos_bloqueados`, `cola_bloqueados` of each interface |
| `pcb` | `t_pcb`: `estado`, `desalojo`, `recursos`, `cola_bloqueado`, `pedido_exit`; `instruccion_io` says whether one is stored; `parcial` says whether `quantum` is below the configured one |
| `consola.tomados` | how many pausada semaphores the console holds |
| `interfaz`, `dispositivo` | `t_interfaz`, and the orders and IO_LIBERAR under way between kernel and device |
| `cpu`, `dispatch`, `desalojos` | the CPU and both directions of `conexion_cpu_dispatch` |
| `memoria` | both directions of `conexion_memoria`, and the processes loaded |

A step runs from one blocking call to the next, and is split wherever another
thread can see what it writes outside a critical section. For example
FINALIZAR of a running process is `TomaPausada` (four times),
`FinalizarEnEjecucion` (looks at `desalojo`, interrupts the CPU) and
`MarcaPedidoFinalizacion`, because the short-term scheduler may receive the
eviction between the last two. The mutex of a monitor is taken
and released within one step, except that of an interface's queue, which the
handler keeps while it looks for the next process.

Two outcomes of the code end in a state of the console from which it does not
come back: `colgada` (`extraer_proceso` waits on a copy of a semaphore that
somebody holds) and `puntero_nulo` (the process is not where it is looked for
and NULL is dereferenced; then nothing runs any more: `Caido`).

An interface may go at any moment in which it has no order, nobody waits for it and
the short-term scheduler is not about to give it one (`EnDesuso`, `Desconexion`), and
may connect again.

Abstracted: registers and instruction bytes (see `Cpu`); the length of the quantum
(the timer may expire at any moment, and what is left after an I/O under VRR is
any part of it); the interrupt socket, whose messages are in the CPU's list as
soon as they are sent (`Cpu` has the socket); names of programs.

### Memoria: correspondence

`tablas` is `lista_pcb_tablas_paginas`, `bitmap_marcos` and `memoria` the
bitmap and the user space, `tlb` the CPU's `tlb_list` in order of timestamp,
`cpu` the process running with the state of its instruction and of the server
thread that attends it, `kernel` the server thread of the kernel, `io` the
addresses each device still has to work on. `eliminar_proceso` is two steps
(out of the list; frames released), RESIZE is a step per frame looked at, one
to mark, one to extend the table; a read or write over several pages is
translated a page per step and written a piece per step. A page holds one
datum; the bytes are in `Cpu`.

### Cpu: correspondence

`cpu` is the dispatch loop: its phase, `pid_proceso`, `registros` and `desalojo`.
`dispatch` and `desalojos` are the two directions of the dispatch socket,
`interrupt` the interrupt socket and `interrupciones` the `list_interrupciones`
that the interrupt thread fills. `pcb`, `listos`, `kernel` and `quantum` are the
kernel's PCBs, READY, whom `recibir_proceso_desalojado` waits for, and the timer
thread. An instruction with its fetch is one step and `check_interrupt` the next;
WAIT and SIGNAL are two, since the CPU stops in the receive between them. An access to
memory is translated into one piece per page (`Mmu`) and applied to the bytes of the
frames; the device of an I/O works on the addresses it was given, at any later moment.
The context goes through packets in the order in which `buffer_add_registros` writes and
`buffer_read_registros` reads.

SUM and SUB compute an `int`, turn it into decimal text without sign and give that to
`set`, which casts it to the width of the register (`Aritmetica`). So a SUB below zero
leaves the absolute value, and a result of -2^31 (`SinCadena`) makes
`intToCadena` write outside its array: the CPU is lost (`Cae`). `MaquinaPropia`
promises exact results only when they fit.

Abstracted: page tables are fixed (RESIZE is in `Memoria`); resources are
granted in the end, in any order; the text typed at a STDIN device is any
sequence of bytes; what memory holds of a process that ended is of no concern.

### FileSystem: correspondence

`bitmap_bloques`, `bloques_dat` and `metadata` are the three kinds of files,
`lista_archivos` the list in memory, `vivo` whether the device runs. A request
is a step, since the device serves one at a time. Compaction is translated as
the code does it, block by block (`MueveBloque`), with the lookup in the list by
initial block; `Arrancar` rebuilds the list in any order, as `readdir` may give it.

## 3. Runs

All bounds are CONSTANTS of the cfg or named definitions. Deadlock is not
checked: every system here may really stop, a kernel without commands to obey
waits for ever, and each `CHECK_DEADLOCK FALSE` stands for that. That nothing
stops which should go on is what the liveness runs check.

| Run | Bounds | What it checks and shows |
|---|---|---|
| `KernelRecursos` | 2 processes, 2 resources of 1 instance, FIFO; INICIAR, FINALIZAR, also repeated, PROCESO_ESTADO. 2,445,080 states | `RecursoCoherente`: outside the critical section nobody waits for an available resource. `ConservacionRecursos`: instances available, held and in transit are those configured. `SinDespertarPerdido`: see section 5. `NuloSoloPorRepetir`: the console dereferences NULL only for a process it already sent to EXIT. `MemoriaAlDia`: two threads on one socket, and memory still ends up with exactly the loaded processes |
| `KernelConsolaIO` | 2 processes, 1 interface that comes and goes, FIFO, also DETENER/INICIAR_PLANIFICACION. 1,621,466 states | `TypeOK`. `UnSoloLugar`: a process is in one queue, that of its state, or in EXIT. `InterfazCoherente`: busy exactly while an order is under way. `ExitSinTratar`: the branch that would keep pausada3 for ever is unreachable. `MutexCoherente`: each mutex is free, or taken by exactly one thread that is inside its section. `ImplementaPlanificador`: the threads do what the five-state scheduler promises, also while the user ends processes. `PlanificacionDetenida`: while the console holds the planning no process changes queue |
| `KernelTermina` | 2 processes, 1 interface, VRR, degree from 1 to 2. 185,954 states | `ConservacionGrado`: free units, loaded processes and the unit under way make the configured degree. `ImplementaPlanificador` with READY+ and with a degree that changes. Under fairness and programs that end, `LlegaAExit` and `MultiprogramacionBaja` |
| `KernelFinaliza` | 2 processes, RR, programs that need not end. 170,833 states | `CpuEjecutaElRunning`: late interrupts never make the CPU and RUNNING disagree. `FinalizarSeCumple`: the process ends even so |
| `FileSystem` | 3 files, 4 blocks of 2 bytes, 2 data. 117,728 states | `ArchivosDisjuntos`, `BitmapExacto`, `CompactarAlcanza` (the unchecked second search after a compaction finds room), `ImplementaDialFS` |
| `Memoria` | 2 processes, 3 frames, TLB of 2 entries, LRU, 2 data | `MarcosContados` (frames in use, each once, are those of the bitmap), `BusquedaVigente` (frames found by a RESIZE stay free until it marks them), and the refinement `ImplementaEspacioLogico` |
| `Cpu` | 6 pairs of programs, bytes of 4 values, words of 2 bytes, pages of 2 bytes, 4 frames, 1 interrupt in the socket. 183,975 states | The refinement `ImplementaMaquinaPropia`. `Protocolo`: the burst of the process in EXEC is in exactly one place of the CPU and the two directions of its socket. `FinalizarNoSePierde`: `check_interrupt` drops a request to end only if the eviction carries it or the PCB will. `SinRespuestaSoloPorPedido`: a CPU waits for an answer that will not come only if the user ended that process. `AccesosEnRango`: these programs reach no page they do not have, wherever they are evicted and resumed (the hypothesis of the proofs about data). `NadieSeEstanca`: under fairness a process executes for ever or ends, even next to one that loops, unless the CPU was lost as above |

Why the bounds are enough. The races of the kernel are between threads, of which
each instance has all; two processes are what it takes for one to wait while
another runs, to be next in a queue whose head is ended, and to be confused with
another. Two resources make the EXIT thread release in a loop.
Three files on four blocks give a compaction that moves two of them, past a
third. Three frames and two processes give a search that runs while frames
are released; two entries, a full TLB. In `Cpu` the programs of one process go through
8-bit wrap, results below zero, the least `int`, registers of different types,
words and strings over two and three pages that are apart in memory, both kinds of I/O with addresses,
a resource and a loop; the other process never leaves the CPU by itself, or uses a
resource and memory. With bytes of 4 values and words of 2 the overflow of both widths
happens within small numbers; the definitions take BASE and BYTES from the cfg (256 and 4 in the code).

SIGNAL without a WAIT (`SignalSinWait`) makes the number of instances grow without a
bound and is in no run; every theorem of the kernel holds with it but `RecursosConservados`, whose
property it makes false by the code's own choice.

**CONSTRAINT.** `FileSystem` and `Memoria` are explored up to the first state
that breaks an assumption the code does not keep: `ListaFiel` (the list
agrees with the metadata) and `Sano` (no stale TLB entry, no device working for
a removed process). Beyond those states the code works on the wrong file or frame and
the other properties need not hold; up to them they do. The list and the TLB
are the subject of findings 4 and 5 below; a device that works for a removed
process (`SinIOHuerfana`) is a hazard nothing in the repository speaks of.

## 4. Findings

Each is a run that TLC refutes, with the sentence of the repository it contradicts
quoted in `PROJECT.json`.

1. `HallazgoOrdenMutex` (`kernel/src/main.c:229`, `:1065`). The console takes
   pausada0..3 in order; the EXIT thread asks for pausada2 with pausada3 taken.
   FINALIZAR_PROCESO, PROCESO_ESTADO or DETENER_PLANIFICACION while a process with
   resources ends can block the console and the kernel with it for ever.
2. `HallazgoPedidoPerdido` (`:772`, `:804`). `desalojo` goes back to SIN_DESALOJAR
   without looking: a request to end that arrived while WAIT or SIGNAL was
   being answered is lost.
3. `HallazgoQuantumParcial` (`:491`). A process with part of its quantum that was
   unblocked by a SIGNAL is in READY; FINALIZAR looks for it in READY+ and uses
   the NULL it gets.
4. `HallazgoListaInfiel` (`entradasalida/src/filesystem.c:353`). After compacting, the
   list entry of the truncated file is looked for by a block that may by then
   be the initial block of another file.
5. `HallazgoTlb` (`cpu/src/main.c:624`). Entries survive the RESIZE that takes
   their page away; after growing again the CPU uses the old frame, perhaps one
   of another process.

A sixth disagreement has no run of its own. `planificar_new_to_ready` receives an answer
"NO continúo hasta que memoria haya creado correctamente el proceso!" (`kernel/src/main.c:982`),
but the EXIT thread waits on the same socket, and each may take the answer to the other.
`MemoriaAlDia` shows that the messages stay paired and that memory ends up right;
the process may all the same be READY before memory has created it.

The runs above are arranged around them: `FinalizarSeCumple` is
checked without resources, where findings 1 and 2 cannot happen; `LlegaAExit`
without FINALIZAR.

## 5. What is proved

Each theorem holds for every value of the constants, that is for any number of
processes, resources, interfaces, instances, frames and TLB entries, any
algorithm, set of commands and programs, with the conditions the table names.

| Theorem | Statement | Shown on an instance by |
|---|---|---|
| `KernelProofs!TipoCorrecto` | `Spec => []TypeOK` | `KernelConsolaIO` |
| `KernelProofs!DespertarCorrecto` | `Spec => []SinDespertarPerdido` | `KernelRecursos` |
| `KernelProofs!ExclusionMutua` | `Spec => []MutexCoherente` | `KernelConsolaIO` |
| `KernelQueueProofs!CadaUnoEnSuLugar` | `Spec => []UnSoloLugar` | `KernelConsolaIO` |
| `KernelQueueProofs!ExitEncuentra` | `Spec => []ExitSinTratar` | `KernelConsolaIO` |
| `KernelQueueProofs!NadieEsperaDeMas` | `Spec => []RecursoCoherente` | `KernelRecursos` |
| `KernelQueueProofs!DetenidaQuieta` | `Spec => PlanificacionDetenida`, an action property | `KernelConsolaIO` |
| `KernelQueueProofs!NuloSoloRepetido` | `ALGORITMO # "VRR" => (Spec => []NuloSoloPorRepetir)` | `KernelRecursos`; finding 3 is why VRR is out |
| `KernelQueueProofs!InterfacesEnOrden` | `Spec => []InterfazCoherente` | `KernelConsolaIO` |
| `KernelCountProofs!GradoConservado` | `Spec => []ConservacionGrado` | `KernelTermina` |
| `KernelCountProofs!CpuEjecutaElDeRunning` | `Spec => []CpuEjecutaElRunning` | `KernelFinaliza` |
| `KernelCountProofs!MemoriaSigueAlKernel` | `Spec => []MemoriaAlDia` | `KernelRecursos` |
| `KernelCountProofs!RecursosConservados` | `~SignalSinWait => (Spec => []ConservacionRecursos)` | `KernelRecursos` |
| `KernelRefinementProofs!ElKernelPlanifica` | `Spec => ImplementaPlanificador`, a refinement | `KernelConsolaIO`, `KernelTermina` |
| `CpuProofs!UnaSolaRafaga` | `Spec => []Protocolo` | `Cpu` |
| `CpuProofs!EsperaSinRespuesta` | `Spec => []SinRespuestaSoloPorPedido` | `Cpu` |
| `CpuProofs!InterrupcionNoSePierde` | `Spec => FinalizarNoSePierde`, an action property | `Cpu` |
| `CpuProofs!TiposDeLaCpu` | `Spec /\ []AccesosEnRango => []TypeOK` | `Cpu` |
| `CpuRefinementProofs!CadaUnoEnSuMaquina` | `Spec /\ []AccesosEnRango => ImplementaMaquinaPropia`, a refinement | `Cpu` |
| `MemoriaProofs!TipoCorrecto` | `Spec => []TypeOK` | `Memoria` |
| `MemoriaProofs!MarcosExactos` | `Spec => []MarcosContados` | `Memoria` |
| `MemoriaProofs!HalladosLibres` | `Spec => []BusquedaVigente` | `Memoria` |
| `MemoriaProofs!Implementacion` | `Spec /\ []Sano => ImplementaEspacioLogico`, a refinement | `Memoria` |
| `FileSystemProofs!TiposDelFS` | `Spec /\ [][CompactaFiel]_vars => []TypeOK` | `FileSystem` |
| `FileSystemProofs!ArchivosSinSolapar` | `Spec /\ [][CompactaFiel]_vars => []ArchivosDisjuntos` | `FileSystem` |
| `FileSystemProofs!BitmapDelMetadata` | `Spec /\ [][CompactaFiel]_vars => []BitmapExacto` | `FileSystem` |
| `FileSystemProofs!CompactarHaceSitio` | `Spec /\ [][CompactaFiel]_vars => [](ListaFiel => CompactarAlcanza)` | `FileSystem` |
| `FileSystemProofs!ElDiscoSonArchivos` | `Spec /\ [][CompactaFiel]_vars => ImplementaDialFS`, a refinement | `FileSystem` |
| `FileSystemProofs!ListaFielSinCompactar` | `Spec /\ [][~Compacta]_vars => []ListaFiel` | finding 4 shows the hypothesis is needed |

They rest on the inductive invariants `KernelProofs!Invariante`,
`KernelQueueProofs!InvarianteLugar`, `CpuProofs!InvarianteCpu`, `CpuProofs!InvarianteDatos`, `MemoriaProofs!Invariante` and
`FileSystemProofs!DiscoSiempre`. The conditions on the
constants are `ConstantesBienFormadas` (types), `NombresDistintos` (names of queues, semaphores
and threads do not clash), both in `Kernel`, `ConstantesMemoria` in `Memoria`, `ProcesosFinitos`, `TablasDisjuntas` (no frame in two page tables), `ProgramasBienFormados` (instructions name registers and numbers that fit) and `AnchosPares` (an even number of values to a byte, at least two bytes to a word) in `Cpu` and `Instrucciones`, and the assumptions of `FileSystem` on the numbers of blocks and bytes; TLC evaluates
them in the runs of those modules. In words:

- *The kernel loses no wake-up.* Every process in READY or READY+ has an order of the short-term
  scheduler under way, every process in NEW one of the NEW to READY thread, and the
  orders of the EXIT thread are exactly as many as the processes in EXIT (the value of
  the semaphore plus the thread that has just taken one).
- *Its mutexes exclude*, *each process is where its state says*, and *a stopped
  planning stays stopped*, whatever the user types and when.
- *An interface is busy exactly while one order of its is under way*, and whoever
  waits for it, but the one being served, has its instruction stored: no
  instruction is lost or sent twice.
- *Nothing it counts leaks*: units of the degree, messages on the two sockets,
  instances of the resources.
- *The frames of the memory are never shared nor leaked*, and programs see private
  memories, as long as neither of two things happens (`Sano`): a stale TLB
  entry (finding 5), a device that works for a removed process.
- *The file system never shares nor leaks a block*, and programs see private files
  limited only by the sum of their sizes, as long as no compaction starts from a wrong
  list (finding 4).

### The argument, kernel

**Types and orders.** `Inv == TypeOK /\ Control /\ PlusSoloEnVRR /\ SinDespertarPerdido`. The types
are not inductive alone: `Head(cola["RUNNING"])` is a pid only because RUNNING
is not empty at the points where the short-term scheduler reads it (`HayRunning`,
part of `Control`), `consola.objetivo` is a pid only under FINALIZAR, and
`Head(cola["EXIT"])` is a pid only because the count of orders of EXIT says that
the queue is not empty. So the types need the counts and the counts need the types.
`PlusSoloEnVRR` is needed where the short-term scheduler finds READY empty and
uses up an order: under FIFO and RR nobody can be in READY+. The first part of `KernelProofs`
proves that each action keeps the types (`TipoPaso`); the second that each
action keeps `Control` and the counts.

**Mutual exclusion.** `Control` says what each thread has taken at each
point of its code, so `MutexCoherente` is inductive relative to `Inv`. `Duenos(s)` is the set of
threads inside a section; each action takes a semaphore that is 1, and then nobody is inside,
or gives back one of which its thread was the only owner, or leaves who is inside as it was.

**Queues.** `Donde(p)` is the set of queues with p. `UnSoloLugar` is strengthened (`EnLugar`) with the
locals of the two long-term threads: the process that the EXIT thread works for is
the first of EXIT until it is removed, the one that memory is creating is in no queue. A few lemmas about
pushes, pops and removals say what a move does to every `Donde`; each action is one of those moves,
or moves nobody. `RunningEnOrden` adds who is in RUNNING at each point of the short-term scheduler:
the EXIT of the process it treats is possible because nobody else touches that queue.
`ExitSinTratar` follows, and `SinEsperaInutil` (stronger than `RecursoCoherente`, since it also holds
inside the critical section) is kept beside it.

**Stopped planning.** With the four semaphores taken, mutual exclusion leaves no thread
inside a section; every action that changes a queue is in one, but for the console's own, a creation
and the last step of the EXIT thread.

**NULL.** `PedidoMarcado`: a process that is in EXIT in a state from which the user may end it carries
the mark of that request. So if the console does not find a process where its state
says, the process is in EXIT already, and marked.

**Interfaces.** `InterfazCoherente` speaks of the moments in which nobody holds the queue of an
interface; `InterfacesAlDia` says what holds at the other ones too. Between `IOBloquea` and `IOEnvia` the process
just blocked (`Reciente`) is in the queue with no instruction stored and without being the one served; between
`DesbloqueaIO` and the next instruction the handler counts as an order under way and the one it served is not in the
queue. The process served is the first of the queue whenever it is in it (`ServidoEnOrden`), which is why the handler
may compare it with the head only; and if the user ended it, it never comes back to the queue (`Espera`: only the handler
returns a process to circulation, `EsperaPaso`), so the report of its order unblocks nobody else. Mutual exclusion keeps the two moments of
the same interface apart.

**Counts.** For the degree, one lemma per kind of step says whether the set
`Cargados` gains one, loses one or stays. For the CPU, `Protocolo` says where the CPU and both ways of its socket are at each point
of the short-term scheduler, including the CPU that waits for an answer that will not
come (finding 2): one message at most is under way each way, or two to a CPU that is still out of
step. For memory, `SocketAlDia` counts the messages with the threads that wait, and compares what memory holds
with the loaded processes, the one being created and the one being removed. For the
resources, the instances held are a set of pairs (process, number); `SenalFundada` says that a SIGNAL
under way is of an instance its process holds (for programs that hold what they signal) at all the points between the CPU and the
return, `SinEstrenar` that a PCB nobody has holds nothing.

**The five-state scheduler.** `ElKernelPlanifica` shows every action to be one of `Planificador` or a stutter, step by
step: the state a process shows (`EstadoVisible`) changes only where the code takes it out of one queue and puts it
into another (`Trasladado`), and what that does to the queues is what `CadaUnoEnSuLugar` and `RunningEnOrden` say. Two
more facts are needed. `OrdenNew`: NEW is in order of pid, behind the process that memory is creating, so that the
one admitted is the oldest, as `Planificador` asks. `CargadosVistos`: the processes that count for the degree are those
whose visible state is neither NEW nor EXIT, which turns `GradoConservado` into the guard of the admission.

### The argument, CPU

`CInv == TiposDeControl /\ ListosEnReady /\ EjecutaElDelKernel /\ Protocolo`. `Protocolo` alone is not inductive. When the
kernel takes a process from READY it has to be in READY and nowhere else (`ListosEnReady`: the list holds exactly the processes of that
state, each once), and the one in EXEC has to be the one whose return the kernel waits for (`EjecutaElDelKernel`);
otherwise a second burst could start while the first one is in the CPU. `TiposDeControl` is the part of the types that
no arithmetic touches: registers and bytes are left free, so the proof holds whatever SUM, SUB and the copies of
bytes compute. `Protocolo` has as many cases as it has because of the answer that never comes: the CPU may still be in the
receive of a WAIT when the next process is sent to it, reads that message as the answer, and is out of step (`desfasada`). The two
other theorems follow: a CPU in that receive asked for a process in EXIT only if the user ended it, and when `check_interrupt` removes
a request to end its message is the only one under way, and carries it, unless the process was leaving by itself.

**The data.** `DInv` says what registers, bytes, messages and orders hold: every context, in a PCB, in the CPU or in a
message, is a set of registers (`Juegos`) whose PC is within the program; a message on its way to the CPU has the
registers of the PCB, and one on its way back those the CPU had; the pieces of an order are what `Mmu` gave of an access of that very process (`DePiezas`).
`DireccionesDeMmu` is the fact under it: page by page, the pieces of an access of n bytes from a
logical address flatten to the physical addresses of those n bytes, in order. It is an induction over the pieces, and `ValorPorPasos`, the
number a string of bytes stands for, one over the bytes; both are done as the search for the first index that
fails (`MinimoFinito`). `AccesosEnRango`, that the program asks for no page that is not in its table,
is assumed of the behaviour, since neither `mmu` nor the memory say what comes of one; the `Cpu` run
checks it of its programs.

**A machine for each process.** `CadaUnoEnSuMaquina` finds the machine of a process by the place of its context: in its PCB
while it is not in EXEC (`Reposo`, with the order and the addresses of its device), in the message on its way to the CPU or
left behind a CPU out of step, in the CPU, or in the message of the eviction, whose reason says what the program waits for. `Vistas`
says that in each state allowed by `CInv` and `DInv` the mapping gives exactly that. Then each action is, for the machine of one process,
an instruction, a request (`Pedir`), an end or the end of a wait (`Prosigue`), or it moves a context from one place to another and
no machine sees it; and nothing happens to the other ones (`SoloDe`), which `Puntual` turns into an update at one point of each
function. Memory is the one thing processes share: a write reaches nobody else because
their frames are different (`TablasDisjuntas`), and the physical addresses of a request go back to the logical ones of the program, in order, because a frame is in one place of one
table (`Logica`). The registers that cross the socket are the same at the other end because `agregar_a_buffer` and `leer` have the same order.

### The argument, memory

`Reparto(u, r, b)` says that the frames in use by each process (its pages, or those of the table being
freed) and the reserved ones (between their marking and the extension of the table) are all different and are
those that the bitmap marks. Four lemmas about `Reparto` say what giving and taking frames does; each action is
one of them or leaves the frames alone. `BusquedaOrdenada` is what makes the search safe although
the lock is released: only this thread marks frames in use, the others free them, so a frame found free stays free; and
what has been found lies before the position reached, so it is found once.

`Implementacion` maps the page tables, the bytes of the frames and the addresses of the devices to one array per process
and proves step by step that every action is an action of `EspacioLogico` or a stutter.
It needs `Inv` (a write reaches nobody else because nobody shares a frame), `TraduccionEnOrden`
(what has been translated are frames of consecutive pages) and `PedidosPropios` (what a device
has to touch are frames of its process). `Sano` is assumed of the behaviour, not proved: it is false, and
the theorem says that nothing but its failure can go wrong. The condition is not vacuous: the `Memoria` run
explores the states that satisfy it, with replacement, resizing and accesses over several pages among them.

### The argument, file system

`Disco == TypeOK /\ ArchivosDisjuntos /\ BitmapExacto /\ IsFiniteSet(Existentes)` is inductive for every request but a compaction
whose list is wrong. `compactar_bloques` finds the files through the list in memory, and with a wrong list it moves the wrong
one: `HallazgoListaInfiel` has the behaviour. So the theorems are about the behaviours in which compaction starts from a
list that agrees with the metadata, `[][CompactaFiel]_vars`. This is weaker than what the run explores
(its CONSTRAINT ends at the first wrong list): creating, writing, moving, deleting and restarting with a
wrong list is covered. `ListaFielSinCompactar` says that the hypothesis can only fail after a first compaction: nothing else
makes the list wrong.

*A request that does not compact* gives blocks to one file or takes them: `RepartoPone` and `RepartoQuita` say what each does
to a partition of the used blocks among the files.

*Compaction* is a loop, and what it computes is an induction over its rounds (`Recorrido`). It is done as the
search for the first round that fails: the rounds are numbers below the size of the disk, and a non-empty finite set of
them has a minimum (`MinimoFinito`, from the library's theorem on well-founded orders of finite sets). In the middle of the loop a file may be cut in
two, the blocks that went down and those that did not: `Lugar` says where they are and `Compactando` that even so files are apart, the bitmap is
exact, and there is no gap behind the loop. `RondaMueve` proves a round on the blocks; `RondaPaso` adds that the search in the list
by the initial block finds the file that begins there and no other, the truncated file's own entry (which keeps its old block) included. At the end there are no gaps, so the free blocks are together at the end of
the disk (`LibresAlFinal`) and the file fits: `CompactarAlcanza`.

*Private files.* `Contenidos` is a function of metadata and blocks alone (`Programa`), so a restart, which
rebuilds the list, and every request that fails are stutters. Each other request has a lemma that says which action of `DialFS`
it is: `CrearPrograma`, `BorrarPrograma`, `TruncarPrograma` (in place, by moving or by compacting, each of which leaves what
`Recorta` describes: the blocks that remain, in their order, and the other files as they were), `EscribirPrograma` (the blocks of the bytes
written are a stretch of those of the file, `BloquesTocados`). For compaction `Guarda` says of every round that each block of each file, wherever it is
by then (`Posicion`), holds what it held before; so before and after the loop the files are the same
(`Piezas`). The capacity that `DialFS` asks for is the number of free blocks: what it counts, the pairs of a file and a
number of block, is in bijection with the used blocks of the bitmap (`Ocupacion`).

### Only model-checked

- Liveness (`LlegaAExit`, `MultiprogramacionBaja`, `FinalizarSeCumple`, `NadieSeEstanca`): fairness and ENABLED are outside
  what the prover does.
- `AccesosEnRango`, a fact of the programs of the run: it is the hypothesis of the two theorems about data.

Every other invariant, action property and refinement of a passing run has a theorem above.

## 6. Fairness

`Equidad` in `KernelProperties`:

- weak fairness of the console's own steps (once a command is typed its thread
  goes on), and nothing of the user: no command need ever be typed;
- strong fairness of the short-term, long-term and handler threads, because
  they compete for the pausada semaphores with the console: a thread blocked in
  `sem_wait` is woken by `sem_post`, and the user does not type command after
  command so fast that it never gets the semaphore;
- weak fairness of the CPU, the memory and the devices, processes of their own;
- nothing of the quantum timer: no liveness property relies on it.

`Fairness` in `Cpu`: weak fairness of the kernel's short-term scheduler, of the timer
(it is a `usleep`), of the dispatch loop and the interrupt thread, of each device and
of the release of each blocked process (`Desbloquear`, an assumption about the other programs); none of the
user's requests. Weak fairness is enough because each of these threads is alone in what it
waits for.

`LlegaAExit` also assumes `ProgramasTerminan`, that a program reaches its EXIT:
the code cannot promise more. `FinalizarSeCumple` does not assume it. If the user
types DETENER_PLANIFICACION and nothing else, nothing ends; that command is not
among those of the fair runs.

## 7. Not modelled

- An interface stopped while processes use it or wait for it: the code has a TODO
  there (`kernel/src/main.c:1205`) and destroys the queue with the processes in it.
- A stop of the device in the middle of a request of the file system: there is no
  journal and no check at start, and nothing promises that the disk survives it. The restart between requests is modelled.
- Contents returned by `io_fs_read` past the end of a file: reads change no state, and no text says what they return.
- The fetch past the end of a program gets no answer (a TODO at `memoria/src/main.c:150`); the model has it, no property is about it.
- Ties between timestamps of the TLB, addresses outside the process (`PideAcceso` names the assumption).
- Serialisation, framing and partial sends (blocking TCP; connections are FIFOs of messages), EJECUTAR_SCRIPT
  (the same commands from a file, by the same thread), logs,
  configuration, and the unused `cpu/src/MMU.c` and `utils/hello.c`.

## 8. Plan

Done, in this order: `Kernel` and its properties (the heart of the system), its
runs and first theorems; `FileSystem`; `EspacioLogico` and `Memoria`; `Instrucciones`,
`Cpu` and `MaquinaPropia`; `Planificador` and `DialFS` with the mappings that show them
implemented; the disconnection of an interface.

Then the proofs of section 5: the kernel from its types to its counts, its refinement of `Planificador`, the memory and its
refinement of `EspacioLogico`, the protocol between kernel and CPU, its data and its refinement of `MaquinaPropia`, the file system and its
refinement of `DialFS`.

## 9. How to run

```
tlc -workers 2 -config KernelRecursos.cfg MCKernel.tla
tlc -workers 2 -config Memoria.cfg MCMemoria.tla
tlc -workers 2 -config FileSystem.cfg MCFileSystem.tla
tlc -workers 2 -config Cpu.cfg MCCpu.tla
tlapm KernelProofs.tla
tlapm KernelQueueProofs.tla
tlapm KernelCountProofs.tla
tlapm KernelRefinementProofs.tla
tlapm CpuProofs.tla
tlapm CpuRefinementProofs.tla
tlapm MemoriaProofs.tla
tlapm FileSystemProofs.tla
```

Operators whose name ends in `Mut` are mistaken forms of the definition that follows
them: a dropped push, a missing post, a wrong lookup. Put in its place, each makes TLC
refute the property it is listed with under "mutants", which shows that the
property depends on that code.
