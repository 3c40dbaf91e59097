SPECIFICATION Spec
CONSTANTS
  MaxPid = 2
  r1 = r1
  r2 = r2
  RECURSOS <- DosRecursos
  INSTANCIAS <- UnaInstancia
  Interfaces = {}
  GRADO = 2
  ALGORITMO = "FIFO"
  Nulo = Nulo
  Comandos = {"INICIAR_PROCESO", "FINALIZAR_PROCESO", "REPETIR_FINALIZAR", "PROCESO_ESTADO"}
  Grados = {}
  Programa = {"EXIT_PROCESO", "WAIT_RECURSO", "SIGNAL_RECURSO"}
  MaxInstancias = 2
  SignalSinWait = FALSE
INVARIANT RecursoCoherente
 
INVARIANT SinDespertarPerdido
INVARIANT NuloSoloPorRepetir
INVARIANT MemoriaAlDia
CHECK_DEADLOCK FALSE
