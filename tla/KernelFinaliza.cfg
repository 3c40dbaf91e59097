SPECIFICATION FairSpec
CONSTANTS
  MaxPid = 2
  r1 = r1
  r2 = r2
  RECURSOS <- SinRecursos
  INSTANCIAS <- UnaInstancia
  Interfaces = {}
  GRADO = 2
  ALGORITMO = "RR"
  Nulo = Nulo
  Comandos = {"INICIAR_PROCESO", "FINALIZAR_PROCESO"}
  Grados = {}
  Programa = {"EXIT_PROCESO", "OUT_OF_MEMORY"}
  MaxInstancias = 2
  SignalSinWait = FALSE
INVARIANT CpuEjecutaElRunning
PROPERTY FinalizarSeCumple
CHECK_DEADLOCK FALSE
