SPECIFICATION FairSpec
CONSTANTS
  MaxPid = 1
  r1 = r1
  r2 = r2
  RECURSOS <- UnRecurso
  INSTANCIAS <- UnaInstancia
  Interfaces = {}
  GRADO = 1
  ALGORITMO = "FIFO"
  Nulo = Nulo
  Comandos = {"INICIAR_PROCESO", "PROCESO_ESTADO"}
  Grados = {}
  Programa = {"EXIT_PROCESO", "WAIT_RECURSO"}
  MaxInstancias = 2
  SignalSinWait = FALSE
PROPERTY PlanificacionSeReanuda
CHECK_DEADLOCK FALSE
