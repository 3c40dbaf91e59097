SPECIFICATION Spec
CONSTANTS
  MaxPid = 2
  r1 = r1
  r2 = r2
  RECURSOS <- UnRecurso
  INSTANCIAS <- UnaInstancia
  Interfaces = {i1}
  GRADO = 2
  ALGORITMO = "VRR"
  Nulo = Nulo
  Comandos = {"INICIAR_PROCESO"}
  Grados = {}
  Programa = {"EXIT_PROCESO", "IO", "WAIT_RECURSO", "SIGNAL_RECURSO"}
  MaxInstancias = 2
  SignalSinWait = FALSE
INVARIANT ListoDondeSeBusca
CHECK_DEADLOCK FALSE
