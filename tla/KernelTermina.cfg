SPECIFICATION FairSpecProgramas
CONSTANTS
  MaxPid = 2
  r1 = r1
  r2 = r2
  RECURSOS <- SinRecursos
  INSTANCIAS <- UnaInstancia
  Interfaces = {i1}
  GRADO = 2
  ALGORITMO = "VRR"
  Nulo = Nulo
  Comandos = {"INICIAR_PROCESO", "MULTIPROGRAMACION"}
  Grados = {1,2}
  Programa = {"EXIT_PROCESO", "IO"}
  MaxInstancias = 2
  SignalSinWait = FALSE
INVARIANT ConservacionGrado
PROPERTY ImplementaPlanificador
PROPERTY LlegaAExit
PROPERTY MultiprogramacionBaja
CHECK_DEADLOCK FALSE
