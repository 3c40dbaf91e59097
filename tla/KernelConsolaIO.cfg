SPECIFICATION Spec
CONSTANTS
  MaxPid = 2
  r1 = r1
  r2 = r2
  RECURSOS <- SinRecursos
  INSTANCIAS <- UnaInstancia
  Interfaces = {i1}
  GRADO = 2
  ALGORITMO = "FIFO"
  Nulo = Nulo
  Comandos = {"INICIAR_PROCESO", "FINALIZAR_PROCESO", "DETENER_PLANIFICACION", "DESCONECTAR_INTERFAZ"}
  Grados = {}
  Programa = {"EXIT_PROCESO", "IO"}
  MaxInstancias = 2
  SignalSinWait = FALSE
INVARIANT TypeOK
INVARIANT UnSoloLugar
INVARIANT InterfazCoherente
INVARIANT ExitSinTratar
INVARIANT MutexCoherente
PROPERTY ImplementaPlanificador
PROPERTY PlanificacionDetenida
CHECK_DEADLOCK FALSE
