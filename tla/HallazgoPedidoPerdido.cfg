SPECIFICATION Spec
CONSTANTS
  MaxPid = 1
  r1 = r1
  r2 = r2
  RECURSOS <- UnRecurso
  INSTANCIAS <- UnaInstancia
  Interfaces = {}
  GRADO = 1
  ALGORITMO = "FIFO"
  Nulo = Nulo
  Comandos = {"INICIAR_PROCESO", "FINALIZAR_PROCESO"}
  Grados = {}
  Programa = {"EXIT_PROCESO", "WAIT_RECURSO"}
  MaxInstancias = 2
  SignalSinWait = FALSE
PROPERTY PedidoNoSePierde
CHECK_DEADLOCK FALSE
