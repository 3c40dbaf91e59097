SPECIFICATION Spec
CONSTANTS
  p1 = p1
  p2 = p2
  Procesos = {p1, p2}
  Programas <- ProgramasDef
  BASE = 4
  BYTES = 2
  TAM_PAGINA = 2
  MARCOS = 4
  Tablas <- TablasDef
  Finalizables = {p1, p2}
  MaxInterrupciones = 1
  Nadie = Nadie
INVARIANT TypeOK
 
INVARIANT SinRespuestaSoloPorPedido
INVARIANT AccesosEnRango
 
PROPERTY FinalizarNoSePierde
PROPERTY NadieSeEstanca
CHECK_DEADLOCK FALSE
