SPECIFICATION Spec
CONSTANTS
  p1 = p1
  p2 = p2
  Procesos <- DosProcesos
  CANT_MARCOS = 3
  ENTRADAS_TLB = 2
  ALGORITMO_TLB = "LRU"
  Datos = {0, 1}
  Cero = 0
  Nadie = Nadie
CONSTRAINT Sano
INVARIANT TypeOK
INVARIANT MarcosContados
INVARIANT BusquedaVigente
PROPERTY ImplementaEspacioLogico
CHECK_DEADLOCK FALSE
