SPECIFICATION Spec
CONSTANTS
  a1 = a1
  a2 = a2
  a3 = a3
  Archivos <- DosArchivos
  BLOCK_COUNT = 4
  BLOCK_SIZE = 2
  Datos = {0, 1}
  Cero = 0
INVARIANT ListaFiel
CHECK_DEADLOCK FALSE
