SPECIFICATION Spec
CONSTANTS
  a1 = a1
  a2 = a2
  a3 = a3
  Archivos <- TresArchivos
  BLOCK_COUNT = 4
  BLOCK_SIZE = 2
  Datos = {0, 1}
  Cero = 0
CONSTRAINT ListaFiel
INVARIANT TypeOK
INVARIANT ArchivosDisjuntos
INVARIANT BitmapExacto
INVARIANT CompactarAlcanza
PROPERTY ImplementaDialFS
CHECK_DEADLOCK FALSE
