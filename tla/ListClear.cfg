CONSTANTS
  NodeCapacity = 4
  Cursors = {c1}
  MaxSize = 3
SPECIFICATION Spec
INVARIANTS CursorsStayPut
