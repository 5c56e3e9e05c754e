CONSTANTS
  NodeCapacity = 4
  Cursors = {c1, c2}
  MaxSize = 7
SPECIFICATION Spec
SYMMETRY CursorSymmetry
INVARIANTS LinksValid ContentsInOrder LinkedCursorsStayPut
