\* Two files in one or two connections, two clients, one upload key; z is
\* a content of an unsupported format.
SPECIFICATION Spec
SYMMETRY Symmetry
CONSTANTS
  Files = {f1, f2}
  Connections = {p1, p2}
  Clients = {c1, c2}
  Contents = {x, y, z}
  Supported = {x, y}
  Invoices = {i}
  Keys = {k}
  MaxEdits = 1
  Null = null
CHECK_DEADLOCK FALSE
INVARIANTS TypeOK OneRecordPerOriginal FilingStaysPossible FiledAsCompleted UploadKeysStandForContent
PROPERTIES CompletesWhatWasRead ImplementsRegister
