\* A document from the template or uploaded with a signature of its own, through all
\* three signatures, with two handlers and one fault.
SPECIFICATION Spec
CONSTANTS
  h1 = h1
  h2 = h2
  Handlers = {h1, h2}
  Uploads = {"template", "signed"}
  Markers = {"nas", "local"}
  MaxEditions = 2
  MaxFaults = 1
SYMMETRY Symmetry
INVARIANTS
  RecordedDocumentsReadable
  SignaturesStand
  OpenCeremonyCanComplete
CHECK_DEADLOCK FALSE
