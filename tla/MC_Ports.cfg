\* Vectors and matrices of fixed, dynamic and partly dynamic size.
CONSTANTS
  None = None
  Layouts <- SmallLayouts
  Proposals <- SmallProposals
SPECIFICATION Spec
INVARIANTS
  TypeOK
  FixedPortsKept
  SimulationReachesSignals
  ProgramReachesSignals
PROPERTIES
  ImplementsContract
