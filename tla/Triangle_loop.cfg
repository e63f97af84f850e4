SPECIFICATION Spec
CONSTANTS
  CounterMod = 5
  MaxBehind = 2
INVARIANTS TypeOK WholePictures TimeKept
PROPERTY KeepsShowing
