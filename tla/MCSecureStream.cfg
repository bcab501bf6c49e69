SPECIFICATION Spec
CONSTANTS
  MaxRecord = 2
  OutBuffer = 3
  InBuffer = 1
  MaxBytes <- MCMaxBytes
PROPERTIES
  ImplementsByteStream
  Arrives
