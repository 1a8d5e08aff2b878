\* A file of up to three clusters of two bytes, offsets past the end of the disk,
\* every access may fail.
SPECIFICATION Spec
CONSTANTS
  DataSize = 2
  ClusterCount = 3
  MaxEnd = 7
  Junk = Junk
  SizeWord = 8
INVARIANT
  TypeOK
PROPERTY
  ImplementsFile
