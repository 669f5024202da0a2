SPECIFICATION Spec
CONSTANT
  MaxSpun = 4000
INVARIANT
  BurnsLittle
PROPERTY
  YieldsInTheEnd
