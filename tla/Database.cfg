\* UserModel in two programs on one row; one program that calls the wrapper.
CONSTANTS
  Programs = {a, b}
  First = a
  Rows = {r}
SPECIFICATION DatabaseSpec
INVARIANTS
  WrapperIsSound
PROPERTIES
  ModelsKeepPromise
  MethodsEnd
