SPECIFICATION Spec
CONSTANTS
  Primitives <- MCPrimitives
  WrapperOf <- MCWrapperOf
  Supers <- MCSupers
  Object = "Object"
  Null = "null"
  Void = "void"
  Members <- MCMembers
  Orders <- MCOrders
  Fields <- MCFields
  Requests <- MCRequests
  Exceptions = {"NoSuchMethodError", "RuntimeException"}
  RuntimeException = "RuntimeException"
  JniMayFail = TRUE
  MaxDepth = 2
  None = None
INVARIANTS
  NeverPoisoned
  ReportsTheInvocation
  RunsWhatWasAsked
PROPERTIES
  UnresolvedMeansNoMatch
  ExceptionIsReported
