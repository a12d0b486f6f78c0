CONSTANTS
  Types <- MCTypes
  Depth <- MCDepth
  Deepest = 5
  Half <- MCHalf
  Numbers <- MCNumbers
  Cast <- MCCast
  Texts <- MCTexts
  Characters = {"a", "astral"}
  Astral = {"astral"}
  Surrogates = {"half"}
  Classes <- MCClasses
  CamelCase <- MCCamelCase
  Height = 3
  Subjects <- MCSubjects
  JavaValues <- MCJavaValues
  Readers <- MCReaders
SPECIFICATION Spec
INVARIANTS WrittenIsWhole ReadIsThere RoundTrip
CHECK_DEADLOCK FALSE
