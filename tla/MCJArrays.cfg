SPECIFICATION Spec
CONSTANTS
  HalfJint = 4
  HalfByte = 1
  Ints = {0, 1}
  Units = {0, 1}
  Surrogates = {1}
  Chars = {0, 2}
  Texts = {0}
  FieldTypes <- MCFieldTypes
  Types <- MCTypes
  Strangers <- MCStrangers
  Classes <- MCClasses
  Sizes = {0, 1, 2, 7, 8}
  MaxLen <- MCMaxLen
  MaxArrays = 2
INVARIANT HeapIsTyped
PROPERTY WritesLand ReadsAreTrue
