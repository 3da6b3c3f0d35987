CONSTANTS
  Names = {"Ann", "Bob"}
  Unnamed = ""
  Items = {"i1"}
  Candidates <- OneListed
  Features = {"f1", "f2"}
  LabelChoices = {"+", "-"}
  MaxExports = 1
  NoBucket = NoBucket
SPECIFICATION PageSpec
INVARIANTS PageIsSaved NamedWorkStaysPut
PROPERTIES WorkIsKept
