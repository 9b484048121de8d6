CONSTANTS
  File = {a, b, c}
  Plain = plain
  NoFile = none
  MaxLen = 2
SPECIFICATION Spec
INVARIANTS TypeOK LoadedOnce LinkComplete NoImportLeft ImportsFirst DepthBounded
PROPERTIES LinkEnds LinkShrinks ImplementsLinked
