SPECIFICATION Spec
CONSTANTS
  Program = {"plain", "popf"}
  Images <- PushedImages
  PopfImages <- PushedImages
PROPERTIES
  NmiIsKept
