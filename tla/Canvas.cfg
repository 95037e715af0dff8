\* A canvas that cuts off most shapes, and small shapes all over it.
CONSTANTS
  Width = 10
  Height = 9
  Coords <- SomeCoords
  Sizes = {0, 1, 4, 7}
  Radii <- SomeRadii
  Colours = {0, 2, 255}
  Scales = {0, 1, 2}
  Bitmaps <- SomeBitmaps
  Glyph <- SomeGlyph
  Texts <- SomeTexts
SPECIFICATION FairSpec
INVARIANTS
  NearLine
  NearCircle
  ShapeDrawn
PROPERTIES
  CallEnds
