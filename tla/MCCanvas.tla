------------------------------ MODULE MCCanvas ------------------------------
(***************************************************************************)
(* Instance of CanvasShapes for TLC.                                       *)
(***************************************************************************)
EXTENDS CanvasShapes, TLC

SomeCoords == {-7, 0, 2, 5}
SomeRadii  == {-1, 0, 1, 3, 8}

\* Two rows of nine pixels, in two bytes each; and one of three.
SomeBitmaps ==
  {[w |-> 9, h |-> 2, bits |-> 0 :> {7, 6, 2} @@ 1 :> {7, 5} @@ 2 :> {4} @@ 3 :> {}],
   [w |-> 3, h |-> 1, bits |-> 0 :> {7, 5, 4}]}

SomeGlyph == "A" :> {<<0, 0>>, <<3, 1>>, <<7, 2>>} @@ "B" :> {<<1, 0>>, <<1, 7>>}

SomeTexts == {<<"A", "B">>, <<"B", "newline", "A">>, <<"other", "newline", "newline", "A", "B">>}
=============================================================================
