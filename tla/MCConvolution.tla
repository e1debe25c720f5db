---- MODULE MCConvolution ----
(***************************************************************************)
(* Shapes that fill tiles and that do not: several channels with a filter  *)
(* of one element, a filter of four elements, outputs of one row and of    *)
(* several, two blocks side by side, and two images.                       *)
(***************************************************************************)
EXTENDS Convolution

Shape(b, m, c, h, w, k) == [B |-> b, M |-> m, C |-> c, H |-> h, W |-> w, K |-> k]

MCShapes ==
    {Shape(1, 1, 1, 2, 3, 2), Shape(1, 2, 2, 3, 2, 2),      \* filters of four elements
     Shape(1, 1, 1, 1, 3, 1),                               \* two blocks side by side
     Shape(1, 2, 3, 1, 2, 1), Shape(2, 1, 1, 2, 1, 1)}      \* three channels; two images
====
