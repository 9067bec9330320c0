--------------------------- MODULE MCCentreBoard ---------------------------
(***************************************************************************)
(* Blocks of two cells; images of no cell, of one block and a half and of  *)
(* two blocks, sizes of a part of a block and of a block below zero.  The  *)
(* two images may have one name; number 2 is that of no image.  Data of    *)
(* code streams is numbered, so that cells can be told from each other.    *)
(***************************************************************************)
EXTENDS CentreBoard

In(type, n, data) == [frame_type |-> type, id |-> n, data |-> data]

AnyInput == {In("request", 0, <<>>), In("request", 1, <<>>), In("request", 2, <<>>),
             In("control", 0, <<>>), In("transport", 0, <<11, 12>>),
             In("transport", 1, <<13>>), In("transport", 2, <<14>>)}

OffT == {-2, -1, 0, 3, 4}
=============================================================================
