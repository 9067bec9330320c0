--------------------------- MODULE MCCarriedBoard ---------------------------
(***************************************************************************)
(* Frames of every type and file numbers on both sides of the four-        *)
(* character rule.  The data cells of different frames differ.             *)
(***************************************************************************)
EXTENDS CarriedBoard

In(type, n, data) == [frame_type |-> type, id |-> n, data |-> data]

AnyInput == {In("request", 0, <<>>), In("control", 0, <<>>),
             In("transport", 0, <<1, 2>>), In("transport", 999, <<3, 4>>),
             In("transport", 1000, <<5, 6>>), In("transport", 1000, <<7>>),
             In("transport", 9999, <<8, 9>>), In("transport", -100, <<10, 11>>)}
=============================================================================
