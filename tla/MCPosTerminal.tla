---------------------------- MODULE MCPosTerminal ----------------------------
(* A small shop for PosTerminal.                                           *)
EXTENDS PosTerminal, TLC

CONSTANTS ann, rice, shop

Shelf == <<rice, shop>> :> [quantity |-> 1, reserved |-> 0]
PriceList(retail) == rice :> [retail |-> retail, wholesale |-> 1, active |-> TRUE]
TwoPieces == <<rice, shop>> :> [quantity |-> 2, reserved |-> 0]
EditedCatalogs == {PriceList(2), PriceList(3)}
=============================================================================
