--------------------------- MODULE MCPreparation ---------------------------
(* Eight engines, and requests below, between and beyond the caps. *)
EXTENDS Preparation

MCHabits == {"price-time", "arrival only", "last come first", "taker's price",
             "any price", "cancels anything", "cancel ignored", "market rests"}
MCNumbers == {-1, 0, 1, 4, 7, 8, 12}
=============================================================================
