------------------------------ MODULE MCBooks ------------------------------
(***************************************************************************)
(* The two books, book.go and engine.py, on the same few orders: `engine`  *)
(* says which of them is called.  Three valid ticks make a price better,   *)
(* equal and worse; tick 0 and quantity 0 are the invalid inputs.  The     *)
(* identifiers are interchangeable: nothing compares them but for equality.*)
(***************************************************************************)
EXTENDS PythonBook

VARIABLE engine

booksVars == <<vars, engine>>

BooksInit == Init /\ engine \in {"go", "python"}

BooksNext ==
    /\ \/ engine = "go" /\ Next
       \/ engine = "python" /\ PyNext
    /\ UNCHANGED engine

BooksSpec == BooksInit /\ [][BooksNext]_booksVars

IdSymmetry == Permutations(Ids)
=============================================================================
