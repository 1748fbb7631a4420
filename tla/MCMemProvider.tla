--------------------------- MODULE MCMemProvider ---------------------------
EXTENDS MemProvider

Lower == [n \in Spellings |-> IF n = "A" THEN "a" ELSE n]
=============================================================================
