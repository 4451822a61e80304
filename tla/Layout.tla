------------------------------- MODULE Layout -------------------------------
(***************************************************************************)
(* How File_Init (engine/Ccurl.cpp) parts a file: n parts of equal length, *)
(* the last of which takes the rest.  Parts are numbered from 1, places in *)
(* the file from 0, and PartEnd is one past the last place.                *)
(***************************************************************************)
EXTENDS Naturals

Larger(a, b)  == IF a > b THEN a ELSE b
Smaller(a, b) == IF a < b THEN a ELSE b

PartStart(i, n, len) == (i - 1) * (len \div n)

PartEnd(i, n, len)   == IF i < n THEN i * (len \div n) ELSE len
PartLen(i, n, len)   == PartEnd(i, n, len) - PartStart(i, n, len)

(* Without Range one stream; a part has at least minPart bytes, unless the *)
(* file is shorter.                                                        *)
Parts(threads, range, len, minPart) ==
  LET wanted == IF range THEN threads ELSE 1
  IN Smaller(wanted, Larger(1, len \div minPart))
=============================================================================
