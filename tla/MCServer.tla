------------------------------ MODULE MCServer ------------------------------
(* Three runs of the program; the last one has the shortest pids. *)
EXTENDS Server

CONSTANTS i1, i2, i3

Number == [i \in Instance |-> IF i = i1 THEN <<1, 2>> ELSE IF i = i2 THEN <<3, 4>> ELSE <<5>>]
Pids == [p \in Instance \X Generation |-> Append(Number[p[1]], p[2])]
=============================================================================
