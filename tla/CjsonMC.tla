------------------------------ MODULE CjsonMC ------------------------------
(* Clients of the JSON objects for TLC.  The one with ints and maps only may *)
(* hold enough objects to copy a map that has grown.                         *)
EXTENDS Cjson

AnyClients ==
  {[types |-> {"int", "map"}, most |-> 13],
   [types |-> {"int", "tuple", "map"}, most |-> 7],
   [types |-> {"string", "array", "rt"}, most |-> 8],
   [types |-> {"array", "map"}, most |-> 8]}

FillingClients == {[types |-> {"int"}, most |-> 24]}
=============================================================================
