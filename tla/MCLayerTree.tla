---------------------------- MODULE MCLayerTree ----------------------------
(***************************************************************************)
(* The instance TLC checks: files of one to three chunks of two bytes, a     *)
(* name that comes twice, a directory with and without an entry, whiteouts.  *)
(***************************************************************************)
EXTENDS LayerTree

Header(name, type, size, link) ==
  [name |-> name, type |-> type, size |-> size, link |-> link]
d == <<"d">>
f == <<"f">>
MCHeaders ==
  {Header(<<f>>, "reg", size, <<>>) : size \in {1, 4, 5}} \cup
  {Header(<<<<".">>, d>>, "dir", 0, <<>>), Header(<<<<".">>>>, "dir", 0, <<>>),
   Header(<<d, f>>, "reg", 2, <<>>), Header(<<d, f>>, "dir", 0, <<>>),
   Header(<<d, <<"wh", "f">>>>, "reg", 0, <<>>), Header(<<d, <<"opq">>>>, "reg", 0, <<>>),
   Header(<<d, <<"opq">>, f>>, "dir", 0, <<>>), Header(<<d, <<"wh", "f">>, f>>, "dir", 0, <<>>),
   Header(<<<<"h">>>>, "hardlink", 0, <<f>>)}
=============================================================================
