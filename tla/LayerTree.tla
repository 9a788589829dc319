------------------------------ MODULE LayerTree ------------------------------
(***************************************************************************)
(* From a layer's archive to the file system of the client.  The proxy       *)
(* extracts the TOC into its database and sends the entries of the layer; the *)
(* manager's Init builds from them, in Go's random map order, the tree that    *)
(* the FUSE nodes serve: a map from paths to files, the children of each      *)
(* directory, and the overlay's whiteouts.                                   *)
(*                                                                         *)
(* The name ".wh.x" of a path is <<"wh", x>>, ".wh..wh..opq" is <<"opq">>.     *)
(***************************************************************************)
EXTENDS Archive

VARIABLES
  lookup,    \* fileLookUpMap[stack]: the paths it has as keys
  todo,      \* the keys the loop over the map has not reached
  children,  \* the children of each file, keys, in the order they were added
  shown,     \* [key -> path]: the Name of the file
  device,    \* files turned into a character device
  opaque     \* the directories with the overlay's opaque attribute

treeVars == <<lookup, todo, children, shown, device, opaque>>
vars == <<archiveVars, treeVars>>

NoTree ==
  /\ lookup = {} /\ todo = {} /\ children = <<>> /\ shown = <<>>
  /\ device = {} /\ opaque = {}
Init == InitArchive /\ NoTree

Write == (Close \/ \E h \in Headers : AppendTar(h)) /\ UNCHANGED treeVars

\* Manager.Init on the requested files of the layer.  It needs the root, which every
\* entry but a lone hard link brings along; an archive without an entry has none, and
\* Init panics.
Fill ==
  /\ Opened /\ lookup = {} /\ LinksFound
  /\ <<>> \in AllNames
  /\ lookup' = AllNames
  /\ todo' = AllNames \ {<<>>}
  /\ children' = [p \in AllNames |-> <<>>]
  /\ shown' = [p \in AllNames |-> p]
  /\ UNCHANGED <<device, opaque, archiveVars>>

Base(p) == p[Len(p)]
Opaque == <<"opq">>
IsWhiteout(p) == Base(p)[1] = "wh"
\* The path of the file that a whiteout hides.
Hidden(p) == Append(Parent(p), <<Base(p)[2]>>)

\* One round of the loop: the key's parent gets a child, unless the key is the marker of
\* an opaque directory, which leaves the map; a whiteout takes the hidden file's name.
\* Nothing happens below a marker that has left.
VisitKeepsMarker(p) ==
  /\ p \in todo /\ todo' = todo \ {p}
  /\ opaque' = IF Base(p) = Opaque THEN opaque \cup {Parent(p)} ELSE opaque
  /\ children' = [children EXCEPT ![Parent(p)] = Append(@, p)]
  /\ shown' = IF IsWhiteout(p) THEN [shown EXCEPT ![p] = Hidden(p)] ELSE shown
  /\ device' = IF IsWhiteout(p) THEN device \cup {p} ELSE device
  /\ UNCHANGED <<lookup, archiveVars>>
Mark(p) ==
  /\ opaque' = opaque \cup {Parent(p)}
  /\ lookup' = lookup \ {p}
  /\ UNCHANGED <<children, shown, device>>
AddChild(p) ==
  /\ children' = [children EXCEPT ![Parent(p)] = Append(@, p)]
  /\ shown' = IF IsWhiteout(p) THEN [shown EXCEPT ![p] = Hidden(p)] ELSE shown
  /\ device' = IF IsWhiteout(p) THEN device \cup {p} ELSE device
  /\ UNCHANGED <<lookup, opaque>>
Visit(p) ==
  /\ p \in todo /\ todo' = todo \ {p}
  /\ CASE Parent(p) \notin lookup -> UNCHANGED <<lookup, children, shown, device, opaque>>
       [] Parent(p) \in lookup /\ Base(p) = Opaque -> Mark(p)
       [] Parent(p) \in lookup /\ Base(p) # Opaque -> AddChild(p)
  /\ UNCHANGED archiveVars

Next == Write \/ Fill \/ \E p \in todo : Visit(p)
Spec == Init /\ [][Next]_vars

-----------------------------------------------------------------------------
(* StarlightFsNode.                                                        *)

\* Lookup joins the name of the directory and looks that key up.
LookupByShown(d, name) == {p \in lookup : shown[p] = Append(shown[d], name)}
Lookup(d, name) == {p \in lookup : p = Append(shown[d], name)}
\* Readdir lists the last part of each child's name.
Readdir(d) == {Base(shown[p]) : p \in Range(children[d])}

Served == lookup # {} /\ todo = {}

-----------------------------------------------------------------------------
\* The tree has the layer's files and no more, whatever the order of the loop: each
\* file once, below its parent, and for the marker of an opaque directory the attribute
\* of that directory.
TreeIsLayer == Served =>
  /\ \A d \in lookup :
       LET inside == {p \in ChildrenOf(d) : Base(p) # Opaque} IN
       Range(children[d]) = inside /\ Len(children[d]) = Cardinality(inside)
  /\ opaque \cap lookup = {d \in lookup : \E p \in ChildrenOf(d) : Base(p) = Opaque}

\* A name that Readdir lists is found by Lookup, and is that child; but for a whiteout,
\* which keeps the key of its marker, and for the children of one, whose keys Lookup
\* makes from the name it shows.
LookupFindsListed == Served => \A d \in lookup \ device : \A p \in Range(children[d]) \ device :
  Base(shown[p]) \in Readdir(d) /\ Lookup(d, Base(shown[p])) = {p}
=============================================================================
