------------------------------- MODULE Archive -------------------------------
(***************************************************************************)
(* The chunked archive of a layer.  Writer turns a tar into gzip members: a  *)
(* chunk of a regular file is a member of its own, so that it can be cut out  *)
(* of the archive; what lies between the chunks (headers, padding) is in      *)
(* members too.  The table of contents (TOC) says where the chunks are, a     *)
(* footer says where the TOC is.  Reader builds its maps from the TOC.        *)
(*                                                                         *)
(* A path is a sequence of names, <<>> is the root, and a name is a sequence  *)
(* too: <<"a">>, or <<".">> in a path that is not clean.  A byte of the tar is a *)
(* record: the entry it belongs to and its position, 0 for the header and -1  *)
(* for padding.  A member of k bytes takes k + 1 bytes of the archive.        *)
(*                                                                         *)
(* A definition named after another one (CompressedBeforeClose before              *)
(* CompressedSize) is that code with a plausible bug, which a run has to      *)
(* detect when it takes its place; no specification uses it.                 *)
(***************************************************************************)
EXTENDS Integers, Sequences, FiniteSets, SequencesExt

CONSTANTS
  Headers,     \* tar headers: [name, type, size, link]
  ChunkSize,   \* Writer.ChunkSize
  MaxEntries   \* bound

ASSUME ArchiveAssumption ==
  /\ ChunkSize \in Nat \ {0} /\ MaxEntries \in Nat
  /\ \A h \in Headers : /\ h.name \in Seq(Seq(STRING)) /\ h.size \in Nat
                        /\ h.type \in {"reg", "dir", "symlink", "hardlink"}

VARIABLES
  tar,      \* the headers read so far
  members,  \* the gzip members written: [at, data]
  gz,       \* the open gzip stream: <<>> or <<its bytes>>
  n,        \* countWriter.n
  toc,      \* jtoc.Entries
  footer    \* the TOC's offset, 0 while the Writer is open

archiveVars == <<tar, members, gz, n, toc, footer>>

InitArchive ==
  /\ tar = <<>> /\ members = <<>> /\ gz = <<>> /\ n = 0 /\ toc = <<>> /\ footer = 0

-----------------------------------------------------------------------------
(* Writer.                                                                 *)

Byte(k, b) == [of |-> k, at |-> b]
Zipped(data) == Len(data) + 1
MemberAt(at, data) == [at |-> at, data |-> data]

\* Chunk number c of a file: where it starts in the file, its length, its bytes, and
\* where its member starts if the first one starts at "first".
ChunksOf(size) == (size + ChunkSize - 1) \div ChunkSize
ChunkOffset(c) == (c - 1) * ChunkSize
ChunkLength(c, size) == Min({ChunkSize, size - ChunkOffset(c)})
ChunkBytes(k, c, size) == [b \in 1..ChunkLength(c, size) |-> Byte(k, ChunkOffset(c) + b)]
ChunkAt(first, c) == first + (c - 1) * (ChunkSize + 1)

\* The length of a chunk's member, taken after closeGz and before the next stream.
CompressedBeforeClose(c, size) == ChunkLength(c, size)
CompressedSize(c, size) == ChunkLength(c, size) + 1

\* The TOC entries of a header.  A chunk's entry has no size, and its chunk size only if
\* it is a full one.
EntryOf(h) ==
  [name |-> h.name, type |-> h.type, size |-> IF h.type = "reg" THEN h.size ELSE 0,
   link |-> h.link, offset |-> 0, chunkOffset |-> 0, chunkSize |-> 0, compressed |-> 0]
ChunkEntry(h, first, c) ==
  [EntryOf(h) EXCEPT
     !.type = IF c = 1 THEN h.type ELSE "chunk",
     !.size = IF c = 1 THEN h.size ELSE 0,
     !.offset = ChunkAt(first, c),
     !.chunkOffset = ChunkOffset(c),
     !.chunkSize = IF ChunkLength(c, h.size) = ChunkSize THEN ChunkSize ELSE 0,
     !.compressed = CompressedSize(c, h.size)]

\* One round of AppendTar.  The header goes into the open stream; a file that is not
\* empty closes it, writes its chunks, and opens another one for its padding.
AppendTar(h) ==
  LET k == Len(tar) + 1
      head == (IF gz = <<>> THEN <<>> ELSE gz[1]) \o <<Byte(k, 0)>>
      first == n + Zipped(head)
      chunks == ChunksOf(h.size)
  IN
  /\ footer = 0 /\ k \leq MaxEntries
  /\ tar' = Append(tar, h)
  /\ IF h.type = "reg" /\ h.size > 0
     THEN /\ members' = members \o <<MemberAt(n, head)>> \o
               [c \in 1..chunks |-> MemberAt(ChunkAt(first, c), ChunkBytes(k, c, h.size))]
          /\ n' = ChunkAt(first, chunks) + ChunkLength(chunks, h.size) + 1
          /\ gz' = <<<<Byte(k, -1)>>>>
          /\ toc' = toc \o [c \in 1..chunks |-> ChunkEntry(h, first, c)]
     ELSE /\ gz' = <<head>>
          /\ toc' = Append(toc, EntryOf(h))
          /\ UNCHANGED <<members, n>>
  /\ UNCHANGED footer

\* Writer.Close: the open stream, the TOC in a member of its own, and the footer.
Close ==
  LET rest == IF gz = <<>> THEN <<>> ELSE <<MemberAt(n, gz[1])>>
      at == IF gz = <<>> THEN n ELSE n + Zipped(gz[1])
  IN
  /\ footer = 0
  /\ members' = members \o rest \o <<MemberAt(at, <<Byte(0, 0)>>)>>
  /\ n' = at + 2
  /\ gz' = <<>>
  /\ footer' = at + 1
  /\ UNCHANGED <<tar, toc>>

-----------------------------------------------------------------------------
(* Reader: OpenStargz and initFields.                                      *)

Opened == footer # 0
Size == n + 51
Indices == 1..Len(toc)
Plain == {j \in Indices : toc[j].type # "chunk"}

\* Numbers in their order.
InOrder(S) == [k \in 1..Cardinality(S) |-> CHOOSE x \in S : Cardinality({y \in S : y \leq x}) = k]

Clean(name) ==
  LET kept == {k \in DOMAIN name : name[k] # <<".">>} IN
  [k \in 1..Cardinality(kept) |-> name[InOrder(kept)[k]]]
\* lastPath: a chunk has the name of the entry before it.
NameAt(j) == Clean(toc[Max({k \in Plain : k \leq j})].name)

\* Reader.m holds the last entry of each name.
Names == {NameAt(j) : j \in Plain}
Entry(p) == Max({j \in Plain : NameAt(j) = p})

\* ChunkSize after it is filled in.
LastReg(j) == Max({k \in Indices : k \leq j /\ toc[k].type = "reg"})
ChunkSizeAt(j) ==
  IF toc[j].chunkSize # 0 THEN toc[j].chunkSize
  ELSE IF toc[j].type = "chunk" THEN toc[LastReg(j)].size - toc[j].chunkOffset
  ELSE toc[j].size

\* Reader.chunks: a file with several chunks starts its list anew; one with a single
\* chunk leaves the list of an earlier file of the name as it is.
Starts(p) == {j \in Plain : /\ NameAt(j) = p /\ toc[j].type = "reg"
                            /\ toc[j].chunkSize > 0 /\ toc[j].chunkSize < toc[j].size}
Chunked(p) == Starts(p) # {}
ChunkList(p) ==
  LET start == Max(Starts(p)) IN
  InOrder({start} \cup {j \in Indices \ Plain : j > start /\ NameAt(j) = p})
\* getChunks
Chunks(p) == IF Chunked(p) THEN ChunkList(p) ELSE <<Entry(p)>>

\* nextOffset
NextOffset(j) ==
  LET later == {toc[k].offset : k \in {i \in Indices : i > j /\ toc[i].offset # 0}} IN
  IF later = {} THEN Size ELSE Min(later)

\* The tree: each name is a child of its parent, and directories that no entry names
\* are made.
Parent(p) == SubSeq(p, 1, Len(p) - 1)
Above(p) == {SubSeq(p, 1, k) : k \in 0..(Len(p) - 1)}
Implicit == (UNION {Above(p) : p \in Names}) \ Names
AllNames == Names \cup Implicit
\* initFields fails on a hard link to nothing.
LinksFound == \A j \in Plain : toc[j].type = "hardlink" => Clean(toc[j].link) \in Names
ChildrenOf(d) == {p \in AllNames \ {<<>>} : Parent(p) = d}
-----------------------------------------------------------------------------
(* Reading a file: OpenFile, ReadAt, ChunkEntryForOffset.                  *)

\* Decompressing the archive from "from" up to "to", over the members in between.
Between(from, to) ==
  {k \in 1..Len(members) : members[k].at \geq from /\ members[k].at + Zipped(members[k].data) \leq to}
Unzipped(from, to) ==
  LET ks == InOrder(Between(from, to)) IN FlattenSeq([k \in 1..Len(ks) |-> members[ks[k]].data])
Drop(s, k) == SubSeq(s, k + 1, Len(s))

\* sort.Search finds the least index, or one more than the last.
Search(len, found) == IF found = {} THEN len + 1 ELSE Min(found)

\* The chunk ReadAt starts from: the first one that does not start before the offset, if
\* it starts there, or the one before.  A negative discard is an error, no bytes here.
From(chunks, off) == {k \in 1..Len(chunks) : toc[chunks[k]].chunkOffset \geq off}
StartLater(chunks, off) == Min({Search(Len(chunks), From(chunks, off)), Len(chunks)})
StartChunk(chunks, off) ==
  LET k == Min({Search(Len(chunks), From(chunks, off)), Len(chunks)})
  IN IF toc[chunks[k]].chunkOffset > off THEN k - 1 ELSE k
ReadAt(p, off) ==
  LET chunks == Chunks(p)
      e == chunks[StartChunk(chunks, off)]
      data == Unzipped(toc[e].offset, NextOffset(chunks[Len(chunks)]))
  IN IF off < toc[e].chunkOffset THEN <<>>
     ELSE Drop(data, off - toc[e].chunkOffset)

ChunkEntryForOffset(p, off) ==
  LET chunks == ChunkList(p)
      around == {k \in 1..Len(chunks) :
                   /\ off > toc[chunks[k]].chunkOffset
                   /\ off < toc[chunks[k]].chunkOffset + ChunkSizeAt(chunks[k])}
      k == Search(Len(chunks), From(chunks, off) \cup around)
  IN IF ~Chunked(p) THEN (IF off \geq ChunkSizeAt(Entry(p)) THEN 0 ELSE Entry(p))
     ELSE IF k > Len(chunks) THEN 0 ELSE chunks[k]

\* What WriteBody copies of the archive for a file, and what Extract makes of that: for
\* each chunk a range of the archive, of which it decompresses one member.
Extracted(p) ==
  LET chunks == Chunks(p)
      data(j) == Unzipped(toc[j].offset, toc[j].offset + toc[j].compressed)
      piece(j) == SubSeq(data(j), 1, Min({ChunkSizeAt(j), Len(data(j))}))
  IN FlattenSeq([k \in 1..Len(chunks) |-> piece(chunks[k])])

-----------------------------------------------------------------------------
\* The regular files that Reader.m knows, and the header whose file is served under each
\* name: the last one of the name, but for a name that had a file of several chunks, whose
\* list a later file of one chunk leaves as it is.  The bytes the tar had for it.
Files == {p \in Names : toc[Entry(p)].type = "reg"}
Named(p) == {k \in 1..Len(tar) : Clean(tar[k].name) = p}
Long(p) == {k \in Named(p) : tar[k].type = "reg" /\ tar[k].size > ChunkSize}
Source(p) == Max(IF Long(p) = {} THEN Named(p) ELSE Long(p))
Content(p) == [b \in 1..tar[Source(p)].size |-> Byte(Source(p), b)]

\* What the proxy cuts out of the archive for a file is what the client can decompress
\* to one file of the tar, whole, also if the name occurs several times.
ExtractedIsContent == Opened => \A p \in Files : Extracted(p) = Content(p)

\* Reading a file at any offset yields its bytes from there, over the ends of chunks, and
\* the entry found for an offset is the chunk that has it; there is none past the end.
ReadAtIsContent == Opened => \A p \in Files :
  LET size == tar[Source(p)].size IN
  /\ ChunkEntryForOffset(p, size) = 0
  /\ \A off \in 0..(size - 1) :
       LET e == ChunkEntryForOffset(p, off) IN
       /\ IsPrefix(Drop(Content(p), off), ReadAt(p, off))
       /\ e # 0 /\ toc[e].chunkOffset \leq off /\ off < toc[e].chunkOffset + ChunkSizeAt(e)
=============================================================================
