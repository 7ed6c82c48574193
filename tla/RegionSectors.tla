---------------------------- MODULE RegionSectors ----------------------------
(***************************************************************************)
(* The sectors of one region file: RegionFile::store in place, as the      *)
(* asynchronous saves of evicted chunks call it, with a crash between any  *)
(* two of its writes, and RegionFile::load.                                *)
(*                                                                         *)
(* A file may be malformed when the server finds it: entries that overlap, *)
(* point outside of the file or into its header, and data that is torn.    *)
(* A sector that holds data holds one part of one version of one chunk.    *)
(***************************************************************************)
EXTENDS Integers, FiniteSetsExt

CONSTANTS Chunks,
          NoData,       \* what load returns when it returns nothing or throws
          MaxSector,    \* the address space; 0x1000000 sectors in the code
          MaxCount,     \* the longest entry; 255 sectors in the code
          MaxStores     \* bound of a run

VARIABLES
    header,     \* the offset and the count of each chunk
    sector,     \* what each sector after the header holds
    size,       \* sectors of the file
    store,      \* the store in progress, or Idle
    expected,   \* what a load of each chunk should return
    stores      \* stores begun, the version of the last

vars == <<header, sector, size, store, expected, stores>>

Part(c, version, i, n) == [chunk |-> c, version |-> version, part |-> i, of |-> n]

RegionConstants ==
    /\ {MaxSector, MaxCount, MaxStores} \subseteq Nat
    /\ NoData \notin Chunks
    /\ \A c \in Chunks, version \in 0 .. MaxStores, i \in 0 .. MaxCount, n \in 0 .. MaxCount :
          Part(c, version, i, n) # NoData

Sectors == 2 .. MaxSector - 1
Idle    == [chunk |-> NoData, off |-> 0, need |-> 0, written |-> 0]

ValidRange(e) == e.off >= 2 /\ e.count # 0 /\ e.off + e.count <= MaxSector
EndOf(e)      == e.off + e.count
Overlap(e, f) == e.off < EndOf(f) /\ f.off < EndOf(e)

\* The first sector tells the length, and the rest must belong to it.
Load(c) ==
    LET e     == header[c]
        first == sector[e.off]
    IN  IF /\ ValidRange(e) /\ EndOf(e) <= size
           /\ first # NoData
           /\ first.part = 0 /\ first.of <= e.count
           /\ \A i \in 0 .. first.of - 1 :
                 sector[e.off + i] = [first EXCEPT !.part = i]
        THEN <<first.chunk, first.version>>
        ELSE <<NoData, 0>>

\* Entries of a file that is found: none, in order, overlapping, in the header.
Found == {[off |-> 0, count |-> 0], [off |-> 1, count |-> 1]}
            \cup [off : {2, 3}, count : {1, 2}]

Claims(c, s) == s \in header[c].off .. EndOf(header[c]) - 1

\* Where several entries claim a sector, it holds the data of any of them.
Init ==
    /\ header \in [Chunks -> Found]
    /\ size \in {4, 5}
    /\ \E owner \in [2 .. 4 -> Chunks \cup {NoData}] :
          /\ \A s \in 2 .. 4 : owner[s] # NoData => s < size /\ Claims(owner[s], s)
          /\ sector = [s \in Sectors |->
                IF s > 4 \/ owner[s] = NoData THEN NoData
                ELSE Part(owner[s], 0, s - header[owner[s]].off, header[owner[s]].count)]
    /\ store = Idle
    /\ stores = 0
    /\ expected = [c \in Chunks |-> Load(c)]

-----------------------------------------------------------------------------
(* store *)

MaxEnd(h) == Max({2} \cup {EndOf(h[c]) : c \in {d \in Chunks : ValidRange(h[d])}})

\* An entry that another one overlaps is not used again.
Alone(c) ==
    /\ ValidRange(header[c])
    /\ \A d \in Chunks \ {c} : ValidRange(header[d]) => ~Overlap(header[c], header[d])

\* Faulty: any entry that is long enough is used again.
NewOffsetOfAnyEntry(c, need) ==
    IF ValidRange(header[c]) /\ need <= header[c].count THEN header[c].off ELSE MaxEnd(header)

NewOffset(c, need) ==
    IF Alone(c) /\ need <= header[c].count THEN header[c].off ELSE MaxEnd(header)

\* The file is extended before anything is written; an address space that is
\* used up throws.
StoreBegins(c, need) ==
    LET off == NewOffset(c, need) IN
    /\ store = Idle
    /\ stores < MaxStores
    /\ off + need <= MaxSector
    /\ stores' = stores + 1
    /\ store' = [chunk |-> c, off |-> off, need |-> need, written |-> 0]
    /\ size' = Max({size, off + need})
    /\ UNCHANGED <<header, sector, expected>>

\* The payload and its padding, in order.
WriteSector ==
    LET s == store IN
    /\ s # Idle /\ s.written < s.need
    /\ sector' = [sector EXCEPT ![s.off + s.written] = Part(s.chunk, stores, s.written, s.need)]
    /\ store' = [s EXCEPT !.written = s.written + 1]
    /\ UNCHANGED <<header, size, expected, stores>>

\* Faulty: the header keeps the count of a longer entry that is used again.
WriteHeaderOffset ==
    /\ store # Idle /\ store.written = store.need
    /\ header' = [header EXCEPT ![store.chunk].off = store.off]
    /\ expected' = [expected EXCEPT ![store.chunk] = <<store.chunk, stores>>]
    /\ store' = Idle
    /\ UNCHANGED <<sector, size, stores>>

\* The header is written last, the other entries as they were.
WriteHeader ==
    /\ store # Idle /\ store.written = store.need
    /\ header' = [header EXCEPT ![store.chunk] = [off |-> store.off, count |-> store.need]]
    /\ expected' = [expected EXCEPT ![store.chunk] = <<store.chunk, stores>>]
    /\ store' = Idle
    /\ UNCHANGED <<sector, size, stores>>

\* The process dies, or a write fails: the chunk is what is left of it.
Interrupted ==
    /\ store # Idle
    /\ expected' = [expected EXCEPT ![store.chunk] = Load(store.chunk)]
    /\ store' = Idle
    /\ UNCHANGED <<header, sector, size, stores>>

Next ==
    \/ \E c \in Chunks, need \in 1 .. MaxCount : StoreBegins(c, need)
    \/ WriteSector \/ WriteHeader \/ Interrupted

Spec == Init /\ [][Next]_vars

-----------------------------------------------------------------------------
\* At every moment of a store, whatever the file was like and whatever crashed
\* before, each other chunk that can be read is read as before, and a store that
\* returned is what is loaded.
ChunksIntact ==
    \A c \in Chunks \ {store.chunk} : expected[c][1] # NoData => Load(c) = expected[c]

\* A store that returned left its chunk an allocation of its own, and a chunk
\* never loads the data of another once it has been stored.
StoredAlone == \A c \in Chunks : (store.chunk # c /\ expected[c][2] > 0) => Alone(c)
=============================================================================
