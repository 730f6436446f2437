------------------------------- MODULE Casync -------------------------------
(***************************************************************************)
(* casync-rs: the chunkers (chunker.rs), the index (index.rs) and the       *)
(* content-addressed chunk store (store.rs), in the order in which a delta  *)
(* update uses them: chunk a file, store what the previous index lacks,     *)
(* put the file together again from the store, verify it, clean up.         *)
(*                                                                         *)
(* A chunk's SHA-256 is taken to be its content: collisions are left out.   *)
(***************************************************************************)
EXTENDS Naturals, Sequences

CONSTANTS
  Bytes,        \* the bytes of a file
  MaxFileLen,   \* bound: the length of a file
  MaxFiles,     \* bound: files stored one after the other
  Gear,         \* GEAR_TABLE: byte -> number
  HashMod,      \* 2^64 in the code: the rolling hash is a u64
  MaskMod,      \* mask + 1: (hash & mask) == 0 is hash % MaskMod = 0
  MinChunk, MaxChunk,   \* min_size and max_size
  FixedChunk            \* size of the fixed strategy

ASSUME CasyncAssumption ==
  /\ MaxFileLen \in Nat
  /\ MinChunk \in Nat /\ MaxChunk \in Nat \ {0} /\ MinChunk <= MaxChunk
  /\ FixedChunk \in Nat \ {0}
  /\ HashMod \in Nat \ {0} /\ MaskMod \in Nat \ {0}
  /\ Gear \in [Bytes -> Nat]

VARIABLES
  casPc,      \* "idle", "gear", "fixed", "store", "rebuilt", "done",
              \* "corrupt", "missing"
  casFiles,   \* files begun so far
  casData,    \* the file
  casPos, casStart, casHash,   \* pos, chunk_start and hash of chunk_gear
  casChunks,  \* the chunks so far, and then the index
  casOld,     \* hashes of the previous index
  casTodo,    \* hashes to be stored
  casStore,   \* hash -> what the file of that name holds
  casOut      \* the file as it was put together

casVars == <<casPc, casFiles, casData, casPos, casStart, casHash, casChunks,
             casOld, casTodo, casStore, casOut>>

CasyncInit ==
  /\ casPc = "idle"
  /\ casFiles = 0
  /\ casData = <<>>
  /\ casPos = 0 /\ casStart = 0 /\ casHash = 0
  /\ casChunks = <<>>
  /\ casOld = {}
  /\ casTodo = {}
  /\ casStore = [h \in {} |-> <<>>]
  /\ casOut = <<>>

SeqExt == INSTANCE SequencesExt

(* Chunk::new: the offset, and the content that is also its hash.           *)
Chunk(from, to) == [offset |-> from, hash |-> SubSeq(casData, from + 1, to)]
Hashes(chunks) == {chunks[i].hash : i \in DOMAIN chunks}

----------------------------------------------------------------------------
(* Chunker::chunk_bytes.                                                   *)

Begin(data, strategy) ==
  /\ casPc \in {"idle", "done", "corrupt"}
  /\ casFiles < MaxFiles
  /\ casFiles' = casFiles + 1
  /\ casData' = data
  /\ casPc' = strategy
  /\ casPos' = 0 /\ casStart' = 0 /\ casHash' = 0
  /\ casChunks' = <<>>
  /\ casOut' = <<>>
  /\ UNCHANGED <<casOld, casTodo, casStore>>

(* Fault: the byte being looked at is not counted.                          *)
ChunkLenShort == casPos - casStart

ChunkLen == casPos + 1 - casStart

(* A boundary of the content, or the forced one.                            *)
Cut(hash) ==
  \/ hash % MaskMod = 0 /\ ChunkLen >= MinChunk
  \/ ChunkLen >= MaxChunk

GearByte ==
  /\ casPc = "gear"
  /\ casPos < Len(casData)
  /\ casPos' = casPos + 1
  /\ LET hash == (casHash * 2 + Gear[casData[casPos + 1]]) % HashMod IN
       IF Cut(hash)
       THEN /\ casChunks' = Append(casChunks, Chunk(casStart, casPos + 1))
            /\ casStart' = casPos + 1
            /\ casHash' = 0
       ELSE casHash' = hash /\ UNCHANGED <<casChunks, casStart>>
  /\ UNCHANGED <<casPc, casFiles, casData, casOld, casTodo, casStore, casOut>>

FixedSlice ==
  /\ casPc = "fixed"
  /\ casPos < Len(casData)
  /\ LET end == IF casPos + FixedChunk < Len(casData)
                THEN casPos + FixedChunk ELSE Len(casData) IN
       /\ casChunks' = Append(casChunks, Chunk(casPos, end))
       /\ casPos' = end
       /\ casStart' = end
  /\ UNCHANGED <<casPc, casFiles, casData, casHash, casOld, casTodo, casStore,
                 casOut>>

(* Fault: the difference the wrong way round.                               *)
DiffSwapped(old, new) == old \ new

(* CaiBxIndex::diff: what a delta update has to fetch.                      *)
Diff(old, new) == new \ old

(* What is left is the last chunk; the index is complete, and the loop's    *)
(* variables end.                                                           *)
Indexed ==
  /\ casPc \in {"gear", "fixed"}
  /\ casPos = Len(casData)
  /\ LET rest == IF casStart < Len(casData)
                 THEN <<Chunk(casStart, Len(casData))>> ELSE <<>> IN
       /\ casChunks' = casChunks \o rest
       /\ casTodo' = Diff(casOld, Hashes(casChunks \o rest))
  /\ casPc' = "store"
  /\ casPos' = 0 /\ casStart' = 0 /\ casHash' = 0
  /\ UNCHANGED <<casFiles, casData, casOld, casStore, casOut>>

----------------------------------------------------------------------------
(* ChunkStore.                                                             *)

Saved(h, content) ==
  [x \in DOMAIN casStore \cup {h} |-> IF x = h THEN content ELSE casStore[x]]

(* A chunk whose file exists is not written again.                          *)
StoreChunk(h) ==
  /\ casPc = "store"
  /\ h \in casTodo
  /\ casTodo' = casTodo \ {h}
  /\ casStore' = IF h \in DOMAIN casStore THEN casStore ELSE Saved(h, h)
  /\ UNCHANGED <<casPc, casFiles, casData, casPos, casStart, casHash,
                 casChunks, casOld, casOut>>

(* The power fails in the middle of fs::write: a shorter file, of any       *)
(* length, has the name.  The update is tried again from the list of        *)
(* missing chunks.                                                          *)
StoreTorn(h) ==
  /\ casPc = "store"
  /\ h \in casTodo
  /\ h \notin DOMAIN casStore
  /\ \E written \in 0 .. Len(h) - 1 :
       casStore' = Saved(h, SubSeq(h, 1, written))
  /\ casTodo' = Diff(casOld, Hashes(casChunks))
  /\ UNCHANGED <<casPc, casFiles, casData, casPos, casStart, casHash,
                 casChunks, casOld, casOut>>

(* reconstruct: the files of all chunks, one after the other, unchecked.    *)
Rebuild ==
  /\ casPc = "store"
  /\ casTodo = {}
  /\ IF Hashes(casChunks) \subseteq DOMAIN casStore
     THEN /\ casOut' = SeqExt!FlattenSeq([i \in DOMAIN casChunks |->
                                            casStore[casChunks[i].hash]])
          /\ casPc' = "rebuilt"
     ELSE casPc' = "missing" /\ UNCHANGED casOut
  /\ UNCHANGED <<casFiles, casData, casPos, casStart, casHash, casChunks,
                 casOld, casTodo, casStore>>

(* The entry's range lies inside the file and has its hash.                 *)
EntryMatches(e) ==
  /\ e.offset + Len(e.hash) <= Len(casOut)
  /\ SubSeq(casOut, e.offset + 1, e.offset + Len(e.hash)) = e.hash

(* CaiBxIndex::verify.  The index of a verified file is the old one next    *)
(* time.                                                                    *)
Verify ==
  /\ casPc = "rebuilt"
  /\ IF \A i \in DOMAIN casChunks : EntryMatches(casChunks[i])
     THEN casPc' = "done" /\ casOld' = Hashes(casChunks)
     ELSE casPc' = "corrupt" /\ UNCHANGED casOld
  /\ UNCHANGED <<casFiles, casData, casPos, casStart, casHash, casChunks,
                 casTodo, casStore, casOut>>

(* cleanup with the hashes of the last index.                               *)
Cleanup ==
  /\ casPc \in {"done", "corrupt"}
  /\ DOMAIN casStore # casOld
  /\ casStore' = [h \in DOMAIN casStore \cap casOld |-> casStore[h]]
  /\ UNCHANGED <<casPc, casFiles, casData, casPos, casStart, casHash,
                 casChunks, casOld, casTodo, casOut>>

----------------------------------------------------------------------------
CasyncNext ==
  \/ \E n \in 0 .. MaxFileLen, strategy \in {"gear", "fixed"} :
       \E data \in [1 .. n -> Bytes] : Begin(data, strategy)
  \/ GearByte \/ FixedSlice \/ Indexed
  \/ \E h \in casTodo : StoreChunk(h) \/ StoreTorn(h)
  \/ Rebuild \/ Verify \/ Cleanup

CasyncSpec == CasyncInit /\ [][CasyncNext]_casVars

----------------------------------------------------------------------------
(* Properties.                                                             *)

(* Where a chunk ends, and the sizes the two strategies promise: only the   *)
(* last chunk may be smaller.                                               *)
End(chunk) == chunk.offset + Len(chunk.hash)
GearSizes ==
  \A i \in DOMAIN casChunks :
    /\ Len(casChunks[i].hash) <= MaxChunk
    /\ i < Len(casChunks) => Len(casChunks[i].hash) >= MinChunk
FixedSizes ==
  \A i \in DOMAIN casChunks :
    /\ Len(casChunks[i].hash) <= FixedChunk
    /\ i < Len(casChunks) => Len(casChunks[i].hash) = FixedChunk

(* The chunks tile the file whatever its content, the wrapping hash and the *)
(* strategy: they follow one another without gap or overlap and end where   *)
(* it ends, none is empty, each holds the bytes of its place, and their     *)
(* sizes are those of one of the strategies.                                *)
ChunksTile ==
  casPc \in {"store", "rebuilt", "done", "corrupt"} =>
    /\ casChunks = <<>> <=> casData = <<>>
    /\ casChunks # <<>> => /\ casChunks[1].offset = 0
                           /\ End(casChunks[Len(casChunks)]) = Len(casData)
    /\ \A i \in 1 .. Len(casChunks) - 1 :
         casChunks[i + 1].offset = End(casChunks[i])
    /\ \A i \in DOMAIN casChunks :
         /\ casChunks[i].hash # <<>>
         /\ casChunks[i].hash =
              SubSeq(casData, casChunks[i].offset + 1, End(casChunks[i]))
    /\ GearSizes \/ FixedSizes

(* A delta update gives the file or says that it does not: with the chunks  *)
(* of the previous index and the difference no chunk is missing, also after *)
(* a clean-up, and a file that was put together from a torn chunk, which    *)
(* deduplication keeps, never passes verification.                          *)
DeltaRebuilds ==
  /\ casPc # "missing"
  /\ casPc = "done" => casOut = casData
=============================================================================
