----------------------------- MODULE ChunkFiles -----------------------------
(***************************************************************************)
(* gb/file/chunk_*: a file of chunks, each a header, the chunk's data, and *)
(* extra data that pointers in the chunk's data refer to by offset.        *)
(*                                                                         *)
(* A program builds ChunkWriters and writes them to a file, which may fail *)
(* after any byte; the file is then read back.  A byte is known by its     *)
(* block, 0 for the chunk's own data; the first byte of a header stands    *)
(* for all of its fields.                                                  *)
(***************************************************************************)
EXTENDS Integers, Sequences, SequencesExt

CONSTANTS
  Word,            (* 8: the alignment of chunks and of extra data.        *)
  MaxChunks,       (* Bound: the chunks of a file.                         *)
  MaxExtra,        (* Bound: the blocks of extra data of a chunk.          *)
  NoFile

VARIABLES
  chunks,          (* The ChunkWriters.                                    *)
  file             (* What WriteChunkFile has written.                     *)

vars == <<chunks, file>>

HeaderSize == 2 * Word
Pad(size)  == (Word - (size % Word)) % Word
Fill(n, byte) == [i \in 1 .. n |-> byte]
Cells(header) ==
  <<<<"header", header.count, header.size>>>> \o Fill(HeaderSize - 1, <<"header">>)

Init == chunks = <<>> /\ file = NoFile

(* The constructor, over memory of its own or of the caller: the size in   *)
(* the header is rounded up, that of the caller's memory is not.           *)
New(count, itemSize, owned) ==
  /\ file = NoFile /\ Len(chunks) < MaxChunks
  /\ LET size == count * itemSize
     IN chunks' = Append(chunks,
          [header |-> [count |-> count, size |-> size + Pad(size)],
           buffer |-> IF owned THEN size + Pad(size) ELSE size,
           extra |-> <<>>, ptrs |-> <<>>])
  /\ UNCHANGED file

(* Mutant: the size of what is added is not rounded up.                    *)
ReserveUnpadded(chunk, size) ==
  [header |-> size, offset |-> chunk.buffer + Len(chunk.extra), pad |-> 0]

(* ReserveExtra: what it adds to the header's size, the offset it returns, *)
(* and the padding behind the data.                                        *)
ReserveExtra(chunk, size) ==
  [header |-> size + Pad(size), offset |-> chunk.buffer + Len(chunk.extra),
   pad |-> Pad(size)]

(* AddData of `size` bytes and AddString: a ChunkPtr.  Nothing is added    *)
(* for no data.                                                            *)
AddData(size) ==
  /\ file = NoFile /\ chunks # <<>> /\ Len(Last(chunks).ptrs) < MaxExtra
  /\ LET chunk == Last(chunks)
         r     == ReserveExtra(chunk, size)
         block == Len(chunk.ptrs) + 1
         added == [chunk EXCEPT
                     !.header.size = @ + r.header,
                     !.extra = @ \o Fill(size, <<"byte", block>>) \o Fill(r.pad, <<"pad">>),
                     !.ptrs = Append(@, [offset |-> r.offset, size |-> size])]
         none  == [chunk EXCEPT !.ptrs = Append(@, [offset |-> 0, size |-> 0])]
     IN chunks' = Append(Front(chunks), IF size = 0 THEN none ELSE added)
  /\ UNCHANGED file

(* Mutant: the caller's memory is written without padding.                 *)
WriteUnpadded(chunk) == Cells(chunk.header) \o Fill(chunk.buffer, <<"byte", 0>>) \o chunk.extra

(* ChunkWriter::Write: the file a whole chunk makes.                       *)
WriteChunk(chunk) ==
  Cells(chunk.header) \o Fill(chunk.buffer, <<"byte", 0>>) \o Fill(Pad(chunk.buffer), <<"pad">>)
  \o chunk.extra

Encode(n) ==
  Cells([count |-> 0, size |-> 0])
  \o FoldLeft(LAMBDA bytes, c : bytes \o WriteChunk(c), <<>>, SubSeq(chunks, 1, n))

(* WriteChunkFile: it ends when a write is not complete.                   *)
WriteChunkFile ==
  /\ file = NoFile
  /\ \E n \in 0 .. Len(Encode(Len(chunks))) : file' = SubSeq(Encode(Len(chunks)), 1, n)
  /\ UNCHANGED chunks

(* Mutant: the end of the file is not told from a header that is cut.      *)
EndsAtAnyHeader(bytes, at) == Len(bytes) - at < HeaderSize

(* Whether ChunkReader::Read finds the end of the file, which is no error. *)
AtEnd(bytes, at) == at = Len(bytes)

(* ChunkReader::Read at `at`: an error, or the chunk and its data.         *)
ReadChunk(bytes, at) ==
  LET header == [count |-> bytes[at + 1][2], size |-> bytes[at + 1][3]]
      cut    == Len(bytes) - at < HeaderSize
  IN CASE cut -> [error |-> TRUE]
       [] \/ header.size % Word # 0 \/ header.count > header.size
          \/ at + HeaderSize + header.size > Len(bytes) -> [error |-> TRUE]
       [] OTHER -> [error |-> FALSE, count |-> header.count,
                    data |-> SubSeq(bytes, at + HeaderSize + 1, at + HeaderSize + header.size)]

(* ReadChunkFile                                                           *)
ReadChunkFile(bytes) ==
  LET read[at \in 0 .. Len(bytes)] ==
        IF AtEnd(bytes, at) THEN [ok |-> TRUE, chunks |-> <<>>]
        ELSE LET chunk == ReadChunk(bytes, at)
                 rest  == read[at + HeaderSize + Len(chunk.data)]
             IN IF chunk.error THEN [ok |-> FALSE, chunks |-> <<>>]
                ELSE [ok |-> rest.ok, chunks |-> <<chunk>> \o rest.chunks]
  IN IF Len(bytes) < HeaderSize THEN [ok |-> FALSE, chunks |-> <<>>]
     ELSE read[HeaderSize]

(* ConvertToPtr: the words of the data from the pointer on.                *)
ConvertToPtr(data, offset) ==
  IF offset = 0 THEN <<>> ELSE SubSeq(data, (offset \div Word) * Word + 1, Len(data))

(* Headers are read as records: a program writes what the reader expects,  *)
(* a chunk of no more entries than bytes.                                  *)
Next ==
  \/ \E count \in 1 .. 2, itemSize \in {1, Word + 1}, owned \in BOOLEAN :
       New(count, itemSize, owned)
  \/ \E size \in {0, 1, Word + 1} : AddData(size)
  \/ WriteChunkFile

Spec == Init /\ [][Next]_vars

(***************************************************************************)
(* A file that was written is read back as it was: its chunks, and behind  *)
(* every pointer the data that was added.  In a chunk over memory of the   *)
(* caller whose size is no multiple of 8 the pointer is one word short:    *)
(* behind it there is the last word of that memory, and then the data.  Of *)
(* a file that was cut the reader reports an error, or it was cut between  *)
(* two chunks and the chunks before it are read.                           *)
(***************************************************************************)
Short(chunk) == IF chunk.buffer % Word = 0 THEN 0 ELSE Word

SameChunk(read, chunk) ==
  /\ read.count = chunk.header.count
  /\ Len(read.data) = chunk.header.size
  /\ \A i \in DOMAIN chunk.ptrs :
       LET found == ConvertToPtr(read.data, chunk.ptrs[i].offset)
           size  == chunk.ptrs[i].size
       IN SubSeq(found, Short(chunk) + 1, Short(chunk) + size) = Fill(size, <<"byte", i>>)

ChunksReadBack ==
  file # NoFile =>
    LET read == ReadChunkFile(file)
        n    == Len(read.chunks)
    IN /\ read.ok <=> \E k \in 0 .. Len(chunks) : file = Encode(k)
       /\ read.ok => /\ file = Encode(n)
                     /\ \A i \in 1 .. n : SameChunk(read.chunks[i], chunks[i])
=============================================================================
