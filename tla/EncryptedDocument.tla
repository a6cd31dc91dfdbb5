-------------------------- MODULE EncryptedDocument --------------------------
(***************************************************************************)
(* EncryptedDocumentBuilder.encrypt() writes a document, chunk by chunk,   *)
(* to a stream that EncryptedDocumentReader.decrypt() reads, in chunks of  *)
(* its own: a file or a pipe.  The two run in different threads or         *)
(* processes and either may fail.                                          *)
(*                                                                         *)
(* The i-th byte of a document is the number i.  A byte of ciphertext is   *)
(* the triple of the IV, the position in the keystream and the byte that   *)
(* was encrypted; it decrypts under that IV at that position only.  All    *)
(* documents are encrypted under the one secret key of the builder, which  *)
(* the reader has recovered.                                               *)
(***************************************************************************)
EXTENDS Integers, Sequences

CONSTANTS
  Lengths,       \* the lengths of documents
  BUFFER_SIZE,   \* the most that is read at once
  MaxDocuments,  \* bound: documents encrypted in one behaviour
  ShortReads     \* the stream may give a part of the 8 bytes asked for

ASSUME LengthsAssumption == Lengths \subseteq Nat
ASSUME BufferAssumption == BUFFER_SIZE \in Nat \ {0}
ASSUME MaxDocumentsAssumption == MaxDocuments \in Nat
ASSUME ShortReadsAssumption == ShortReads \in BOOLEAN

VARIABLES
  documents,  \* number of documents encrypted, the IV of the current one
  length,     \* length of the current document
  wpc,        \* where encrypt() is
  source,     \* bytes that encrypt() has read of the document
  woffset,    \* encrypt(): offset
  pipe,       \* bytes written and not read yet
  rpc,        \* where decrypt() is
  riv,        \* decrypt(): iv
  roffset,    \* decrypt(): offset
  out,        \* bytes that decrypt() has written
  keystream   \* history: IV and position of every byte encrypted

writerVars == <<wpc, source, woffset, keystream>>
readerVars == <<rpc, riv, roffset, out>>
vars == <<documents, length, wpc, source, woffset, pipe, rpc, riv, roffset,
          out, keystream>>

IV_SIZE == 8

Byte == [iv : Nat, pos : Int, plain : Nat]

\* The IV of the n-th document as it is written.
IvBytes(n) == [i \in 1 .. IV_SIZE |-> [iv |-> n, pos |-> -i, plain |-> 0]]

\* A new byte array.
ZeroIv == [i \in 1 .. IV_SIZE |-> [iv |-> 0, pos |-> -1, plain |-> 0]]

\* What a byte decrypts to under another IV or at another position.
Garbage == 0

Finished == {"idle", "returned", "threw"}

Init ==
  /\ documents = 0 /\ length = 0
  /\ wpc = "idle" /\ source = 0 /\ woffset = 0
  /\ pipe = <<>>
  /\ rpc = "idle" /\ riv = ZeroIv /\ roffset = 0 /\ out = <<>>
  /\ keystream = <<>>

\* A document is encrypted and decrypted: encrypt() draws a random IV,
\* decrypt() begins with an IV of zeros.
NewDocument ==
  /\ wpc \in Finished /\ rpc \in Finished
  /\ documents < MaxDocuments
  /\ documents' = documents + 1
  /\ length' \in Lengths
  /\ wpc' = "encrypt" /\ source' = 0 /\ woffset' = 0
  /\ pipe' = <<>>
  /\ rpc' = "iv" /\ riv' = ZeroIv /\ roffset' = 0 /\ out' = <<>>
  /\ UNCHANGED keystream

-----------------------------------------------------------------------------
(***************************************************************************)
(* EncryptedDocumentBuilder.encrypt().                                     *)
(***************************************************************************)

\* The native: the IV comes before the first chunk, and the bytes of a chunk
\* are encrypted at the positions from offset on.
encryptData(iv, chunk, offset) ==
  (IF offset = 0 THEN IvBytes(iv) ELSE <<>>) \o
  [j \in 1 .. Len(chunk) |->
     [iv |-> iv, pos |-> offset + j - 1, plain |-> chunk[j]]]

Positions(iv, r, offset) == [j \in 1 .. r |-> <<iv, offset + j - 1>>]

\* The next r bytes of the document.
Chunk(r) == [j \in 1 .. r |-> source + j]

\* What source.read(buffer) may return before the end of the document.
Readable == {r \in 1 .. BUFFER_SIZE : r <= length - source}

\* Mutant of Encrypt: the offset is that of the last chunk.
Encrypt_LastChunk ==
  /\ wpc = "encrypt"
  /\ \E r \in Readable :
       /\ source' = source + r
       /\ woffset' = r
       /\ pipe' = pipe \o encryptData(documents, Chunk(r), woffset)
       /\ keystream' = keystream \o Positions(documents, r, woffset)
  /\ UNCHANGED <<documents, length, wpc, readerVars>>

Encrypt ==
  /\ wpc = "encrypt"
  /\ \E r \in Readable :
       /\ source' = source + r
       /\ woffset' = woffset + r
       /\ pipe' = pipe \o encryptData(documents, Chunk(r), woffset)
       /\ keystream' = keystream \o Positions(documents, r, woffset)
  /\ UNCHANGED <<documents, length, wpc, readerVars>>

\* Reading or encrypting the chunk fails, or writing it after n bytes.
EncryptFails ==
  /\ wpc = "encrypt"
  /\ wpc' = "threw"
  /\ \/ UNCHANGED <<pipe, keystream>>
     \/ \E r \in Readable :
          LET written == encryptData(documents, Chunk(r), woffset)
          IN \E n \in 0 .. Len(written) - 1 :
               /\ pipe' = pipe \o SubSeq(written, 1, n)
               /\ keystream' = keystream \o Positions(documents, r, woffset)
  /\ UNCHANGED <<documents, length, source, woffset, readerVars>>

EncryptEnd ==
  /\ wpc = "encrypt" /\ source = length
  /\ wpc' = "returned"
  /\ UNCHANGED <<documents, length, source, woffset, pipe, keystream>>
  /\ UNCHANGED readerVars

-----------------------------------------------------------------------------
(***************************************************************************)
(* EncryptedDocumentReader.decrypt().                                      *)
(***************************************************************************)

\* Mutant: a stream that has nothing to give has ended.
EndOfStream_Empty == pipe = <<>>

\* The application closes the stream when encrypt() is over.
EndOfStream == pipe = <<>> /\ wpc # "encrypt"

\* How many of the n bytes asked for a stream may give: fewer, but not none,
\* if it gives what it has; all but at its end otherwise.
Given(n) ==
  {r \in 1 .. n :
     /\ r <= Len(pipe)
     /\ ShortReads \/ r = n \/ (wpc # "encrypt" /\ r = Len(pipe))}

\* The native.
decryptData(iv, chunk, offset) ==
  [j \in 1 .. Len(chunk) |->
     IF chunk[j].pos = offset + j - 1 /\ iv = IvBytes(chunk[j].iv)
     THEN chunk[j].plain ELSE Garbage]

\* Mutant of ReadIv: an array of the bytes that were read.
ReadIv_Trimmed ==
  /\ rpc = "iv"
  /\ \/ \E r \in Given(IV_SIZE) :
          /\ riv' = SubSeq(pipe, 1, r)
          /\ pipe' = SubSeq(pipe, r + 1, Len(pipe))
     \/ EndOfStream /\ riv' = <<>> /\ UNCHANGED pipe
  /\ rpc' = "decrypt"
  /\ UNCHANGED <<documents, length, writerVars, roffset, out>>

\* source.read(iv, 0, iv.length), whose result is not looked at.
ReadIv ==
  /\ rpc = "iv"
  /\ \/ \E r \in Given(IV_SIZE) :
          /\ riv' = SubSeq(pipe, 1, r) \o SubSeq(ZeroIv, r + 1, IV_SIZE)
          /\ pipe' = SubSeq(pipe, r + 1, Len(pipe))
     \/ EndOfStream /\ UNCHANGED <<riv, pipe>>
  /\ rpc' = "decrypt"
  /\ UNCHANGED <<documents, length, writerVars, roffset, out>>

\* Mutant of Decrypt: the offset counts the chunk that begins with the IV.
Decrypt_CountsIv ==
  /\ rpc = "decrypt"
  /\ \E r \in 1 .. BUFFER_SIZE :
       /\ r <= Len(pipe)
       /\ out' = out \o decryptData(riv, SubSeq(pipe, 1, r), roffset)
       /\ roffset' = roffset + r + (IF roffset = 0 THEN IV_SIZE ELSE 0)
       /\ pipe' = SubSeq(pipe, r + 1, Len(pipe))
  /\ UNCHANGED <<documents, length, writerVars, rpc, riv>>

\* Mutant of Decrypt: a chunk that does not fill the buffer is the last one.
Decrypt_ShortIsLast ==
  /\ rpc = "decrypt"
  /\ \E r \in 1 .. BUFFER_SIZE :
       /\ r <= Len(pipe)
       /\ out' = out \o decryptData(riv, SubSeq(pipe, 1, r), roffset)
       /\ roffset' = roffset + r
       /\ pipe' = SubSeq(pipe, r + 1, Len(pipe))
       /\ rpc' = IF r < BUFFER_SIZE THEN "returned" ELSE "decrypt"
  /\ UNCHANGED <<documents, length, writerVars, riv>>

\* A chunk of any size up to the buffer's.  Java puts the IV before the first
\* chunk and the native takes it off again.
Decrypt ==
  /\ rpc = "decrypt"
  /\ \E r \in 1 .. BUFFER_SIZE :
       /\ r <= Len(pipe)
       /\ out' = out \o decryptData(riv, SubSeq(pipe, 1, r), roffset)
       /\ roffset' = roffset + r
       /\ pipe' = SubSeq(pipe, r + 1, Len(pipe))
  /\ UNCHANGED <<documents, length, writerVars, rpc, riv>>

\* Reading, decrypting or writing fails; of a chunk being written a part may
\* have been.
DecryptFails ==
  /\ rpc \in {"iv", "decrypt"}
  /\ rpc' = "threw"
  /\ \/ UNCHANGED <<pipe, out>>
     \/ /\ rpc = "decrypt"
        /\ \E r \in 1 .. BUFFER_SIZE :
             /\ r <= Len(pipe)
             /\ LET written == decryptData(riv, SubSeq(pipe, 1, r), roffset)
                IN \E n \in 0 .. r - 1 : out' = out \o SubSeq(written, 1, n)
             /\ pipe' = SubSeq(pipe, r + 1, Len(pipe))
  /\ UNCHANGED <<documents, length, writerVars, riv, roffset>>

\* Mutant of DecryptEnd: a stream without a chunk has not ended.
DecryptEnd_NotEmpty ==
  /\ rpc = "decrypt" /\ EndOfStream /\ roffset > 0
  /\ rpc' = "returned"
  /\ UNCHANGED <<documents, length, writerVars, pipe, riv, roffset, out>>

DecryptEnd ==
  /\ rpc = "decrypt" /\ EndOfStream
  /\ rpc' = "returned"
  /\ UNCHANGED <<documents, length, writerVars, pipe, riv, roffset, out>>

-----------------------------------------------------------------------------
Next ==
  \/ NewDocument
  \/ Encrypt \/ EncryptFails \/ EncryptEnd
  \/ ReadIv \/ Decrypt \/ DecryptFails \/ DecryptEnd

Spec == Init /\ [][Next]_vars

\* Both loops keep running while they can.
FairSpec ==
  /\ Spec
  /\ WF_vars(Encrypt \/ EncryptEnd)
  /\ WF_vars(ReadIv \/ Decrypt \/ DecryptEnd)

-----------------------------------------------------------------------------
(***************************************************************************)
(* Properties.                                                             *)
(***************************************************************************)

\* Type correctness; the IV of the reader is an array of 8 bytes.
TypeOK ==
  /\ documents \in 0 .. MaxDocuments /\ length \in Lengths \cup {0}
  /\ wpc \in Finished \cup {"encrypt"}
  /\ source \in Nat /\ woffset \in Nat
  /\ pipe \in Seq(Byte)
  /\ rpc \in Finished \cup {"iv", "decrypt"}
  /\ riv \in [1 .. IV_SIZE -> Byte] /\ roffset \in Nat
  /\ out \in Seq(Nat)
  /\ keystream \in Seq(Nat \X Nat)

\* What decrypt() has written is the beginning of the document at any moment,
\* however the stream cuts it into chunks and wherever either end fails.
PlaintextPrefix ==
  Len(out) <= length /\ \A i \in 1 .. Len(out) : out[i] = i

\* decrypt() that returns, of a document of which encrypt() returned, has
\* written all of it.
RoundTrip ==
  (wpc = "returned" /\ rpc = "returned") => Len(out) = length

\* No byte of any document is encrypted at a position of a keystream that
\* another byte was encrypted at.
KeystreamOnce ==
  \A i, j \in 1 .. Len(keystream) : keystream[i] = keystream[j] => i = j

\* decrypt() ends, of an empty document and after a failure of encrypt() too.
DecryptEnds == (rpc = "iv") ~> (rpc \in Finished)

\* "the first 8 bytes are the IV": whatever decrypt() decrypts, it decrypts
\* under the IV that encrypt() wrote.
IvIsFirstEightBytes == roffset > 0 => riv = IvBytes(documents)
=============================================================================
