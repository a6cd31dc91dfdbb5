---------------------- MODULE EncryptedDocumentProofs ----------------------
(***************************************************************************)
(* Theorems about EncryptedDocument for all lengths of documents, every    *)
(* size of the buffer, any number of documents, any stream and every       *)
(* failure of either side: no byte is encrypted under a pair of IV and     *)
(* offset that was used before, decrypt() inverts encrypt(), and together  *)
(* they implement DocumentTransfer.                                        *)
(***************************************************************************)
EXTENDS MCEncryptedDocument, SequenceTheorems, TLAPS

-----------------------------------------------------------------------------
(***************************************************************************)
(* What the operators of EncryptedDocument return.                         *)
(***************************************************************************)

\* An IV is written as eight bytes.
LEMMA IvBytesType ==
  ASSUME NEW n \in Nat
  PROVE  IvBytes(n) \in Seq(Byte) /\ Len(IvBytes(n)) = IV_SIZE
<1>1. \A i \in 1 .. 8 : [iv |-> n, pos |-> -i, plain |-> 0] \in Byte
  BY DEF Byte
<1>. QED
  BY <1>1 DEF IvBytes, IV_SIZE

\* A new array has eight bytes.
LEMMA ZeroIvType ==
  /\ ZeroIv \in Seq(Byte) /\ Len(ZeroIv) = IV_SIZE
  /\ ZeroIv \in [1 .. IV_SIZE -> Byte]
<1>1. [iv |-> 0, pos |-> -1, plain |-> 0] \in Byte
  BY DEF Byte
<1>. QED
  BY <1>1 DEF ZeroIv, IV_SIZE

\* A chunk of r bytes of the document.
LEMMA ChunkType ==
  ASSUME NEW r \in Nat, source \in Nat
  PROVE  /\ Chunk(r) \in Seq(Nat)
         /\ Len(Chunk(r)) = r
         /\ \A j \in 1 .. r : Chunk(r)[j] = source + j
BY DEF Chunk

\* The native makes a sequence of bytes.
LEMMA EncryptDataType ==
  ASSUME NEW n \in Nat, NEW chunk \in Seq(Nat), NEW offset \in Nat
  PROVE  encryptData(n, chunk, offset) \in Seq(Byte)
<1> DEFINE body == [j \in 1 .. Len(chunk) |->
                      [iv |-> n, pos |-> offset + j - 1, plain |-> chunk[j]]]
<1>1. \A j \in 1 .. Len(chunk) : body[j] \in Byte
  BY DEF Byte
<1>2. body \in Seq(Byte)
  BY <1>1
<1>3. (IF offset = 0 THEN IvBytes(n) ELSE <<>>) \in Seq(Byte)
  BY IvBytesType
<1>. QED
  BY <1>2, <1>3, ConcatProperties DEF encryptData

\* The positions of a chunk are r pairs.
LEMMA PositionsType ==
  ASSUME NEW n \in Nat, NEW r \in Nat, NEW offset \in Nat
  PROVE  /\ Positions(n, r, offset) \in Seq(Nat \X Nat)
         /\ Len(Positions(n, r, offset)) = r
         /\ \A j \in 1 .. r :
              Positions(n, r, offset)[j] = <<n, offset + j - 1>>
<1>1. \A j \in 1 .. r : offset + j - 1 \in Nat
  OBVIOUS
<1>. QED
  BY <1>1 DEF Positions

\* The native decrypts as many bytes as there are.
LEMMA DecryptDataType ==
  ASSUME NEW iv, NEW chunk \in Seq(Byte), NEW offset
  PROVE  /\ decryptData(iv, chunk, offset) \in Seq(Nat)
         /\ Len(decryptData(iv, chunk, offset)) = Len(chunk)
<1>1. \A j \in 1 .. Len(chunk) : chunk[j].plain \in Nat
  <2> SUFFICES ASSUME NEW j \in 1 .. Len(chunk)
               PROVE  chunk[j].plain \in Nat
    OBVIOUS
  <2>1. chunk[j] \in Byte
    BY ElementOfSeq
  <2>. QED
    BY <2>1 DEF Byte
<1>. QED
  BY <1>1 DEF decryptData, Garbage

\* The beginning of an array that is read from the pipe fills it.
LEMMA FilledIvType ==
  ASSUME NEW p \in Seq(Byte), NEW r \in 1 .. IV_SIZE, r <= Len(p)
  PROVE  SubSeq(p, 1, r) \o SubSeq(ZeroIv, r + 1, IV_SIZE)
           \in [1 .. IV_SIZE -> Byte]
<1>1. SubSeq(p, 1, r) \in Seq(Byte) /\ Len(SubSeq(p, 1, r)) = r
  BY SubSeqProperties
<1>2. /\ SubSeq(ZeroIv, r + 1, IV_SIZE) \in Seq(Byte)
      /\ Len(SubSeq(ZeroIv, r + 1, IV_SIZE)) = IV_SIZE - r
  BY ZeroIvType, SubSeqProperties DEF IV_SIZE
<1> DEFINE c == SubSeq(p, 1, r) \o SubSeq(ZeroIv, r + 1, IV_SIZE)
<1>3. c \in Seq(Byte) /\ Len(c) = IV_SIZE
  BY <1>1, <1>2, ConcatProperties DEF IV_SIZE
<1>. HIDE DEF c
<1>4. c \in [1 .. IV_SIZE -> Byte]
  BY <1>3
<1>. QED
  BY <1>4 DEF c

\* What is left of the pipe.
LEMMA RestType ==
  ASSUME NEW p \in Seq(Byte), NEW r \in Nat, r <= Len(p)
  PROVE  /\ SubSeq(p, r + 1, Len(p)) \in Seq(Byte)
         /\ Len(SubSeq(p, r + 1, Len(p))) = Len(p) - r
         /\ \A i \in 1 .. Len(p) - r : SubSeq(p, r + 1, Len(p))[i] = p[r + i]
<1>. QED
  BY SubSeqProperties

\* The first bytes of the pipe.
LEMMA FirstType ==
  ASSUME NEW p \in Seq(Byte), NEW r \in Nat, r <= Len(p)
  PROVE  /\ SubSeq(p, 1, r) \in Seq(Byte)
         /\ Len(SubSeq(p, 1, r)) = r
         /\ \A i \in 1 .. r : SubSeq(p, 1, r)[i] = p[i]
<1>. QED
  BY SubSeqProperties

-----------------------------------------------------------------------------
\* Type correctness of every behaviour.
THEOREM DocumentTypeCorrect == Spec => []TypeOK
<1>1. Init => TypeOK
  BY MaxDocumentsAssumption, ZeroIvType DEF Init, TypeOK, Finished
<1>2. TypeOK /\ [Next]_vars => TypeOK'
  <2> SUFFICES ASSUME TypeOK, [Next]_vars
               PROVE  TypeOK'
    OBVIOUS
  <2>. USE LengthsAssumption, BufferAssumption, MaxDocumentsAssumption
  <2>a. documents \in Nat
    BY DEF TypeOK
  <2>1. CASE NewDocument
    BY <2>1, ZeroIvType DEF TypeOK, NewDocument, Finished
  <2>2. CASE Encrypt
    <3>1. PICK r \in Readable :
            /\ source' = source + r
            /\ woffset' = woffset + r
            /\ pipe' = pipe \o encryptData(documents, Chunk(r), woffset)
            /\ keystream' = keystream \o Positions(documents, r, woffset)
      BY <2>2 DEF Encrypt
    <3>2. r \in Nat
      BY DEF Readable
    <3>3. encryptData(documents, Chunk(r), woffset) \in Seq(Byte)
      BY <2>a, <3>2, ChunkType, EncryptDataType DEF TypeOK
    <3>4. Positions(documents, r, woffset) \in Seq(Nat \X Nat)
      BY <2>a, <3>2, PositionsType DEF TypeOK
    <3>5. pipe' \in Seq(Byte)
      BY <3>1, <3>3, ConcatProperties DEF TypeOK
    <3>6. keystream' \in Seq(Nat \X Nat)
      BY <3>1, <3>4, ConcatProperties DEF TypeOK
    <3>7. source' \in Nat /\ woffset' \in Nat
      BY <3>1, <3>2 DEF TypeOK
    <3>. QED
      BY <2>2, <3>5, <3>6, <3>7 DEF TypeOK, Encrypt, readerVars
  <2>3. CASE EncryptFails
    <3>1. pipe' \in Seq(Byte) /\ keystream' \in Seq(Nat \X Nat)
      <4>1. CASE UNCHANGED <<pipe, keystream>>
        BY <4>1 DEF TypeOK
      <4>2. CASE \E r \in Readable :
                   LET written == encryptData(documents, Chunk(r), woffset)
                   IN \E n \in 0 .. Len(written) - 1 :
                        /\ pipe' = pipe \o SubSeq(written, 1, n)
                        /\ keystream' = keystream
                                          \o Positions(documents, r, woffset)
        <5>0. PICK r \in Readable :
                \E n \in 0 .. Len(encryptData(documents, Chunk(r), woffset)) - 1 :
                  /\ pipe' = pipe \o
                       SubSeq(encryptData(documents, Chunk(r), woffset), 1, n)
                  /\ keystream' = keystream \o Positions(documents, r, woffset)
          BY <4>2
        <5>1. PICK n \in 0 .. Len(encryptData(documents, Chunk(r), woffset)) - 1 :
                /\ pipe' = pipe \o
                     SubSeq(encryptData(documents, Chunk(r), woffset), 1, n)
                /\ keystream' = keystream \o Positions(documents, r, woffset)
          BY <5>0
        <5>2. r \in Nat
          BY DEF Readable
        <5>3. encryptData(documents, Chunk(r), woffset) \in Seq(Byte)
          BY <2>a, <5>2, ChunkType, EncryptDataType DEF TypeOK
        <5>4. Positions(documents, r, woffset) \in Seq(Nat \X Nat)
          BY <2>a, <5>2, PositionsType DEF TypeOK
        <5>5. SubSeq(encryptData(documents, Chunk(r), woffset), 1, n)
                \in Seq(Byte)
          BY <5>3, FirstType, LenProperties
        <5>6. pipe' \in Seq(Byte)
          BY <5>1, <5>5, ConcatProperties DEF TypeOK
        <5>7. keystream' \in Seq(Nat \X Nat)
          BY <5>1, <5>4, ConcatProperties DEF TypeOK
        <5>. QED
          BY <5>6, <5>7
      <4>. QED
        BY <2>3, <4>1, <4>2 DEF EncryptFails
    <3>. QED
      BY <2>3, <3>1 DEF TypeOK, EncryptFails, Finished, readerVars
  <2>4. CASE EncryptEnd
    BY <2>4 DEF TypeOK, EncryptEnd, Finished, readerVars
  <2>5. CASE ReadIv
    <3>1. riv' \in [1 .. IV_SIZE -> Byte] /\ pipe' \in Seq(Byte)
      <4>1. CASE \E r \in Given(IV_SIZE) :
                   /\ riv' = SubSeq(pipe, 1, r)
                               \o SubSeq(ZeroIv, r + 1, IV_SIZE)
                   /\ pipe' = SubSeq(pipe, r + 1, Len(pipe))
        <5>1. PICK r \in Given(IV_SIZE) :
                /\ riv' = SubSeq(pipe, 1, r)
                            \o SubSeq(ZeroIv, r + 1, IV_SIZE)
                /\ pipe' = SubSeq(pipe, r + 1, Len(pipe))
          BY <4>1
        <5>2. r \in 1 .. IV_SIZE /\ r \in Nat /\ r <= Len(pipe)
          BY DEF Given, IV_SIZE
        <5>3. pipe \in Seq(Byte)
          BY DEF TypeOK
        <5>4. riv' \in [1 .. IV_SIZE -> Byte]
          BY <5>1, <5>2, <5>3, FilledIvType
        <5>5. pipe' \in Seq(Byte)
          BY <5>1, <5>2, <5>3, RestType
        <5>. QED
          BY <5>4, <5>5
      <4>2. CASE UNCHANGED <<riv, pipe>>
        BY <4>2 DEF TypeOK
      <4>. QED
        BY <2>5, <4>1, <4>2 DEF ReadIv
    <3>. QED
      BY <2>5, <3>1 DEF TypeOK, ReadIv, Finished, writerVars
  <2>6. CASE Decrypt
    <3>1. PICK r \in 1 .. BUFFER_SIZE :
            /\ r <= Len(pipe)
            /\ out' = out \o decryptData(riv, SubSeq(pipe, 1, r), roffset)
            /\ roffset' = roffset + r
            /\ pipe' = SubSeq(pipe, r + 1, Len(pipe))
      BY <2>6 DEF Decrypt
    <3>2. SubSeq(pipe, 1, r) \in Seq(Byte) /\ pipe' \in Seq(Byte)
      BY <3>1, FirstType, RestType DEF TypeOK
    <3>3. out' \in Seq(Nat)
      BY <3>1, <3>2, DecryptDataType, ConcatProperties DEF TypeOK
    <3>4. roffset' \in Nat
      BY <3>1 DEF TypeOK
    <3>. QED
      BY <2>6, <3>2, <3>3, <3>4 DEF TypeOK, Decrypt, writerVars
  <2>7. CASE DecryptFails
    <3>1. out' \in Seq(Nat) /\ pipe' \in Seq(Byte)
      <4>1. CASE UNCHANGED <<pipe, out>>
        BY <4>1 DEF TypeOK
      <4>2. CASE \E r \in 1 .. BUFFER_SIZE :
             /\ r <= Len(pipe)
             /\ LET written == decryptData(riv, SubSeq(pipe, 1, r), roffset)
                IN \E n \in 0 .. r - 1 : out' = out \o SubSeq(written, 1, n)
             /\ pipe' = SubSeq(pipe, r + 1, Len(pipe))
        <5>0. PICK r \in 1 .. BUFFER_SIZE :
                /\ r <= Len(pipe)
                /\ \E n \in 0 .. r - 1 : out' = out \o
                     SubSeq(decryptData(riv, SubSeq(pipe, 1, r), roffset), 1, n)
                /\ pipe' = SubSeq(pipe, r + 1, Len(pipe))
          BY <4>2
        <5>1. PICK n \in 0 .. r - 1 :
                /\ r <= Len(pipe)
                /\ out' = out \o
                     SubSeq(decryptData(riv, SubSeq(pipe, 1, r), roffset), 1, n)
                /\ pipe' = SubSeq(pipe, r + 1, Len(pipe))
          BY <5>0
        <5> DEFINE written == decryptData(riv, SubSeq(pipe, 1, r), roffset)
        <5>2. /\ SubSeq(pipe, 1, r) \in Seq(Byte) /\ Len(SubSeq(pipe, 1, r)) = r
              /\ pipe' \in Seq(Byte)
          BY <5>1, FirstType, RestType DEF TypeOK
        <5>3. written \in Seq(Nat) /\ Len(written) = r
          BY <5>2, DecryptDataType
        <5>. HIDE DEF written
        <5>4. SubSeq(written, 1, n) \in Seq(Nat)
          BY <5>3, SubSeqProperties
        <5>5. out' \in Seq(Nat)
          BY <5>1, <5>4, ConcatProperties DEF TypeOK, written
        <5>. QED
          BY <5>2, <5>5
      <4>. QED
        BY <2>7, <4>1, <4>2 DEF DecryptFails
    <3>. QED
      BY <2>7, <3>1 DEF TypeOK, DecryptFails, Finished, writerVars
  <2>8. CASE DecryptEnd
    BY <2>8 DEF TypeOK, DecryptEnd, Finished, writerVars
  <2>9. CASE UNCHANGED vars
    BY <2>9 DEF TypeOK, vars
  <2>. QED
    BY <2>1, <2>2, <2>3, <2>4, <2>5, <2>6, <2>7, <2>8, <2>9 DEF Next
<1>. QED
  BY <1>1, <1>2, PTL DEF Spec

-----------------------------------------------------------------------------
(***************************************************************************)
(* Every byte has a place of its own in the keystream.                     *)
(***************************************************************************)

\* No IV is beyond the current one, the positions taken under that one are
\* below the offset, and none is taken twice.
TakenBelow(k, d, w) ==
  /\ \A i \in 1 .. Len(k) : k[i][1] <= d
  /\ \A i \in 1 .. Len(k) : k[i][1] = d => k[i][2] < w

Distinct(k) == \A i, j \in 1 .. Len(k) : k[i] = k[j] => i = j

KeystreamInv ==
  /\ TypeOK
  /\ \A i \in 1 .. Len(keystream) : keystream[i][1] <= documents
  /\ wpc = "encrypt" => TakenBelow(keystream, documents, woffset)
  /\ Distinct(keystream)

\* The positions of a chunk are new, and below the offset that follows.
LEMMA FreshPositions ==
  ASSUME NEW k \in Seq(Nat \X Nat), NEW d \in Nat, NEW r \in Nat, NEW w \in Nat,
         TakenBelow(k, d, w), Distinct(k)
  PROVE  /\ TakenBelow(k \o Positions(d, r, w), d, w + r)
         /\ Distinct(k \o Positions(d, r, w))
<1> DEFINE p == Positions(d, r, w)
           n == k \o p
<1>1. /\ p \in Seq(Nat \X Nat) /\ Len(p) = r
      /\ \A j \in 1 .. r : p[j] = <<d, w + j - 1>>
  BY PositionsType
<1>. HIDE DEF p
<1>2. /\ Len(n) = Len(k) + r
      /\ \A i \in 1 .. Len(n) :
           n[i] = IF i <= Len(k) THEN k[i] ELSE p[i - Len(k)]
  <2>1. /\ Len(n) = Len(k) + Len(p)
        /\ \A i \in 1 .. Len(k) + Len(p) :
             n[i] = IF i <= Len(k) THEN k[i] ELSE p[i - Len(k)]
    BY ONLY <1>1, k \in Seq(Nat \X Nat), ConcatProperties
  <2>. HIDE DEF n
  <2>. QED
    BY <1>1, <2>1
<1>3. Len(k) \in Nat
  BY LenProperties
<1>. HIDE DEF n
<1>4. \A i \in 1 .. Len(k) : i \in 1 .. Len(n) /\ n[i] = k[i]
  BY <1>2, <1>3
<1>5. \A i \in 1 .. Len(n) : i > Len(k) => n[i] = <<d, w + (i - Len(k)) - 1>>
  <2> SUFFICES ASSUME NEW i \in 1 .. Len(n), i > Len(k)
               PROVE  n[i] = <<d, w + (i - Len(k)) - 1>>
    OBVIOUS
  <2>1. i - Len(k) \in 1 .. r /\ ~(i <= Len(k))
    BY <1>2, <1>3
  <2>. QED
    BY <2>1, <1>1, <1>2
<1>6. \A i \in 1 .. Len(k) : k[i] \in Nat \X Nat
  BY ElementOfSeq
<1>7. \A i \in 1 .. Len(n) : n[i][1] <= d /\ (n[i][1] = d => n[i][2] < w + r)
  <2> SUFFICES ASSUME NEW i \in 1 .. Len(n)
               PROVE  n[i][1] <= d /\ (n[i][1] = d => n[i][2] < w + r)
    OBVIOUS
  <2>1. CASE i <= Len(k)
    <3>1. i \in 1 .. Len(k) /\ n[i] = k[i]
      BY <2>1, <1>2, <1>3
    <3>2. k[i][1] <= d /\ (k[i][1] = d => k[i][2] < w)
      BY <3>1 DEF TakenBelow
    <3>3. k[i][2] \in Nat
      BY <3>1, <1>6
    <3>4. ASSUME NEW x \in Nat, x < w PROVE x < w + r
      BY <3>4
    <3>. QED
      BY <3>1, <3>2, <3>3, <3>4
  <2>2. CASE i > Len(k)
    <3>1. n[i] = <<d, w + (i - Len(k)) - 1>>
      BY <2>2, <1>5
    <3>2. w + (i - Len(k)) - 1 < w + r
      BY <1>2, <1>3
    <3>. QED
      BY <3>1, <3>2
  <2>. QED
    BY <2>1, <2>2, <1>3
<1>8. \A i, j \in 1 .. Len(n) : i <= Len(k) /\ j > Len(k) => n[i] # n[j]
  <2> SUFFICES ASSUME NEW i \in 1 .. Len(n), NEW j \in 1 .. Len(n),
                      i <= Len(k), j > Len(k), n[i] = n[j]
               PROVE  FALSE
    OBVIOUS
  <2>1. i \in 1 .. Len(k) /\ n[i] = k[i]
    BY <1>2, <1>3
  <2>2. k[i] = <<d, w + (j - Len(k)) - 1>>
    BY <2>1, <1>5
  <2>3. k[i][1] = d /\ k[i][2] = w + (j - Len(k)) - 1
    BY <2>2
  <2>4. k[i][2] < w
    BY <2>1, <2>3 DEF TakenBelow
  <2>. QED
    BY <2>3, <2>4, <1>3
<1>9. \A i, j \in 1 .. Len(n) : n[i] = n[j] => i = j
  <2> SUFFICES ASSUME NEW i \in 1 .. Len(n), NEW j \in 1 .. Len(n), n[i] = n[j]
               PROVE  i = j
    OBVIOUS
  <2>1. CASE i <= Len(k) /\ j <= Len(k)
    <3>1. i \in 1 .. Len(k) /\ j \in 1 .. Len(k)
      BY <2>1, <1>3
    <3>. QED
      BY <3>1, <1>4 DEF Distinct
  <2>2. CASE i > Len(k) /\ j > Len(k)
    <3>1. <<d, w + (i - Len(k)) - 1>> = <<d, w + (j - Len(k)) - 1>>
      BY <2>2, <1>5
    <3>2. w + (i - Len(k)) - 1 = w + (j - Len(k)) - 1
      BY <3>1
    <3>. QED
      BY <3>2, <1>3
  <2>3. ~(i <= Len(k) /\ j > Len(k)) /\ ~(j <= Len(k) /\ i > Len(k))
    BY <1>8
  <2>4. (i <= Len(k) \/ i > Len(k)) /\ (j <= Len(k) \/ j > Len(k))
    BY <1>3
  <2>. QED
    BY <2>1, <2>2, <2>3, <2>4, Zenon
<1>. QED
  BY <1>7, <1>9 DEF TakenBelow, Distinct, n, p

\* "What is encrypted is encrypted with a byte of keystream of its own":
\* KeystreamOnce holds of every behaviour.
THEOREM DocumentKeystreamOnce == Spec => []KeystreamOnce
<1>1. Init => KeystreamInv
  <2>1. Init => TypeOK
    BY MaxDocumentsAssumption, ZeroIvType DEF Init, TypeOK, Finished
  <2>. QED
    BY <2>1 DEF Init, KeystreamInv, Distinct, TakenBelow
<1>2. KeystreamInv /\ TypeOK' /\ [Next]_vars => KeystreamInv'
  <2> SUFFICES ASSUME KeystreamInv, TypeOK', [Next]_vars
               PROVE  KeystreamInv'
    OBVIOUS
  <2>a. documents \in Nat /\ woffset \in Nat /\ keystream \in Seq(Nat \X Nat)
    BY MaxDocumentsAssumption DEF KeystreamInv, TypeOK
  <2>b. ASSUME NEW r \in Nat, wpc = "encrypt", documents' = documents,
               keystream' = keystream \o Positions(documents, r, woffset),
               wpc' = "encrypt" => woffset' = woffset + r
        PROVE  KeystreamInv'
    <3>1. /\ TakenBelow(keystream', documents', woffset + r)
          /\ Distinct(keystream')
      BY <2>a, <2>b, FreshPositions DEF KeystreamInv
    <3>2. \A i \in 1 .. Len(keystream') : keystream'[i][1] <= documents'
      BY <3>1 DEF TakenBelow
    <3>3. wpc' = "encrypt" => TakenBelow(keystream', documents', woffset')
      BY <3>1, <2>b
    <3>. QED
      BY <3>1, <3>2, <3>3 DEF KeystreamInv, Distinct, TakenBelow
  <2>c. ASSUME UNCHANGED <<documents, keystream>>,
               wpc' = "encrypt" => wpc = "encrypt" /\ woffset' = woffset
        PROVE  KeystreamInv'
    <3>1. \A i \in 1 .. Len(keystream') : keystream'[i][1] <= documents'
      BY <2>c DEF KeystreamInv
    <3>2. wpc' = "encrypt" => TakenBelow(keystream', documents', woffset')
      <4> SUFFICES ASSUME wpc' = "encrypt"
                   PROVE  TakenBelow(keystream', documents', woffset')
        OBVIOUS
      <4>1. woffset' = woffset /\ TakenBelow(keystream, documents, woffset)
        BY <2>c DEF KeystreamInv
      <4>. QED
        BY <2>c, <4>1
    <3>3. Distinct(keystream')
      BY <2>c DEF KeystreamInv
    <3>. QED
      BY <3>1, <3>2, <3>3 DEF KeystreamInv, Distinct, TakenBelow
  <2>1. CASE NewDocument
    <3>1. documents' = documents + 1 /\ keystream' = keystream
      BY <2>1 DEF NewDocument
    <3>2. \A i \in 1 .. Len(keystream) :
             /\ keystream[i][1] <= documents + 1
             /\ keystream[i][1] # documents + 1
      <4> SUFFICES ASSUME NEW i \in 1 .. Len(keystream)
                   PROVE  /\ keystream[i][1] <= documents + 1
                          /\ keystream[i][1] # documents + 1
        OBVIOUS
      <4>1. keystream[i] \in Nat \X Nat
        BY <2>a, ElementOfSeq
      <4>2. keystream[i][1] \in Nat
        BY <4>1
      <4>3. keystream[i][1] <= documents
        BY DEF KeystreamInv
      <4>. QED
        BY <4>2, <4>3, <2>a
    <3>. QED
      BY <3>1, <3>2 DEF KeystreamInv, Distinct, TakenBelow
  <2>2. CASE Encrypt
    <3>1. PICK r \in Readable :
            /\ woffset' = woffset + r
            /\ keystream' = keystream \o Positions(documents, r, woffset)
      BY <2>2 DEF Encrypt
    <3>2. r \in Nat
      BY DEF Readable
    <3>3. wpc = "encrypt" /\ documents' = documents
      BY <2>2 DEF Encrypt
    <3>. QED
      BY <3>1, <3>2, <3>3, <2>b
  <2>3. CASE EncryptFails
    <3>1. CASE UNCHANGED <<pipe, keystream>>
      BY <2>3, <3>1, <2>c DEF EncryptFails
    <3>2. CASE \E r \in Readable :
                 keystream' = keystream \o Positions(documents, r, woffset)
      BY <2>3, <3>2, <2>b DEF EncryptFails, Readable
    <3>. QED
      BY <2>3, <3>1, <3>2 DEF EncryptFails
  <2>4. CASE EncryptEnd
    BY <2>4, <2>c DEF EncryptEnd
  <2>5. CASE ReadIv \/ Decrypt \/ DecryptFails \/ DecryptEnd
    BY <2>5, <2>c DEF ReadIv, Decrypt, DecryptFails, DecryptEnd, writerVars
  <2>6. CASE UNCHANGED vars
    BY <2>6, <2>c DEF vars
  <2>. QED
    BY <2>1, <2>2, <2>3, <2>4, <2>5, <2>6 DEF Next
<1>3. KeystreamInv => KeystreamOnce
  BY DEF KeystreamInv, KeystreamOnce, Distinct
<1>. QED
  BY <1>1, <1>2, <1>3, DocumentTypeCorrect, PTL DEF Spec

-----------------------------------------------------------------------------
(***************************************************************************)
(* The invariant.                                                          *)
(***************************************************************************)

\* The i-th byte of an encrypted document, counting the IV.
CipherByte(d, i) ==
  IF i <= IV_SIZE
  THEN [iv |-> d, pos |-> -i, plain |-> 0]
  ELSE [iv |-> d, pos |-> i - IV_SIZE - 1, plain |-> i - IV_SIZE]

\* p holds the bytes of an encrypted document from the c-th on.
Holds(p, d, c) == \A i \in 1 .. Len(p) : p[i] = CipherByte(d, c + i)

\* The bytes that encrypt() has written when its offset is w.
Written(w) == IF w = 0 THEN 0 ELSE IV_SIZE + w

\* The bytes that decrypt() has taken from the pipe.
Taken == IF rpc = "iv" THEN 0 ELSE IV_SIZE + roffset

Reading == rpc \in {"iv", "decrypt"}

\* encrypt() is at the byte its offset says.
WriterInv ==
  /\ source <= length
  /\ wpc = "encrypt" => woffset = source

\* The pipe holds what was written and not taken, and never more than there is.
PipeInv ==
  Reading =>
    /\ Holds(pipe, documents, Taken)
    /\ Taken + Len(pipe) <= IV_SIZE + length
    /\ wpc = "encrypt" => Taken + Len(pipe) = Written(woffset)
    /\ wpc = "returned" =>
         (rpc = "iv" /\ length = 0) \/ IV_SIZE + length <= Taken + Len(pipe)

\* decrypt() has the IV as soon as there is a byte that needs it, and has
\* written what it decrypted.
ReaderInv ==
  /\ rpc = "iv" => out = <<>> /\ roffset = 0
  /\ rpc = "decrypt" =>
       /\ Len(out) = roffset
       /\ (wpc = "encrypt" \/ pipe # <<>>) => riv = IvBytes(documents)
  /\ rpc = "returned" => wpc # "encrypt"

StreamInv ==
  /\ TypeOK
  /\ WriterInv
  /\ PipeInv
  /\ ReaderInv
  /\ PlaintextPrefix
  /\ RoundTrip

-----------------------------------------------------------------------------
\* The first bytes are the IV.
LEMMA IvByte ==
  ASSUME NEW d \in Nat, NEW i \in 1 .. IV_SIZE
  PROVE  CipherByte(d, i) = IvBytes(d)[i]
<1>1. i <= IV_SIZE
  BY DEF IV_SIZE
<1>2. CipherByte(d, i) = [iv |-> d, pos |-> -i, plain |-> 0]
  BY <1>1, Zenon DEF CipherByte
<1>3. IvBytes(d)[i] = [iv |-> d, pos |-> -i, plain |-> 0]
  BY Zenon DEF IvBytes
<1>. QED
  BY <1>2, <1>3, Zenon

\* The others are those of the document, each at its position.
LEMMA TextByte ==
  ASSUME NEW d \in Nat, NEW c \in Nat, NEW j \in Nat \ {0}
  PROVE  CipherByte(d, IV_SIZE + c + j)
           = [iv |-> d, pos |-> c + j - 1, plain |-> c + j]
<1> DEFINE k == IV_SIZE + c + j
<1>1. ~(k <= IV_SIZE) /\ k - IV_SIZE - 1 = c + j - 1 /\ k - IV_SIZE = c + j
  BY DEF IV_SIZE
<1>. HIDE DEF k
<1>2. CipherByte(d, k)
        = [iv |-> d, pos |-> k - IV_SIZE - 1, plain |-> k - IV_SIZE]
  BY <1>1, Zenon DEF CipherByte
<1>3. CipherByte(d, k) = [iv |-> d, pos |-> c + j - 1, plain |-> c + j]
  BY <1>1, <1>2, Zenon
<1>. QED
  BY <1>3 DEF k

-----------------------------------------------------------------------------
(***************************************************************************)
(* Lemmas on sequences of bytes.                                           *)
(***************************************************************************)

\* What is written continues what is in the pipe.
LEMMA PipeGrows ==
  ASSUME NEW p \in Seq(Byte), NEW e \in Seq(Byte), NEW d \in Nat, NEW c \in Nat,
         Holds(p, d, c), Holds(e, d, c + Len(p))
  PROVE  /\ Holds(p \o e, d, c)
         /\ Len(p \o e) = Len(p) + Len(e)
<1> DEFINE n == p \o e
<1>1. /\ Len(n) = Len(p) + Len(e)
      /\ \A i \in 1 .. Len(p) + Len(e) :
           n[i] = IF i <= Len(p) THEN p[i] ELSE e[i - Len(p)]
  BY ONLY p \in Seq(Byte), e \in Seq(Byte), ConcatProperties
<1>2. Len(p) \in Nat /\ Len(e) \in Nat
  BY LenProperties
<1>. HIDE DEF n
<1>3. ASSUME NEW i \in 1 .. Len(n)
      PROVE  n[i] = CipherByte(d, c + i)
  <2>1. CASE i <= Len(p)
    <3>1. i \in 1 .. Len(p)
      BY <2>1, <1>2
    <3>. QED
      BY <3>1, <2>1, <1>1 DEF Holds
  <2>2. CASE ~(i <= Len(p))
    <3>1. i - Len(p) \in 1 .. Len(e) /\ c + Len(p) + (i - Len(p)) = c + i
      BY <2>2, <1>1, <1>2
    <3>2. n[i] = e[i - Len(p)]
      BY <2>2, <1>1
    <3>3. e[i - Len(p)] = CipherByte(d, c + Len(p) + (i - Len(p)))
      BY <3>1 DEF Holds
    <3>. QED
      BY <3>1, <3>2, <3>3
  <2>. QED
    BY <2>1, <2>2
<1>. QED
  BY <1>1, <1>3 DEF Holds, n

\* The beginning of what was to be written.
LEMMA HoldsFirst ==
  ASSUME NEW p \in Seq(Byte), NEW d \in Nat, NEW c \in Nat, NEW n \in Nat,
         n <= Len(p), Holds(p, d, c)
  PROVE  /\ Holds(SubSeq(p, 1, n), d, c)
         /\ SubSeq(p, 1, n) \in Seq(Byte)
         /\ Len(SubSeq(p, 1, n)) = n
<1>1. /\ SubSeq(p, 1, n) \in Seq(Byte)
      /\ Len(SubSeq(p, 1, n)) = n
      /\ \A i \in 1 .. n : SubSeq(p, 1, n)[i] = p[i]
  BY FirstType
<1>2. \A i \in 1 .. n : i \in 1 .. Len(p)
  BY LenProperties
<1>. QED
  BY <1>1, <1>2 DEF Holds

\* What is left after r bytes were taken.
LEMMA HoldsRest ==
  ASSUME NEW p \in Seq(Byte), NEW d \in Nat, NEW c \in Nat, NEW r \in Nat,
         r <= Len(p), Holds(p, d, c)
  PROVE  /\ Holds(SubSeq(p, r + 1, Len(p)), d, c + r)
         /\ Len(SubSeq(p, r + 1, Len(p))) = Len(p) - r
<1> DEFINE q == SubSeq(p, r + 1, Len(p))
<1>1. /\ Len(q) = Len(p) - r
      /\ \A i \in 1 .. Len(p) - r : q[i] = p[r + i]
  BY RestType
<1>2. Len(p) \in Nat
  BY LenProperties
<1>. HIDE DEF q
<1>3. ASSUME NEW i \in 1 .. Len(q)
      PROVE  q[i] = CipherByte(d, c + r + i)
  <2>1. /\ r + i \in 1 .. Len(p) /\ i \in 1 .. Len(p) - r
        /\ c + (r + i) = c + r + i
    BY <1>1, <1>2
  <2>2. p[r + i] = CipherByte(d, c + (r + i))
    BY <2>1 DEF Holds
  <2>. QED
    BY <2>1, <2>2, <1>1
<1>. QED
  BY <1>1, <1>3 DEF Holds, q

\* encryptData of the next r bytes makes the next bytes of the document.
LEMMA EncryptedBytes ==
  ASSUME NEW d \in Nat, NEW r \in Nat \ {0}, source \in Nat
  PROVE  /\ encryptData(d, Chunk(r), source) \in Seq(Byte)
         /\ Holds(encryptData(d, Chunk(r), source), d, Written(source))
         /\ Written(source) + Len(encryptData(d, Chunk(r), source))
              = Written(source + r)
<1> DEFINE body == [j \in 1 .. Len(Chunk(r)) |->
                      [iv |-> d, pos |-> source + j - 1, plain |-> Chunk(r)[j]]]
           h == IF source = 0 THEN IvBytes(d) ELSE <<>>
<1>1. /\ Chunk(r) \in Seq(Nat) /\ Len(Chunk(r)) = r
      /\ \A j \in 1 .. r : Chunk(r)[j] = source + j
  BY ChunkType
<1>2. encryptData(d, Chunk(r), source) = h \o body
  BY DEF encryptData
<1>3. \A j \in 1 .. r : body[j] =
        [iv |-> d, pos |-> source + j - 1, plain |-> source + j]
  BY <1>1
<1>4. \A j \in 1 .. r :
        [iv |-> d, pos |-> source + j - 1, plain |-> source + j] \in Byte
  BY DEF Byte
<1>5. body \in Seq(Byte) /\ Len(body) = r
  <2>1. \A j \in 1 .. Len(Chunk(r)) :
          [iv |-> d, pos |-> source + j - 1, plain |-> Chunk(r)[j]] \in Byte
    BY <1>1, <1>4
  <2>. QED
    BY <1>1, <2>1
<1>. HIDE DEF body
<1>6. h \in Seq(Byte)
  BY IvBytesType
<1>7. CASE source = 0
  <2>1. h = IvBytes(d) /\ Len(h) = IV_SIZE
    BY <1>7, IvBytesType
  <2>2. Holds(h, d, 0)
    <3> SUFFICES ASSUME NEW i \in 1 .. IV_SIZE
                 PROVE  IvBytes(d)[i] = CipherByte(d, 0 + i)
      BY <2>1 DEF Holds
    <3>1. 0 + i = i
      BY DEF IV_SIZE
    <3>. QED
      BY <3>1, IvByte
  <2>3. Holds(body, d, 0 + Len(h))
    <3> SUFFICES ASSUME NEW j \in 1 .. Len(body)
                 PROVE  body[j] = CipherByte(d, 0 + IV_SIZE + j)
      BY <2>1 DEF Holds
    <3>1. body[j] = [iv |-> d, pos |-> 0 + j - 1, plain |-> 0 + j]
      BY <1>3, <1>5, <1>7
    <3>2. j \in Nat \ {0} /\ 0 + IV_SIZE + j = IV_SIZE + 0 + j
      BY <1>5 DEF IV_SIZE
    <3>. QED
      BY <3>1, <3>2, TextByte
  <2>4. /\ Holds(h \o body, d, 0)
        /\ Len(h \o body) = IV_SIZE + r
    BY <1>5, <1>6, <2>1, <2>2, <2>3, PipeGrows
  <2>5. Written(source) = 0 /\ Written(source + r) = IV_SIZE + r
    BY <1>7 DEF Written
  <2>6. h \o body \in Seq(Byte)
    BY <1>5, <1>6, ConcatProperties
  <2>7. 0 + (IV_SIZE + r) = IV_SIZE + r
    BY DEF IV_SIZE
  <2>. QED
    BY <1>2, <2>4, <2>5, <2>6, <2>7
<1>8. CASE source # 0
  <2>1. h = <<>>
    BY <1>8
  <2>2. h \o body = body
    BY <2>1, <1>5
  <2>3. Written(source) = IV_SIZE + source
    BY <1>8 DEF Written
  <2>4. Holds(body, d, IV_SIZE + source)
    <3> SUFFICES ASSUME NEW j \in 1 .. Len(body)
                 PROVE  body[j] = CipherByte(d, IV_SIZE + source + j)
      BY DEF Holds
    <3>1. body[j] = [iv |-> d, pos |-> source + j - 1, plain |-> source + j]
      BY <1>3, <1>5
    <3>2. j \in Nat \ {0}
      BY <1>5
    <3>. QED
      BY <3>1, <3>2, TextByte
  <2>5. IV_SIZE + source + r = Written(source + r)
    BY <1>8 DEF Written, IV_SIZE
  <2>. QED
    BY <1>2, <1>5, <2>2, <2>3, <2>4, <2>5
<1>. QED
  BY <1>7, <1>8

\* Under the IV of the document and at its offset a chunk decrypts to the
\* bytes of the document.
LEMMA DecryptedBytes ==
  ASSUME NEW d \in Nat, NEW c \in Nat, NEW chunk \in Seq(Byte),
         Holds(chunk, d, IV_SIZE + c)
  PROVE  \A i \in 1 .. Len(chunk) :
           decryptData(IvBytes(d), chunk, c)[i] = c + i
<1> SUFFICES ASSUME NEW i \in 1 .. Len(chunk)
             PROVE  decryptData(IvBytes(d), chunk, c)[i] = c + i
  OBVIOUS
<1>1. chunk[i] = CipherByte(d, IV_SIZE + c + i)
  BY DEF Holds
<1>2. i \in Nat \ {0}
  BY LenProperties
<1>3. chunk[i] = [iv |-> d, pos |-> c + i - 1, plain |-> c + i]
  BY <1>1, <1>2, TextByte
<1>4. chunk[i].iv = d /\ chunk[i].pos = c + i - 1 /\ chunk[i].plain = c + i
  BY <1>3
<1>. QED
  BY <1>4 DEF decryptData

\* Eight bytes taken from the beginning are the IV.
LEMMA IvTaken ==
  ASSUME NEW p \in Seq(Byte), NEW d \in Nat, IV_SIZE <= Len(p), Holds(p, d, 0)
  PROVE  SubSeq(p, 1, IV_SIZE) \o SubSeq(ZeroIv, IV_SIZE + 1, IV_SIZE)
           = IvBytes(d)
<1> DEFINE first == SubSeq(p, 1, IV_SIZE)
<1>1. IV_SIZE \in Nat
  BY DEF IV_SIZE
<1>2. first \in Seq(Byte) /\ Len(first) = IV_SIZE /\ Holds(first, d, 0)
  BY <1>1, HoldsFirst
<1>. HIDE DEF first
<1>3. SubSeq(ZeroIv, IV_SIZE + 1, IV_SIZE) = <<>>
  BY ZeroIvType, SubSeqProperties DEF IV_SIZE
<1>4. first \o <<>> = first
  BY <1>2
<1>5. IvBytes(d) \in Seq(Byte) /\ Len(IvBytes(d)) = IV_SIZE
  BY IvBytesType
<1>6. \A i \in 1 .. IV_SIZE : first[i] = IvBytes(d)[i]
  <2> SUFFICES ASSUME NEW i \in 1 .. IV_SIZE
               PROVE  first[i] = IvBytes(d)[i]
    OBVIOUS
  <2>1. first[i] = CipherByte(d, 0 + i)
    BY <1>2 DEF Holds
  <2>2. 0 + i = i
    BY DEF IV_SIZE
  <2>. QED
    BY <2>1, <2>2, IvByte
<1>7. first = IvBytes(d)
  BY <1>2, <1>5, <1>6, SeqEqual
<1>. QED
  BY <1>3, <1>4, <1>7 DEF first

\* The bytes of the document one after the other.
LEMMA OutGrows ==
  ASSUME NEW o \in Seq(Nat), NEW e \in Seq(Nat),
         \A i \in 1 .. Len(o) : o[i] = i,
         \A i \in 1 .. Len(e) : e[i] = Len(o) + i
  PROVE  /\ Len(o \o e) = Len(o) + Len(e)
         /\ \A i \in 1 .. Len(o \o e) : (o \o e)[i] = i
<1> DEFINE n == o \o e
<1>1. /\ Len(n) = Len(o) + Len(e)
      /\ \A i \in 1 .. Len(o) + Len(e) :
           n[i] = IF i <= Len(o) THEN o[i] ELSE e[i - Len(o)]
  BY ONLY o \in Seq(Nat), e \in Seq(Nat), ConcatProperties
<1>2. Len(o) \in Nat /\ Len(e) \in Nat
  BY LenProperties
<1>. HIDE DEF n
<1>3. ASSUME NEW i \in 1 .. Len(n)
      PROVE  n[i] = i
  <2>1. CASE i <= Len(o)
    <3>1. i \in 1 .. Len(o)
      BY <2>1, <1>2
    <3>. QED
      BY <3>1, <2>1, <1>1
  <2>2. CASE ~(i <= Len(o))
    <3>1. i - Len(o) \in 1 .. Len(e) /\ Len(o) + (i - Len(o)) = i
      BY <2>2, <1>1, <1>2
    <3>. QED
      BY <3>1, <2>2, <1>1
  <2>. QED
    BY <2>1, <2>2
<1>. QED
  BY <1>1, <1>3 DEF n

-----------------------------------------------------------------------------
(***************************************************************************)
(* Steps.                                                                  *)
(***************************************************************************)

\* What the steps need of the types.
Typed ==
  /\ documents \in Nat /\ length \in Nat
  /\ source \in Nat /\ woffset \in Nat /\ roffset \in Nat
  /\ pipe \in Seq(Byte) /\ Len(pipe) \in Nat
  /\ out \in Seq(Nat) /\ Len(out) \in Nat
  /\ Taken \in Nat /\ IV_SIZE \in Nat

\* The types follow from the invariant.
LEMMA Types == StreamInv => Typed
<1> SUFFICES ASSUME StreamInv
             PROVE  Typed
  OBVIOUS
<1>1. TypeOK
  BY DEF StreamInv
<1>2. documents \in Nat /\ length \in Nat
  BY <1>1, LengthsAssumption, MaxDocumentsAssumption DEF TypeOK
<1>3. pipe \in Seq(Byte) /\ out \in Seq(Nat)
  BY <1>1 DEF TypeOK
<1>4. Len(pipe) \in Nat /\ Len(out) \in Nat
  BY <1>3, LenProperties
<1>5. Taken \in Nat /\ IV_SIZE \in Nat
  BY <1>1 DEF TypeOK, Taken, IV_SIZE
<1>. QED
  BY <1>1, <1>2, <1>3, <1>4, <1>5 DEF Typed, TypeOK

\* The writer puts the bytes e after the others, and goes on or fails.
LEMMA WriterStep ==
  ASSUME StreamInv, wpc = "encrypt", NEW e \in Seq(Byte), pipe' = pipe \o e,
         UNCHANGED <<documents, length, rpc, riv, roffset, out>>,
         Holds(e, documents, Written(woffset)),
         Written(woffset) + Len(e) <= IV_SIZE + length,
         wpc' \in {"encrypt", "threw"},
         wpc' = "encrypt" => Written(woffset) + Len(e) = Written(woffset')
  PROVE  PipeInv' /\ ReaderInv' /\ PlaintextPrefix' /\ RoundTrip'
<1>a. Typed
  BY Types
<1>. USE <1>a DEF Typed, StreamInv
<1>1. PipeInv'
  <2> SUFFICES ASSUME Reading
               PROVE  /\ Holds(pipe', documents, Taken)
                      /\ Taken + Len(pipe') <= IV_SIZE + length
                      /\ wpc' = "encrypt" =>
                           Taken + Len(pipe') = Written(woffset')
    BY DEF PipeInv, Reading, Taken
  <2>1. Holds(pipe, documents, Taken) /\ Taken + Len(pipe) = Written(woffset)
    BY DEF PipeInv
  <2>2. Holds(pipe', documents, Taken) /\ Len(pipe') = Len(pipe) + Len(e)
    BY <2>1, PipeGrows
  <2>3. Len(e) \in Nat
    BY LenProperties
  <2>4. Taken + Len(pipe') = Written(woffset) + Len(e)
    BY <2>1, <2>2, <2>3
  <2>. QED
    BY <2>2, <2>4
<1>2. ReaderInv'
  BY DEF ReaderInv
<1>3. PlaintextPrefix'
  BY DEF PlaintextPrefix
<1>4. RoundTrip'
  BY DEF RoundTrip
<1>. QED
  BY <1>1, <1>2, <1>3, <1>4

\* encrypt() writes a chunk.
LEMMA EncryptStep ==
  ASSUME StreamInv, Encrypt
  PROVE  WriterInv' /\ PipeInv' /\ ReaderInv' /\ PlaintextPrefix' /\ RoundTrip'
<1>a. Typed
  BY Types
<1>. USE <1>a DEF Typed, StreamInv
<1>1. PICK r \in Readable :
        /\ source' = source + r
        /\ woffset' = woffset + r
        /\ pipe' = pipe \o encryptData(documents, Chunk(r), woffset)
  BY DEF Encrypt
<1>2. r \in Nat \ {0} /\ r <= length - source
  BY DEF Readable
<1>3. wpc = "encrypt" /\ wpc' = "encrypt" /\ woffset = source
  BY DEF Encrypt, WriterInv
<1>4. UNCHANGED <<documents, length, rpc, riv, roffset, out>>
  BY DEF Encrypt, readerVars
<1> DEFINE e == encryptData(documents, Chunk(r), source)
<1>5. /\ e \in Seq(Byte)
      /\ Holds(e, documents, Written(source))
      /\ Written(source) + Len(e) = Written(source + r)
  BY <1>2, EncryptedBytes
<1>6. Written(source + r) <= IV_SIZE + length
  BY <1>2 DEF Written
<1>7. pipe' = pipe \o e /\ woffset' = source + r
  BY <1>1, <1>3
<1>. HIDE DEF e
<1>8. PipeInv' /\ ReaderInv' /\ PlaintextPrefix' /\ RoundTrip'
  BY <1>3, <1>4, <1>5, <1>6, <1>7, WriterStep
<1>9. WriterInv'
  <2>1. source + r <= length
    BY <1>2
  <2>. QED
    BY <1>1, <1>4, <1>7, <2>1 DEF WriterInv
<1>. QED
  BY <1>8, <1>9

\* encrypt() fails with a part of a chunk, or nothing of it, written.
LEMMA EncryptFailsStep ==
  ASSUME StreamInv, EncryptFails
  PROVE  WriterInv' /\ PipeInv' /\ ReaderInv' /\ PlaintextPrefix' /\ RoundTrip'
<1>a. Typed
  BY Types
<1>. USE <1>a DEF Typed, StreamInv
<1>1. /\ wpc = "encrypt" /\ wpc' = "threw" /\ woffset = source
      /\ UNCHANGED <<documents, length, rpc, riv, roffset, out>>
      /\ source' = source
  BY DEF EncryptFails, WriterInv, readerVars
<1>2. WriterInv'
  BY <1>1 DEF WriterInv
<1>3. CASE pipe' = pipe
  BY <1>1, <1>3 DEF PipeInv, Taken, Reading, ReaderInv, PlaintextPrefix,
       RoundTrip, WriterInv
<1>4. CASE \E r \in Readable :
             \E n \in 0 .. Len(encryptData(documents, Chunk(r), woffset)) - 1 :
               pipe' = pipe \o
                 SubSeq(encryptData(documents, Chunk(r), woffset), 1, n)
  <2>1. PICK r \in Readable :
          \E n \in 0 .. Len(encryptData(documents, Chunk(r), woffset)) - 1 :
            pipe' = pipe \o
              SubSeq(encryptData(documents, Chunk(r), woffset), 1, n)
    BY <1>4
  <2>2. r \in Nat \ {0} /\ r <= length - source
    BY DEF Readable
  <2> DEFINE e == encryptData(documents, Chunk(r), source)
  <2>3. /\ e \in Seq(Byte)
        /\ Holds(e, documents, Written(source))
        /\ Written(source) + Len(e) = Written(source + r)
    BY <2>2, EncryptedBytes
  <2>4. \E n \in 0 .. Len(e) - 1 : pipe' = pipe \o SubSeq(e, 1, n)
    BY <1>1, <2>1
  <2>. HIDE DEF e
  <2>5. PICK n \in 0 .. Len(e) - 1 : pipe' = pipe \o SubSeq(e, 1, n)
    BY <2>4
  <2>6. n \in Nat /\ n <= Len(e) /\ Len(e) \in Nat
    BY <2>3, LenProperties
  <2>7. Written(source + r) <= IV_SIZE + length /\ Written(source) \in Nat
    BY <2>2 DEF Written
  <2>8. /\ Holds(SubSeq(e, 1, n), documents, Written(source))
        /\ SubSeq(e, 1, n) \in Seq(Byte)
        /\ Len(SubSeq(e, 1, n)) = n
    BY <2>3, <2>6, <2>7, HoldsFirst
  <2>9. Written(source) + n <= IV_SIZE + length
    BY <2>3, <2>6, <2>7
  <2>. QED
    BY <1>1, <1>2, <2>5, <2>8, <2>9, WriterStep
<1>. QED
  BY <1>2, <1>3, <1>4 DEF EncryptFails

\* encrypt() returns: all of the document is in the pipe or was taken.
LEMMA EncryptEndStep ==
  ASSUME StreamInv, EncryptEnd
  PROVE  WriterInv' /\ PipeInv' /\ ReaderInv' /\ PlaintextPrefix' /\ RoundTrip'
<1>a. Typed
  BY Types
<1>. USE <1>a DEF Typed, StreamInv
<1>1. /\ wpc = "encrypt" /\ wpc' = "returned" /\ woffset = length
      /\ UNCHANGED <<documents, length, source, woffset, pipe>>
      /\ UNCHANGED <<rpc, riv, roffset, out>>
  BY DEF EncryptEnd, WriterInv, readerVars
<1>2. PipeInv'
  <2> SUFFICES ASSUME Reading
               PROVE  /\ Holds(pipe, documents, Taken)
                      /\ Taken + Len(pipe) <= IV_SIZE + length
                      /\ (rpc = "iv" /\ length = 0)
                           \/ IV_SIZE + length <= Taken + Len(pipe)
    BY <1>1 DEF PipeInv, Reading, Taken
  <2>1. Taken + Len(pipe) = Written(length)
    BY <1>1 DEF PipeInv
  <2>2. CASE length = 0
    <3>1. Taken + Len(pipe) = 0
      BY <2>1, <2>2 DEF Written
    <3>2. rpc = "iv"
      BY <3>1 DEF Taken, IV_SIZE
    <3>. QED
      BY <2>2, <3>2 DEF PipeInv
  <2>3. CASE length # 0
    BY <2>1, <2>3 DEF Written, PipeInv
  <2>. QED
    BY <2>2, <2>3
<1>3. rpc # "returned"
  BY <1>1 DEF ReaderInv
<1>. QED
  BY <1>1, <1>2, <1>3 DEF WriterInv, ReaderInv, PlaintextPrefix, RoundTrip

\* A stream that gives what is asked for gives the whole IV, unless encrypt()
\* is over and wrote no more.
LEMMA ReadIvStep ==
  ASSUME StreamInv, ReadIv, ShortReads = FALSE
  PROVE  WriterInv' /\ PipeInv' /\ ReaderInv' /\ PlaintextPrefix' /\ RoundTrip'
<1>a. Typed
  BY Types
<1>. USE <1>a DEF Typed, StreamInv
<1>1. /\ rpc = "iv" /\ rpc' = "decrypt"
      /\ UNCHANGED <<documents, length, wpc, source, woffset, roffset, out>>
  BY DEF ReadIv, writerVars
<1>2. WriterInv' /\ PlaintextPrefix' /\ RoundTrip'
  BY <1>1 DEF WriterInv, PlaintextPrefix, RoundTrip
<1>3. /\ out = <<>> /\ roffset = 0 /\ Taken = 0
      /\ Reading /\ Reading'
      /\ Taken' = IV_SIZE
  BY <1>1 DEF ReaderInv, Taken, Reading, IV_SIZE
<1>4. /\ Holds(pipe, documents, 0)
      /\ Len(pipe) <= IV_SIZE + length
      /\ wpc = "encrypt" => Len(pipe) = Written(woffset)
      /\ wpc = "returned" => length = 0 \/ IV_SIZE + length <= Len(pipe)
  BY <1>1, <1>3 DEF PipeInv
<1>5. ASSUME wpc # "encrypt", Len(pipe) < IV_SIZE, pipe' = <<>>
      PROVE  PipeInv' /\ ReaderInv'
  <2>1. Len(pipe') = 0 /\ Holds(pipe', documents', Taken')
    BY <1>5 DEF Holds
  <2>2. IV_SIZE + 0 <= IV_SIZE + length
    OBVIOUS
  <2>3. wpc = "returned" => length = 0
    BY <1>4, <1>5
  <2>4. wpc = "returned" => IV_SIZE + length <= IV_SIZE + 0
    BY <2>3
  <2>5. PipeInv'
    BY <1>1, <1>3, <1>5, <2>1, <2>2, <2>4 DEF PipeInv
  <2>6. Len(out) = 0
    BY <1>3
  <2>. QED
    BY <1>1, <1>3, <1>5, <2>5, <2>6 DEF ReaderInv
<1>6. ASSUME IV_SIZE <= Len(pipe),
             riv' = SubSeq(pipe, 1, IV_SIZE)
                      \o SubSeq(ZeroIv, IV_SIZE + 1, IV_SIZE),
             pipe' = SubSeq(pipe, IV_SIZE + 1, Len(pipe))
      PROVE  PipeInv' /\ ReaderInv'
  <2>1. riv' = IvBytes(documents)
    BY <1>4, <1>6, IvTaken
  <2>2. /\ Holds(pipe', documents, 0 + IV_SIZE)
        /\ Len(pipe') = Len(pipe) - IV_SIZE
    BY <1>4, <1>6, HoldsRest
  <2>3. 0 + IV_SIZE = IV_SIZE /\ IV_SIZE + (Len(pipe) - IV_SIZE) = Len(pipe)
    OBVIOUS
  <2>4. wpc = "returned" => IV_SIZE + length <= Len(pipe)
    BY <1>4, <1>6
  <2>5. PipeInv'
    BY <1>1, <1>3, <1>4, <2>2, <2>3, <2>4 DEF PipeInv
  <2>6. Len(out) = 0
    BY <1>3
  <2>. QED
    BY <1>1, <1>3, <2>1, <2>5, <2>6 DEF ReaderInv
<1>7. PipeInv' /\ ReaderInv'
  <2>1. CASE EndOfStream /\ UNCHANGED <<riv, pipe>>
    <3>1. wpc # "encrypt" /\ pipe' = <<>> /\ Len(pipe) < IV_SIZE
      BY <2>1 DEF EndOfStream, IV_SIZE
    <3>. QED
      BY <3>1, <1>5
  <2>2. CASE \E r \in Given(IV_SIZE) :
               /\ riv' = SubSeq(pipe, 1, r) \o SubSeq(ZeroIv, r + 1, IV_SIZE)
               /\ pipe' = SubSeq(pipe, r + 1, Len(pipe))
    <3>1. PICK r \in Given(IV_SIZE) :
            /\ riv' = SubSeq(pipe, 1, r) \o SubSeq(ZeroIv, r + 1, IV_SIZE)
            /\ pipe' = SubSeq(pipe, r + 1, Len(pipe))
      BY <2>2
    <3>2. /\ r \in 1 .. IV_SIZE /\ r <= Len(pipe)
          /\ r = IV_SIZE \/ (wpc # "encrypt" /\ r = Len(pipe))
      BY DEF Given
    <3>3. CASE r = IV_SIZE
      BY <3>1, <3>2, <3>3, <1>6
    <3>4. CASE r # IV_SIZE
      <4>1. wpc # "encrypt" /\ r = Len(pipe) /\ Len(pipe) < IV_SIZE
        BY <3>2, <3>4
      <4>2. SubSeq(pipe, Len(pipe) + 1, Len(pipe)) = <<>>
        BY SubSeqProperties
      <4>. QED
        BY <3>1, <4>1, <4>2, <1>5
    <3>. QED
      BY <3>3, <3>4
  <2>. QED
    BY <2>1, <2>2 DEF ReadIv
<1>. QED
  BY <1>2, <1>7

\* A chunk of the pipe decrypts to the bytes that follow those written.
LEMMA ChunkDecrypts ==
  ASSUME StreamInv, rpc = "decrypt", NEW r \in 1 .. BUFFER_SIZE,
         r <= Len(pipe)
  PROVE  LET plain == decryptData(riv, SubSeq(pipe, 1, r), roffset)
         IN  /\ plain \in Seq(Nat) /\ Len(plain) = r
             /\ \A i \in 1 .. r : plain[i] = Len(out) + i
<1>a. Typed
  BY Types
<1>. USE <1>a, BufferAssumption DEF Typed, StreamInv
<1>1. r \in Nat /\ r # 0
  OBVIOUS
<1>2. pipe # <<>>
  BY <1>1
<1>3. riv = IvBytes(documents) /\ Len(out) = roffset
  BY <1>2 DEF ReaderInv
<1>4. Holds(pipe, documents, IV_SIZE + roffset)
  BY DEF PipeInv, Reading, Taken
<1>5. IV_SIZE + roffset \in Nat
  OBVIOUS
<1>6. /\ Holds(SubSeq(pipe, 1, r), documents, IV_SIZE + roffset)
      /\ SubSeq(pipe, 1, r) \in Seq(Byte)
      /\ Len(SubSeq(pipe, 1, r)) = r
  BY <1>1, <1>4, <1>5, HoldsFirst
<1>7. /\ decryptData(riv, SubSeq(pipe, 1, r), roffset) \in Seq(Nat)
      /\ Len(decryptData(riv, SubSeq(pipe, 1, r), roffset)) = r
  BY <1>6, DecryptDataType
<1>8. \A i \in 1 .. r :
        decryptData(IvBytes(documents), SubSeq(pipe, 1, r), roffset)[i]
          = roffset + i
  <2> DEFINE chunk == SubSeq(pipe, 1, r)
  <2>1. /\ Holds(chunk, documents, IV_SIZE + roffset)
        /\ chunk \in Seq(Byte) /\ Len(chunk) = r
    BY <1>6
  <2>. HIDE DEF chunk
  <2>2. \A i \in 1 .. Len(chunk) :
          decryptData(IvBytes(documents), chunk, roffset)[i] = roffset + i
    BY <2>1, DecryptedBytes
  <2>. QED
    BY <2>1, <2>2 DEF chunk
<1>. QED
  BY <1>3, <1>7, <1>8

\* decrypt() writes a chunk.
LEMMA DecryptStep ==
  ASSUME StreamInv, Decrypt
  PROVE  WriterInv' /\ PipeInv' /\ ReaderInv' /\ PlaintextPrefix' /\ RoundTrip'
<1>a. Typed
  BY Types
<1>. USE <1>a, BufferAssumption DEF Typed, StreamInv
<1>1. /\ rpc = "decrypt" /\ rpc' = "decrypt" /\ riv' = riv
      /\ UNCHANGED <<documents, length, wpc, source, woffset>>
  BY DEF Decrypt, writerVars
<1>2. PICK r \in 1 .. BUFFER_SIZE :
        /\ r <= Len(pipe)
        /\ out' = out \o decryptData(riv, SubSeq(pipe, 1, r), roffset)
        /\ roffset' = roffset + r
        /\ pipe' = SubSeq(pipe, r + 1, Len(pipe))
  BY DEF Decrypt
<1> DEFINE plain == decryptData(riv, SubSeq(pipe, 1, r), roffset)
<1>3. /\ plain \in Seq(Nat) /\ Len(plain) = r
      /\ \A i \in 1 .. Len(plain) : plain[i] = Len(out) + i
  BY <1>1, <1>2, ChunkDecrypts
<1>4. out' = out \o plain
  BY <1>2
<1>. HIDE DEF plain
<1>5. \A i \in 1 .. Len(out) : out[i] = i
  BY DEF PlaintextPrefix
<1>6. Len(out') = Len(out) + r /\ \A i \in 1 .. Len(out') : out'[i] = i
  BY <1>3, <1>4, <1>5, OutGrows
<1>7. /\ Len(out) = roffset
      /\ wpc = "encrypt" \/ pipe # <<>> => riv = IvBytes(documents)
  BY <1>1 DEF ReaderInv
<1>8. /\ Taken = IV_SIZE + roffset /\ Reading /\ Reading'
      /\ Taken' = IV_SIZE + (roffset + r)
  BY <1>1, <1>2 DEF Taken, Reading
<1>9. /\ Holds(pipe, documents, Taken)
      /\ Taken + Len(pipe) <= IV_SIZE + length
  BY <1>8 DEF PipeInv
<1>10. r \in Nat /\ r # 0
  OBVIOUS
<1>11. /\ Holds(pipe', documents, Taken + r)
       /\ Len(pipe') = Len(pipe) - r
  <2>1. /\ Holds(SubSeq(pipe, r + 1, Len(pipe)), documents, Taken + r)
        /\ Len(SubSeq(pipe, r + 1, Len(pipe))) = Len(pipe) - r
    BY <1>2, <1>9, <1>10, HoldsRest
  <2>. QED
    BY <1>2, <2>1
<1>12. /\ IV_SIZE + (roffset + r) = Taken + r
       /\ Taken + r + (Len(pipe) - r) = Taken + Len(pipe)
  BY <1>8, <1>10
<1>13. PipeInv'
  BY <1>1, <1>8, <1>9, <1>11, <1>12 DEF PipeInv
<1>14. Len(out) + r <= length
  <2>1. IV_SIZE + Len(out) + Len(pipe) <= IV_SIZE + length
    BY <1>7, <1>8, <1>9
  <2>. QED
    BY <1>2, <1>10, <2>1
<1>15. pipe # <<>>
  BY <1>2, <1>10
<1>16. ReaderInv'
  BY <1>1, <1>2, <1>6, <1>7, <1>15 DEF ReaderInv
<1>17. PlaintextPrefix'
  BY <1>1, <1>6, <1>14 DEF PlaintextPrefix
<1>. QED
  BY <1>1, <1>13, <1>16, <1>17 DEF WriterInv, RoundTrip

\* decrypt() fails with a part of a chunk, or nothing of it, written.
LEMMA DecryptFailsStep ==
  ASSUME StreamInv, DecryptFails
  PROVE  WriterInv' /\ PipeInv' /\ ReaderInv' /\ PlaintextPrefix' /\ RoundTrip'
<1>a. Typed
  BY Types
<1>. USE <1>a, BufferAssumption DEF Typed, StreamInv
<1>1. /\ rpc' = "threw"
      /\ UNCHANGED <<documents, length, wpc, source, woffset>>
  BY DEF DecryptFails, writerVars
<1>2. WriterInv' /\ PipeInv' /\ ReaderInv' /\ RoundTrip'
  BY <1>1 DEF WriterInv, PipeInv, Reading, ReaderInv, RoundTrip
<1>3. CASE out' = out
  BY <1>1, <1>2, <1>3 DEF PlaintextPrefix
<1>4. CASE /\ rpc = "decrypt"
           /\ \E r \in 1 .. BUFFER_SIZE :
                /\ r <= Len(pipe)
                /\ \E n \in 0 .. r - 1 :
                     out' = out \o SubSeq(
                       decryptData(riv, SubSeq(pipe, 1, r), roffset), 1, n)
  <2>1. PICK r \in 1 .. BUFFER_SIZE :
          /\ r <= Len(pipe)
          /\ \E n \in 0 .. r - 1 :
               out' = out \o SubSeq(
                 decryptData(riv, SubSeq(pipe, 1, r), roffset), 1, n)
    BY <1>4
  <2> DEFINE plain == decryptData(riv, SubSeq(pipe, 1, r), roffset)
  <2>2. /\ plain \in Seq(Nat) /\ Len(plain) = r
        /\ \A i \in 1 .. r : plain[i] = Len(out) + i
    BY <1>4, <2>1, ChunkDecrypts
  <2>3. \E n \in 0 .. r - 1 : out' = out \o SubSeq(plain, 1, n)
    BY <2>1
  <2>. HIDE DEF plain
  <2>4. PICK n \in 0 .. r - 1 : out' = out \o SubSeq(plain, 1, n)
    BY <2>3
  <2> DEFINE part == SubSeq(plain, 1, n)
  <2>5. /\ part \in Seq(Nat) /\ Len(part) = n
        /\ \A i \in 1 .. n : part[i] = plain[i]
    BY <2>2, SubSeqProperties
  <2>6. out' = out \o part
    BY <2>4
  <2>. HIDE DEF part
  <2>7. \A i \in 1 .. Len(part) : part[i] = Len(out) + i
    BY <2>2, <2>5
  <2>8. \A i \in 1 .. Len(out) : out[i] = i
    BY DEF PlaintextPrefix
  <2>9. Len(out') = Len(out) + n /\ \A i \in 1 .. Len(out') : out'[i] = i
    BY <2>5, <2>6, <2>7, <2>8, OutGrows
  <2>10. /\ Len(out) = roffset
         /\ IV_SIZE + roffset + Len(pipe) <= IV_SIZE + length
    BY <1>4 DEF ReaderInv, PipeInv, Reading, Taken
  <2>11. Len(out) + n <= length
    BY <2>1, <2>10
  <2>12. PlaintextPrefix'
    BY <1>1, <2>9, <2>11 DEF PlaintextPrefix
  <2>. QED
    BY <1>2, <2>12
<1>. QED
  BY <1>3, <1>4 DEF DecryptFails

\* decrypt() returns: nothing is left in the pipe and no more will come.
LEMMA DecryptEndStep ==
  ASSUME StreamInv, DecryptEnd
  PROVE  WriterInv' /\ PipeInv' /\ ReaderInv' /\ PlaintextPrefix' /\ RoundTrip'
<1>a. Typed
  BY Types
<1>. USE <1>a DEF Typed, StreamInv
<1>1. /\ rpc = "decrypt" /\ rpc' = "returned" /\ wpc # "encrypt"
      /\ pipe = <<>>
      /\ UNCHANGED <<documents, length, wpc, source, woffset, pipe, out>>
  BY DEF DecryptEnd, EndOfStream, writerVars
<1>2. WriterInv' /\ PipeInv' /\ ReaderInv' /\ PlaintextPrefix'
  BY <1>1 DEF WriterInv, PipeInv, Reading, ReaderInv, PlaintextPrefix
<1>3. wpc = "returned" => Len(out) = length
  <2> SUFFICES ASSUME wpc = "returned"
               PROVE  Len(out) = length
    OBVIOUS
  <2>1. Len(pipe) = 0 /\ Taken = IV_SIZE + roffset /\ Len(out) = roffset
    BY <1>1 DEF Taken, ReaderInv
  <2>2. IV_SIZE + length <= Taken + Len(pipe)
    BY <1>1 DEF PipeInv, Reading
  <2>3. Len(out) <= length
    BY DEF PlaintextPrefix
  <2>. QED
    BY <2>1, <2>2, <2>3
<1>. QED
  BY <1>1, <1>2, <1>3 DEF RoundTrip

\* A new document begins with an empty pipe.
LEMMA NewDocumentStep ==
  ASSUME NewDocument
  PROVE  WriterInv' /\ PipeInv' /\ ReaderInv' /\ PlaintextPrefix' /\ RoundTrip'
<1>1. /\ wpc' = "encrypt" /\ source' = 0 /\ woffset' = 0 /\ pipe' = <<>>
      /\ rpc' = "iv" /\ roffset' = 0 /\ out' = <<>>
      /\ length' \in Nat
  BY LengthsAssumption DEF NewDocument
<1>2. Taken' = 0 /\ Len(pipe') = 0 /\ Len(out') = 0
  BY <1>1 DEF Taken
<1>3. 0 <= length' /\ 0 + 0 <= IV_SIZE + length' /\ Written(0) = 0 + 0
  <2>1. ASSUME NEW x \in Nat PROVE 0 <= x /\ 0 + 0 <= IV_SIZE + x
    BY DEF IV_SIZE
  <2>. QED
    BY <1>1, <2>1 DEF Written
<1>4. Holds(pipe', documents', Taken')
  BY <1>2 DEF Holds
<1>. QED
  BY <1>1, <1>2, <1>3, <1>4 DEF WriterInv, PipeInv, ReaderInv,
       PlaintextPrefix, RoundTrip

-----------------------------------------------------------------------------
\* Every part of the invariant holds of a stream without short reads.
THEOREM StreamCorrect ==
  ASSUME ShortReads = FALSE
  PROVE  Spec => []StreamInv
<1>1. Init => StreamInv
  <2> SUFFICES ASSUME Init
               PROVE  StreamInv
    OBVIOUS
  <2>1. TypeOK
    BY MaxDocumentsAssumption, ZeroIvType DEF Init, TypeOK, Finished
  <2>. QED
    BY <2>1 DEF Init, StreamInv, WriterInv, PipeInv, Reading, ReaderInv,
         PlaintextPrefix, RoundTrip
<1>2. StreamInv /\ TypeOK' /\ [Next]_vars => StreamInv'
  <2> SUFFICES ASSUME StreamInv, TypeOK', [Next]_vars
               PROVE  StreamInv'
    OBVIOUS
  <2>1. ASSUME Next
        PROVE  WriterInv' /\ PipeInv' /\ ReaderInv' /\ PlaintextPrefix'
                 /\ RoundTrip'
    BY <2>1, NewDocumentStep, EncryptStep, EncryptFailsStep, EncryptEndStep,
         ReadIvStep, DecryptStep, DecryptFailsStep, DecryptEndStep, Zenon
       DEF Next
  <2>2. ASSUME UNCHANGED vars
        PROVE  WriterInv' /\ PipeInv' /\ ReaderInv' /\ PlaintextPrefix'
                 /\ RoundTrip'
    BY <2>2 DEF vars, StreamInv, WriterInv, PipeInv, Reading, Taken,
         ReaderInv, PlaintextPrefix, RoundTrip
  <2>. QED
    BY <2>1, <2>2, Zenon DEF StreamInv
<1>. QED
  BY <1>1, <1>2, DocumentTypeCorrect, PTL DEF Spec

\* Of a stream without short reads, decrypt() writes the beginning of the
\* document, whatever the chunks and wherever either side fails.
THEOREM DocumentPrefix ==
  ASSUME ShortReads = FALSE
  PROVE  Spec => []PlaintextPrefix
<1>1. StreamInv => PlaintextPrefix
  BY DEF StreamInv
<1>. QED
  BY <1>1, StreamCorrect, PTL

\* Of a stream without short reads, decrypt() that returns after encrypt()
\* returned has written the whole document.
THEOREM DocumentRoundTrip ==
  ASSUME ShortReads = FALSE
  PROVE  Spec => []RoundTrip
<1>1. StreamInv => RoundTrip
  BY DEF StreamInv
<1>. QED
  BY <1>1, StreamCorrect, PTL

-----------------------------------------------------------------------------
(***************************************************************************)
(* The refinement of DocumentTransfer.  Only the ends of the two sides and *)
(* the growth of the output are seen; what the writer puts into the pipe   *)
(* is not, and neither is the reading of the IV.                           *)
(***************************************************************************)
Sender == IF wpc = "encrypt" THEN "running" ELSE wpc
Receiver == IF rpc \in {"iv", "decrypt"} THEN "running" ELSE rpc
TransferVars == <<length, Sender, Receiver, out>>

\* The output is the first bytes of the document.
LEMMA OutIsFirst ==
  ASSUME StreamInv
  PROVE  out = Transfer!First(Len(out)) /\ Len(out) \in Nat /\ Len(out) <= length
<1>a. Typed
  BY Types
<1>1. /\ out \in Seq(Nat) /\ Len(out) \in Nat /\ Len(out) <= length
      /\ \A i \in 1 .. Len(out) : out[i] = i
  BY <1>a DEF Typed, StreamInv, PlaintextPrefix
<1> DEFINE f == Transfer!First(Len(out))
<1>2. f = [i \in 1 .. Len(out) |-> i]
  BY DEF Transfer!First
<1>3. /\ f \in Seq(Nat) /\ Len(f) = Len(out)
      /\ \A i \in 1 .. Len(out) : f[i] = i
  BY <1>1, <1>2
<1>. HIDE DEF f
<1>4. \A i \in 1 .. Len(out) : out[i] = f[i]
  BY <1>1, <1>3
<1>5. out = f
  BY <1>1, <1>3, <1>4, SeqEqual
<1>. QED
  BY <1>1, <1>5 DEF f

\* An output that got no shorter grew as DocumentTransfer allows.
LEMMA OutGrew ==
  ASSUME StreamInv, StreamInv', length' = length, Len(out) <= Len(out')
  PROVE  Transfer!Grow
<1>1. Len(out) \in Nat
  BY OutIsFirst
<1>2. /\ out' = Transfer!First(Len(out')) /\ Len(out') \in Nat
      /\ Len(out') <= length
  <2>1. (out = Transfer!First(Len(out)) /\ Len(out) \in Nat
           /\ Len(out) <= length)'
    BY OutIsFirst, PTL
  <2>. QED
    BY <2>1 DEF Transfer!First
<1>3. length \in Nat
  BY Types DEF Typed
<1>4. Len(out') \in Len(out) .. length
  BY <1>1, <1>2, <1>3
<1>. QED
  BY <1>2, <1>4 DEF Transfer!Grow

\* A chunk that decrypt() writes, or a part of one, makes the output longer.
LEMMA OutNoShorter ==
  ASSUME StreamInv, Decrypt \/ DecryptFails
  PROVE  Len(out) <= Len(out')
<1>a. Typed
  BY Types
<1>. USE <1>a, BufferAssumption DEF Typed
<1>1. ASSUME NEW e \in Seq(Nat), out' = out \o e
      PROVE  Len(out) <= Len(out')
  <2>1. Len(out') = Len(out) + Len(e) /\ Len(e) \in Nat
    BY <1>1, ConcatProperties, LenProperties
  <2>. QED
    BY <2>1
<1>2. CASE Decrypt
  <2>1. rpc = "decrypt"
    BY <1>2 DEF Decrypt
  <2>2. PICK r \in 1 .. BUFFER_SIZE :
          /\ r <= Len(pipe)
          /\ out' = out \o decryptData(riv, SubSeq(pipe, 1, r), roffset)
    BY <1>2 DEF Decrypt
  <2> DEFINE plain == decryptData(riv, SubSeq(pipe, 1, r), roffset)
  <2>3. plain \in Seq(Nat)
    BY <2>1, <2>2, ChunkDecrypts
  <2>4. out' = out \o plain
    BY <2>2
  <2>. HIDE DEF plain
  <2>. QED
    BY <1>1, <2>3, <2>4
<1>3. CASE DecryptFails /\ out' = out
  BY <1>3
<1>4. CASE DecryptFails /\ out' # out
  <2>1. rpc = "decrypt"
    BY <1>4 DEF DecryptFails
  <2>2. PICK r \in 1 .. BUFFER_SIZE :
          /\ r <= Len(pipe)
          /\ \E n \in 0 .. r - 1 :
               out' = out \o SubSeq(
                 decryptData(riv, SubSeq(pipe, 1, r), roffset), 1, n)
    BY <1>4 DEF DecryptFails
  <2> DEFINE plain == decryptData(riv, SubSeq(pipe, 1, r), roffset)
  <2>3. plain \in Seq(Nat) /\ Len(plain) = r
    BY <2>1, <2>2, ChunkDecrypts
  <2>4. \E n \in 0 .. r - 1 : out' = out \o SubSeq(plain, 1, n)
    BY <2>2
  <2>. HIDE DEF plain
  <2>5. PICK n \in 0 .. r - 1 : out' = out \o SubSeq(plain, 1, n)
    BY <2>4
  <2>6. SubSeq(plain, 1, n) \in Seq(Nat)
    BY <2>3, SubSeqProperties
  <2>. QED
    BY <1>1, <2>5, <2>6
<1>. QED
  BY <1>2, <1>3, <1>4

\* Each step is one of DocumentTransfer's, or is not seen.
LEMMA TransferStep ==
  ASSUME StreamInv, StreamInv', Next
  PROVE  Transfer!Next \/ UNCHANGED TransferVars
<1>1. CASE NewDocument
  <2>1. Transfer!Begin
    BY <1>1 DEF NewDocument, Transfer!Begin, Transfer!Over, Finished
  <2>. QED
    BY <2>1 DEF Transfer!Next
<1>2. CASE Encrypt
  BY <1>2 DEF Encrypt, readerVars, TransferVars, Sender, Receiver
<1>3. CASE EncryptFails \/ EncryptEnd
  <2>1. Transfer!SenderEnds
    BY <1>3 DEF EncryptFails, EncryptEnd, readerVars, Transfer!SenderEnds
  <2>. QED
    BY <2>1 DEF Transfer!Next
<1>4. CASE ReadIv
  BY <1>4 DEF ReadIv, writerVars, TransferVars, Sender, Receiver
<1>5. CASE Decrypt
  <2>1. Transfer!Grow
    <3>1. length' = length
      BY <1>5 DEF Decrypt
    <3>. QED
      BY <1>5, <3>1, OutGrew, OutNoShorter
  <2>2. Transfer!Write
    BY <1>5, <2>1 DEF Decrypt, writerVars, Transfer!Write
  <2>. QED
    BY <2>2 DEF Transfer!Next
<1>6. CASE DecryptFails
  <2>1. Transfer!Grow
    <3>1. length' = length
      BY <1>6 DEF DecryptFails
    <3>. QED
      BY <1>6, <3>1, OutGrew, OutNoShorter
  <2>2. Transfer!ReceiverThrows
    BY <1>6, <2>1 DEF DecryptFails, writerVars, Transfer!ReceiverThrows
  <2>. QED
    BY <2>2 DEF Transfer!Next
<1>7. CASE DecryptEnd
  <2>1. /\ rpc = "decrypt" /\ rpc' = "returned" /\ wpc # "encrypt"
        /\ UNCHANGED <<length, wpc, out>>
    BY <1>7 DEF DecryptEnd, EndOfStream, writerVars
  <2>2. wpc = "returned" => out = Transfer!First(length)
    <3> SUFFICES ASSUME wpc = "returned"
                 PROVE  out = Transfer!First(length)
      OBVIOUS
    <3>1. Len(out) = length
      BY <2>1 DEF StreamInv, RoundTrip
    <3>. QED
      BY <3>1, OutIsFirst
  <2>3. Sender # "running"
    BY <2>1 DEF Sender, StreamInv, TypeOK, Finished
  <2>4. Transfer!ReceiverReturns
    BY <2>1, <2>2, <2>3 DEF Transfer!ReceiverReturns, Sender
  <2>. QED
    BY <2>4 DEF Transfer!Next
<1>. QED
  BY <1>1, <1>2, <1>3, <1>4, <1>5, <1>6, <1>7 DEF Next

\* On a stream without short reads the two sides implement DocumentTransfer:
\* the output is never taken back nor anything but the document, and decrypt()
\* returns after encrypt() is over, with all of it if encrypt() returned.
THEOREM DocumentImplements ==
  ASSUME ShortReads = FALSE
  PROVE  Spec => ImplementsTransfer
<1>1. Init => Transfer!Init
  BY DEF Init, Transfer!Init
<1>2. StreamInv /\ StreamInv' /\ [Next]_vars
        => [Transfer!Next]_(Transfer!transferVars)
  <2> SUFFICES ASSUME StreamInv, StreamInv', [Next]_vars
               PROVE  Transfer!Next \/ UNCHANGED TransferVars
    BY DEF Transfer!transferVars, TransferVars, Sender, Receiver
  <2>1. CASE UNCHANGED vars
    BY <2>1 DEF vars, TransferVars, Sender, Receiver
  <2>2. CASE Next
    BY <2>2, TransferStep
  <2>. QED
    BY <2>1, <2>2
<1>. QED
  BY <1>1, <1>2, StreamCorrect, PTL DEF Spec, ImplementsTransfer, Transfer!Spec
=============================================================================
