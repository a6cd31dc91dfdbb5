------------------------ MODULE MCEncryptedDocument ------------------------
(***************************************************************************)
(* Model checking of EncryptedDocument, and its refinement of              *)
(* DocumentTransfer.                                                       *)
(***************************************************************************)
EXTENDS EncryptedDocument

\* No chunk, and from one short chunk to more chunks than the buffer holds.
MCLengths == 0 .. 5

Transfer ==
  INSTANCE DocumentTransfer WITH
    sender <- IF wpc = "encrypt" THEN "running" ELSE wpc,
    receiver <- IF rpc \in {"iv", "decrypt"} THEN "running" ELSE rpc

\* encrypt() and decrypt() send a document as DocumentTransfer allows it: the
\* output only ever grows by the next bytes of the document, and decrypt()
\* returns after encrypt() is over, with all of it if encrypt() returned.
ImplementsTransfer == Transfer!Spec
=============================================================================
