--------------------------- MODULE DocumentNatives --------------------------
(***************************************************************************)
(* The native functions of package document, in the form of NativeCode.    *)
(***************************************************************************)
EXTENDS NativeShapes

\* The stream is started, or continued at the offset, in one of two steps.
EncryptedDocumentBuilder_encryptData == EncryptStream(4)

EncryptedDocumentReader_decryptData ==
  DecryptStream(4, <<"ivArrayData", "inputArrayData">>)

EncryptedDocumentBuilder_encryptKey == EncryptKey

EncryptedDocumentReader_decryptKey == DecryptKey

EncryptedDocumentBuilder_generateEncryptionKey == GenerateKey
=============================================================================
