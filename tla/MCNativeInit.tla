---------------------------- MODULE MCNativeInit ----------------------------
(***************************************************************************)
(* Two threads, the registrations of the code and the members that its     *)
(* native functions use.                                                   *)
(***************************************************************************)
EXTENDS NativeInit, NativeIds, CryptNatives, CertNatives, DocumentNatives,
        AgentdNatives

NativeFunctions ==
  {SimpleStreamCipher_encrypt, SimpleStreamCipher_decrypt,
   GenericStreamCipher_encrypt, GenericStreamCipher_decrypt,
   HMAC_digest, HMAC_digestArr, EncryptionKeyPair_generate,
   SigningKeyPair_generate, Key_createFromPassword, Key_createRandom,
   Key_verifyKeySize, SigningPrivateKey_sign, SigningPublicKey_verify,
   CertificateBuilder_emit, CertificateBuilder_sign, CertificateParser_parse,
   CertificateParser_attest, EncryptedCertificateBuilder_encryptData,
   EncryptedCertificateReader_decrypt, EncryptedCertificateBuilder_encryptKey,
   EncryptedCertificateReader_decryptSecret,
   EncryptedCertificateBuilder_generateEncryptionKey,
   EncryptedDocumentBuilder_encryptData, EncryptedDocumentReader_decryptData,
   EncryptedDocumentBuilder_encryptKey, EncryptedDocumentReader_decryptKey,
   EncryptedDocumentBuilder_generateEncryptionKey,
   OuterEnvelopeWriter_encryptPayload, OuterEnvelopeReader_decryptHeader,
   OuterEnvelopeReader_decryptPayload, ProtocolHandlerImpl_computeSharedSecret}

MCUsed ==
  (UNION {f.ids : f \in NativeFunctions}) \cup NativeInitialized \cup
  AllocatorOptions \cup SuiteOptions \cup BuilderOptions

MCThrown == Of("IllegalStateException", {"classid"})
=============================================================================
