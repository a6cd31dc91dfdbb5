---------------------------- MODULE MCNativeCall ----------------------------
(***************************************************************************)
(* All the native functions, called in any order.                          *)
(***************************************************************************)
EXTENDS NativeCall, CryptNatives, CertNatives, DocumentNatives, AgentdNatives

MCCode ==
  [SimpleEncrypt |-> SimpleStreamCipher_encrypt,
   SimpleDecrypt |-> SimpleStreamCipher_decrypt,
   GenericEncrypt |-> GenericStreamCipher_encrypt,
   GenericDecrypt |-> GenericStreamCipher_decrypt,
   Hmac |-> HMAC_digest,
   HmacArr |-> HMAC_digestArr,
   EncryptionPair |-> EncryptionKeyPair_generate,
   SigningPair |-> SigningKeyPair_generate,
   KeyFromPassword |-> Key_createFromPassword,
   RandomKey |-> Key_createRandom,
   VerifyKeySize |-> Key_verifyKeySize,
   Sign |-> SigningPrivateKey_sign,
   Verify |-> SigningPublicKey_verify,
   CertEmit |-> CertificateBuilder_emit,
   CertSign |-> CertificateBuilder_sign,
   CertParse |-> CertificateParser_parse,
   CertAttest |-> CertificateParser_attest,
   CertEncryptData |-> EncryptedCertificateBuilder_encryptData,
   CertDecryptData |-> EncryptedCertificateReader_decrypt,
   CertEncryptKey |-> EncryptedCertificateBuilder_encryptKey,
   CertDecryptKey |-> EncryptedCertificateReader_decryptSecret,
   CertGenerateKey |-> EncryptedCertificateBuilder_generateEncryptionKey,
   DocEncryptData |-> EncryptedDocumentBuilder_encryptData,
   DocDecryptData |-> EncryptedDocumentReader_decryptData,
   DocEncryptKey |-> EncryptedDocumentBuilder_encryptKey,
   DocDecryptKey |-> EncryptedDocumentReader_decryptKey,
   DocGenerateKey |-> EncryptedDocumentBuilder_generateEncryptionKey,
   EncryptPayload |-> OuterEnvelopeWriter_encryptPayload,
   DecryptHeader |-> OuterEnvelopeReader_decryptHeader,
   DecryptPayload |-> OuterEnvelopeReader_decryptPayload,
   SharedSecret |-> ProtocolHandlerImpl_computeSharedSecret]

Hmacs == {"Hmac", "HmacArr"}

\* The functions in which a stream cipher fails with outputArrayData taken.
Streams == {"GenericEncrypt", "GenericDecrypt", "CertEncryptData",
            "CertDecryptData", "DocEncryptData", "DocDecryptData"}

MCLost ==
  [f \in DOMAIN MCCode |->
    [failed |-> IF f \in Hmacs THEN {"mac"}
                ELSE IF f \in Streams THEN {"outputArrayData"}
                ELSE IF f = "CertAttest" THEN {"pubenckey_buffer"} ELSE {},
     passed |-> IF f \in Hmacs THEN {"mac"} ELSE {}]]

MCAuthenticated == {"SimpleDecrypt", "DecryptPayload"}
=============================================================================
