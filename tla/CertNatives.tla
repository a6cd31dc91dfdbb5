---------------------------- MODULE CertNatives -----------------------------
(***************************************************************************)
(* The native functions of package cert, in the form of NativeCode.        *)
(***************************************************************************)
EXTENDS NativeShapes

-----------------------------------------------------------------------------
(* CertificateBuilder: the fields are read from a Java list, one by one.   *)

FieldMembers ==
  Of("CertificateBuilder", {"field_fields"}) \cup
  Of("LinkedList", {"size", "get"}) \cup
  Of("SimpleEntry", {"getKey", "getValue"}) \cup
  Of("Integer", {"intValue"}) \cup
  Of("Certificate", {"classid", "fromByteArray"})

AddFields ==
  <<Take("builder", Done), Branch({1, 5}), Get("field_val"),
    TryOrGive("field_val", "builder"), Give("field_val"), Branch({-4})>>

\* The certificate is copied to an array that nobody looks at for null.
CertificateBuilder_emit ==
  Function(
    Tries(2, Done) \o AddFields \o
    <<Try("builder"), Get("outData"), Give("outData"), Try("builder"), Result>>,
    <<"builder">>,
    {}, Of("IllegalStateException", {"classid"}) \cup FieldMembers)

CertificateBuilder_sign ==
  Function(
    Tries(4, Done) \o AddFields \o
    <<Take("priv", "builder"), Try("priv"), Get("priv_bytes"),
      Give("priv_bytes"), Get("signer_id_bytes")>> \o
    Tries(2, "signer_id_bytes") \o
    <<Get("outData"), Give("outData"), Try("signer_id_bytes"), Result>>,
    <<"signer_id_bytes", "priv", "builder">>,
    {}, Checks \cup FieldMembers \cup
        Of("IllegalArgumentException", {"classid"}))

-----------------------------------------------------------------------------
(* CertificateParser.  bufferPtr holds the bytes of the certificate, for   *)
(* as long as the parser of vccert, which points into them.                *)

\* A field is put into the list, and so is the next one, until vccert has no
\* next one: because there is none, or because what follows is no field.
\* Nobody looks which, and the list is returned either way.
ParseFields ==
  Repeat(<<Get("byteArray"), Get("key"), Get("entry"),
           Give("key"), Give("entry"), Give("byteArray")>>)

CertificateParser_parse ==
  Function(
    Tries(2, Done) \o
    <<Take("parser_options", Done), Get("bufferPtr"),
      Take("parser", "bufferPtr"), Try("parser")>> \o
    ParseFields \o <<Result>>,
    <<"parser", "bufferPtr", "parser_options">>,
    {"byteArray", "key", "entry"}, Checks \cup
        Of("LinkedList", {"classid", "init", "add"}) \cup
        Of("Integer", {"classid", "valueOf"}) \cup
        Of("SimpleEntry", {"classid", "init"}) \cup
        Of("IllegalArgumentException", {"classid"}))

\* A key of the signer, from the array that the delegate's answer has it in.
\* The elements are taken without a look at whether they were.
EntityKey(buffer) ==
  <<Get("array"), Take(buffer, "parser"),
    Get("bufferData"), Give("bufferData"), Give("array")>>

\* attest_entity_key_resolver, which vccert calls during the attestation if the
\* certificate has come as far as that.  It says false when it fails, which
\* ends the attestation; vccert disposes of the two buffers when it is done
\* with them, but only of those of a resolver that said true.
ResolveEntity ==
  Maybe(<<Try("parser"), Take("entref", "parser")>> \o
        EntityKey("pubenckey_buffer") \o EntityKey("pubsignkey_buffer") \o
        <<Give("entref"), Give("pubenckey_buffer"), Give("pubsignkey_buffer")>>)

\* The last step that can fail is the rest of the attestation.
CertificateParser_attest ==
  Function(
    Tries(2, Done) \o
    <<Take("parser_options", Done), Get("bufferPtr"),
      Take("parser", "bufferPtr")>> \o
    ResolveEntity \o <<Try("parser"), Result>>,
    <<"parser", "bufferPtr", "parser_options">>,
    {"entref", "array"}, Checks \cup
        Of("CertificateParser",
           {"field_rawSize", "field_certificate", "field_size"}) \cup
        Of("IllegalArgumentException", {"classid"}) \cup
        Of("AttestationException", {"classid", "init_String_Throwable"}) \cup
        Of("CertificateParserDelegate", {"resolveEntity"}) \cup
        Of("UnknownEntityException", {"classid", "init_UUID"}) \cup
        Of("EntityReference",
           {"getPublicEncryptionKey", "getPublicSigningKey"}) \cup
        Of("UUID", {"classid", "init"}))

-----------------------------------------------------------------------------
(* EncryptedCertificateBuilder and EncryptedCertificateReader.             *)

EncryptedCertificateBuilder_encryptData == EncryptStream(4)

EncryptedCertificateReader_decrypt == DecryptStream(3, <<"inputArrayData">>)

EncryptedCertificateBuilder_encryptKey == EncryptKey

EncryptedCertificateReader_decryptSecret == DecryptKey

EncryptedCertificateBuilder_generateEncryptionKey == GenerateKey
=============================================================================
