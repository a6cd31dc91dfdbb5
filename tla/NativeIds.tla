------------------------------ MODULE NativeIds -----------------------------
(***************************************************************************)
(* The members of Java classes that the native half looks up when it is    *)
(* initialized, class by class: what each register function of a class     *)
(* sets, and the order in which blockchainInit calls them.                 *)
(***************************************************************************)
EXTENDS NativeCode

AttestationException_register ==
  Of("AttestationException", {"classid", "init_String",
                              "init_String_Throwable"})

Certificate_register ==
  Of("Certificate", {"classid", "fromByteArray", "toByteArray"})

CertificateBuilder_register ==
  Of("CertificateBuilder", {"classid", "field_fields", "addByte",
                            "addShort", "addInt", "addLong", "addUUID",
                            "addString", "addDate", "sign"})

CertificateContract_register ==
  Of("CertificateContract", {"classid", "verify"})

CertificateParser_register ==
  Of("CertificateParser", {"classid", "field_certificate", "field_rawSize",
                           "field_size", "init", "parse", "attest"})

CertificateParserDelegate_register ==
  Of("CertificateParserDelegate", {"classid", "resolveEntity",
                                   "resolveArtifactState"})

EncryptionKeyPair_register ==
  Of("EncryptionKeyPair", {"classid", "init", "getPublicKey",
                           "getPrivateKey"})

EncryptionPrivateKey_register ==
  Of("EncryptionPrivateKey", {"classid", "init", "getRawBytes"})

EncryptionPublicKey_register ==
  Of("EncryptionPublicKey", {"classid", "init", "getRawBytes"})

EntityReference_register ==
  Of("EntityReference", {"classid", "init", "getPublicEncryptionKey",
                         "getPublicSigningKey"})

HashMap_initToEntrySet ==
  Of("HashMap", {"classid", "init_int_float", "init_int", "init",
                 "init_Map", "size", "isEmpty", "get", "containsKey",
                 "put", "putAll", "remove", "clear", "containsValue",
                 "keySet", "values", "entrySet"})

HashMap_getOrDefaultToClone ==
  Of("HashMap", {"getOrDefault", "putIfAbsent", "remove_Object_Object",
                 "replace_if", "replace", "computeIfAbsent",
                 "computeIfPresent", "compute", "merge", "forEach",
                 "replaceAll", "clone"})

HashMap_register ==
  HashMap_initToEntrySet \cup HashMap_getOrDefaultToClone

IllegalArgumentException_register ==
  Of("IllegalArgumentException", {"classid", "init", "init_String",
                                  "init_String_Throwable", "init_Throwable"})

IllegalStateException_register ==
  Of("IllegalStateException", {"classid", "init", "init_String",
                               "init_String_Throwable", "init_Throwable"})

Integer_register ==
  Of("Integer", {"classid", "valueOf", "intValue"})

InvalidKeySizeException_register ==
  Of("InvalidKeySizeException", {"classid", "init_String",
                                 "init_String_Throwable"})

\* Mutant: one member is forgotten.
Key_register_NoField ==
  Of("Key", {"classid", "init", "getRawBytes"})

Key_register ==
  Of("Key", {"classid", "init", "getRawBytes", "key"})

LinkedList_initToAddAll ==
  Of("LinkedList", {"classid", "init", "init_Collection", "getFirst",
                    "getLast", "removeFirst", "removeLast", "addFirst",
                    "addLast", "contains", "size", "add", "remove_Object",
                    "addAll_Collection", "addAll_int_Collection"})

LinkedList_clearToPeekFirst ==
  Of("LinkedList", {"clear", "get", "set", "add_int_Object", "remove_int",
                    "indexOf", "lastIndexOf", "peek", "element", "poll",
                    "remove", "offer", "offerFirst", "offerLast",
                    "peekFirst"})

LinkedList_peekLastToSpliterator ==
  Of("LinkedList", {"peekLast", "pollFirst", "pollLast", "push", "pop",
                    "removeFirstOccurrence", "removeLastOccurrence",
                    "listIterator", "descendingIterator", "clone",
                    "toArray", "toArray_Object", "spliterator"})

LinkedList_register ==
  LinkedList_initToAddAll \cup LinkedList_clearToPeekFirst \cup
  LinkedList_peekLastToSpliterator

Message_register ==
  Of("Message", {"classid", "init", "getRawBytes"})

MessageAuthenticationException_register ==
  Of("MessageAuthenticationException", {"classid", "init_String",
                                        "init_String_Throwable"})

MessageVerificationException_register ==
  Of("MessageVerificationException", {"classid", "init_String"})

NullPointerException_register ==
  Of("NullPointerException", {"classid", "init", "init_String"})

Optional_register ==
  Of("Optional", {"classid", "empty", "of", "ofNullable", "get",
                  "isPresent", "ifPresent", "filter", "map", "flatMap",
                  "orElse", "orElseGet", "orElseThrow", "equals",
                  "hashCode", "toString"})

Signature_register ==
  Of("Signature", {"classid", "init", "getSignatureBytes"})

SigningKeyPair_register ==
  Of("SigningKeyPair", {"classid", "init"})

SigningPrivateKey_register ==
  Of("SigningPrivateKey", {"classid", "init", "getRawBytes"})

SigningPublicKey_register ==
  Of("SigningPublicKey", {"classid", "init", "getRawBytes"})

SimpleEntry_register ==
  Of("SimpleEntry", {"classid", "init", "init_Entry", "getKey", "getValue",
                     "setValue", "equals", "hashCode", "toString"})

SimpleStreamCipher_register ==
  Of("SimpleStreamCipher", {"classid", "init", "getKey", "encrypt",
                            "decrypt", "field_key"})

TransactionStatus_register ==
  Of("TransactionStatus", {"classid", "field_PENDING", "field_FAILED",
                           "field_CANCELED", "field_SUCCEEDED",
                           "field_UNKNOWN_DISCONNECTED"})

UUID_register ==
  Of("UUID", {"classid", "init", "randomUUID", "nameUUIDFromBytes",
              "fromString", "getLeastSignificantBits",
              "getMostSignificantBits", "version", "variant", "timestamp",
              "clockSequence", "node", "toString", "hashCode", "equals",
              "compareTo", "compareTo_Object"})

UnknownArtifactException_register ==
  Of("UnknownArtifactException", {"classid", "init_String", "init_UUID"})

UnknownArtifactTypeException_register ==
  Of("UnknownArtifactTypeException", {"classid", "init_String", "init_UUID"})

UnknownEntityException_register ==
  Of("UnknownEntityException", {"classid", "init_String", "init_UUID"})

-----------------------------------------------------------------------------

\* What blockchainInit sets besides the members: the options of the allocator,
\* of the crypto suite and of the certificate builder.
AllocatorOptions == Of("native_inst", {"alloc_opts"})
SuiteOptions == Of("native_inst", {"crypto_suite"})
BuilderOptions == Of("native_inst", {"builder_opts"})

\* The steps of blockchainInit that can fail, with what it sets when they do
\* not.  The first is IllegalStateException because the others throw it; the
\* options of the allocator are set next, and cannot fail.
blockchainInit ==
  <<IllegalStateException_register \cup AllocatorOptions,
    SuiteOptions, BuilderOptions,
    AttestationException_register, Certificate_register,
    CertificateBuilder_register, CertificateContract_register,
    CertificateParser_register, CertificateParserDelegate_register,
    EncryptionKeyPair_register, EncryptionPrivateKey_register,
    EncryptionPublicKey_register, InvalidKeySizeException_register,
    Message_register, MessageVerificationException_register,
    EntityReference_register, HashMap_register,
    IllegalArgumentException_register, Integer_register, Key_register,
    LinkedList_register, MessageAuthenticationException_register,
    NullPointerException_register, Optional_register, SimpleEntry_register,
    Signature_register, SigningKeyPair_register, SigningPrivateKey_register,
    SigningPublicKey_register, SimpleStreamCipher_register,
    TransactionStatus_register, UnknownArtifactException_register,
    UnknownArtifactTypeException_register, UnknownEntityException_register,
    UUID_register>>
=============================================================================
