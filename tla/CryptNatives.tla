---------------------------- MODULE CryptNatives ----------------------------
(***************************************************************************)
(* The native functions of package crypt, in the form of NativeCode.       *)
(***************************************************************************)
EXTENDS NativeShapes

KeyMembers ==
  Of("SimpleStreamCipher", {"field_key"}) \cup Of("Key", {"getRawBytes"})

-----------------------------------------------------------------------------
(* SimpleStreamCipher: the data under a session key, the session key under *)
(* the key of the cipher, both under a MAC.                                *)

SimpleEncrypt_key ==
  Tries(2, Done) \o <<Take("inputData", Done)>> \o Tries(2, "inputData") \o
  Takes(<<"keyBytesData", "keyBuffer">>, "inputData") \o <<Try("keyBuffer")>>

\* Mutant: a label that is too far up.
SimpleEncrypt_session_LabelUp ==
  Takes(<<"outputArrayData", "prng", "sessionKeyBuffer", "sessionIVBuffer",
          "streamIVBuffer">>, "keyBuffer") \o
  Tries(3, "mac") \o
  Takes(<<"mac", "block">>, "streamIVBuffer") \o Tries(2, "block")

SimpleEncrypt_session ==
  Takes(<<"outputArrayData", "prng", "sessionKeyBuffer", "sessionIVBuffer",
          "streamIVBuffer">>, "keyBuffer") \o
  Tries(3, "streamIVBuffer") \o
  Takes(<<"mac", "block">>, "streamIVBuffer") \o Tries(2, "block")

SimpleStreamCipher_encrypt ==
  Function(
    SimpleEncrypt_key \o SimpleEncrypt_session \o
    <<Take("stream", "block")>> \o Tries(3, "stream") \o
    <<Take("macBuffer", "stream"), Try("macBuffer"), Result>>,
    <<"macBuffer", "stream", "block", "mac", "streamIVBuffer",
      "sessionIVBuffer", "sessionKeyBuffer", "prng", "outputArrayData",
      "keyBuffer", "keyBytesData", "inputData">>,
    {}, Checks \cup KeyMembers)

SimpleDecrypt_key ==
  Tries(2, Done) \o <<Take("inputData", Done)>> \o Tries(2, "inputData") \o
  Takes(<<"keyBytesData", "keyBuffer">>, "inputData") \o Tries(2, "keyBuffer")

\* The session key, with which the MAC is made, is decrypted before the MAC
\* is compared, the data after.
SimpleStreamCipher_decrypt ==
  Function(
    SimpleDecrypt_key \o
    Takes(<<"outputArrayData", "sessionKeyBuffer", "block">>, "keyBuffer") \o
    <<Unwrap("block"), Take("mac", "block"), Try("mac"),
      Take("macBuffer", "mac"), Try("macBuffer"), Verify("macBuffer"),
      Take("stream", "macBuffer"), Try("stream"), Decrypt("stream"), Result>>,
    <<"stream", "macBuffer", "mac", "block", "sessionKeyBuffer",
      "outputArrayData", "keyBuffer", "keyBytesData", "inputData">>,
    {}, Checks \cup KeyMembers \cup
    Of("MessageAuthenticationException", {"classid"}))

-----------------------------------------------------------------------------
(* GenericStreamCipher: the key and the IV are the caller's.               *)

GenericStreamCipher_encrypt == EncryptStream(5)

GenericStreamCipher_decrypt == DecryptStream(4, <<"inputArrayData">>)

-----------------------------------------------------------------------------
(* HMAC over one array and over an array of arrays.                        *)

HMAC_digest ==
  Function(
    Tries(3, Done) \o Takes(<<"key_bytes", "key_buffer", "mac">>, Done) \o
    <<Take("message_bytes", "key_buffer"), Try("message_bytes"),
      Take("mac_buffer", "message_bytes")>> \o Tries(2, "mac_buffer") \o
    <<Result, Take("retval_bytes", "mac_buffer"), Give("retval_bytes")>>,
    <<"mac_buffer", "message_bytes", "key_buffer", "key_bytes">>,
    {}, Checks)

HMAC_digestArr ==
  Function(
    Tries(3, Done) \o Takes(<<"key_bytes", "key_buffer", "mac">>, Done) \o
    <<Branch({1, 7}), Get("msg_arr"),
      Take("msg_bytes", "key_buffer"), TryOrGive("msg_bytes", "key_buffer"),
      Give("msg_bytes"), Give("msg_arr"), Branch({-6}),
      Take("mac_buffer", "key_buffer")>> \o Tries(2, "mac_buffer") \o
    <<Result, Take("retval_bytes", "mac_buffer"), Give("retval_bytes")>>,
    <<"mac_buffer", "key_buffer", "key_bytes">>,
    {"msg_arr"}, Checks)

-----------------------------------------------------------------------------
(* Keys.  The arrays that hold the halves of a pair are local references.  *)

EncryptionKeyPair_generate ==
  Function(
    <<Try(Done)>> \o Takes(<<"ka", "priv", "pub">>, Done) \o <<Try("pub")>> \o
    NewArray("privArray", "privArrayData", "pub") \o
    NewArray("pubArray", "pubArrayData", "privArray") \o
    Takes(<<"privKey", "pubKey">>, "pubArray") \o <<Try("pubKey"), Result>>,
    <<"pubKey", "privKey", "pubArray", "privArray", "pub", "priv", "ka">>,
    {"privArray", "pubArray", "privKey", "pubKey"},
    Of("IllegalStateException", {"classid"}) \cup
    Of("EncryptionPrivateKey", {"classid", "init"}) \cup
    Of("EncryptionPublicKey", {"classid", "init"}) \cup
    Of("EncryptionKeyPair", {"classid", "init"}))

SigningKeyPair_generate ==
  Function(
    <<Try(Done)>> \o Takes(<<"sign", "priv", "pub">>, Done) \o <<Try("pub")>> \o
    NewArray("privArray", "privArrayData", "pub") \o
    NewArray("pubArray", "pubArrayData", "privArray") \o
    Tries(3, "pubArray") \o <<Result>>,
    <<"pubArray", "privArray", "pub", "priv", "sign">>,
    {"privArray", "pubArray"},
    Of("IllegalStateException", {"classid"}) \cup
    Of("SigningPrivateKey", {"classid", "init"}) \cup
    Of("SigningPublicKey", {"classid", "init"}) \cup
    Of("SigningKeyPair", {"classid", "init"}))

Key_createFromPassword ==
  Function(
    <<Try(Done)>> \o
    Takes(<<"kd_options", "kd", "password", "password_buffer", "salt",
            "salt_buffer", "key_buffer">>, Done) \o Tries(2, "key_buffer") \o
    <<Take("outputArrayData", "key_buffer"), Result, Give("outputArrayData")>>,
    <<"key_buffer", "salt_buffer", "salt", "password_buffer", "password",
      "kd", "kd_options">>,
    {}, Checks)

Key_createRandom ==
  Function(
    <<Try(Done)>> \o Takes(<<"keyBuffer", "prng">>, Done) \o <<Try("prng")>> \o
    NewArray("outputArray", "outputArrayData", "prng") \o
    <<Try("outputArray"), Result>>,
    <<"outputArray", "prng", "keyBuffer">>,
    {"outputArray"}, Checks \cup Of("Key", {"classid", "init"}))

Key_verifyKeySize ==
  Function(
    Tries(2, Done) \o <<Result>>, << >>, {},
    Of("IllegalStateException", {"classid"}) \cup
    Of("Key", {"key"}) \cup
    Of("InvalidKeySizeException", {"classid"}))

-----------------------------------------------------------------------------
(* Signatures.                                                             *)

SigningPrivateKey_sign ==
  Function(
    Tries(2, Done) \o <<Take("private_key", Done), Try("private_key")>> \o
    Takes(<<"privkey", "private_key_bytes", "sign", "message_array",
            "message_bytes", "signature">>, "private_key") \o
    <<Try("signature"), Take("sign_out", "signature"),
      Take("sign_out_bytes", "sign_out"), Give("sign_out_bytes"),
      Try("sign_out"), Result>>,
    <<"sign_out", "signature", "message_bytes", "message_array", "sign",
      "private_key_bytes", "privkey", "private_key">>,
    {"private_key", "message_array", "sign_out"},
    Checks \cup Of("SigningPrivateKey", {"getRawBytes"}) \cup
    Of("Message", {"getRawBytes"}) \cup
    Of("Signature", {"classid", "init"}))

\* Mutant: true is assigned before the signature is verified.
SigningPublicKey_verify_TrueFirst ==
  Function(
    Tries(3, Done) \o <<Take("public_key", Done), Try("public_key")>> \o
    Takes(<<"pubkey", "public_key_bytes", "sign", "message_array",
            "message_bytes", "sign_buf", "signature_array">>, "public_key") \o
    <<Quiet("signature_array"), Take("signature_array_bytes", "signature_array"),
      Result, Quiet("signature_array_bytes")>>,
    <<"signature_array_bytes", "signature_array", "sign_buf", "message_bytes",
      "message_array", "sign", "public_key_bytes", "pubkey", "public_key">>,
    {"public_key", "message_array", "signature_array"},
    Checks \cup Of("SigningPublicKey", {"getRawBytes"}) \cup
    Of("Message", {"getRawBytes"}) \cup
    Of("Signature", {"getSignatureBytes"}))

\* A signature of the wrong size, or one that is not right, is an answer.
SigningPublicKey_verify ==
  Function(
    Tries(3, Done) \o <<Take("public_key", Done), Try("public_key")>> \o
    Takes(<<"pubkey", "public_key_bytes", "sign", "message_array",
            "message_bytes", "sign_buf", "signature_array">>, "public_key") \o
    <<Quiet("signature_array"), Take("signature_array_bytes", "signature_array"),
      Quiet("signature_array_bytes"), Result>>,
    <<"signature_array_bytes", "signature_array", "sign_buf", "message_bytes",
      "message_array", "sign", "public_key_bytes", "pubkey", "public_key">>,
    {"public_key", "message_array", "signature_array"},
    Checks \cup Of("SigningPublicKey", {"getRawBytes"}) \cup
    Of("Message", {"getRawBytes"}) \cup
    Of("Signature", {"getSignatureBytes"}))
=============================================================================
