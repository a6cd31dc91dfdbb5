---------------------------- MODULE NativeShapes ----------------------------
(***************************************************************************)
(* What several native functions have in common.  A resource has the name  *)
(* of its variable or of the label where it is released.                   *)
(***************************************************************************)
EXTENDS NativeCode

\* What nearly every function throws with.
Checks ==
  Of("IllegalStateException", {"classid"}) \cup
  Of("NullPointerException", {"classid"})

KeyPair ==
  Of("EncryptionPrivateKey", {"getRawBytes"}) \cup
  Of("EncryptionPublicKey", {"getRawBytes"})

\* A new Java array that takes the bytes of a buffer.
NewArray(array, data, to) == <<Take(array, to), Take(data, array), Give(data)>>

\* Encryption under a key and an IV that the caller gives, after n checks of
\* the arguments.  outputArrayData has no label of its own.
EncryptStream(n) ==
  Function(
    Tries(n, Done) \o
    Takes(<<"keyBuffer", "keyArrayData", "ivArrayData", "inputArrayData",
            "stream">>, Done) \o
    <<Try("stream"), Take("outputArrayData", "stream")>> \o
    Tries(2, "stream") \o <<Give("outputArrayData"), Result>>,
    <<"stream", "inputArrayData", "ivArrayData", "keyArrayData", "keyBuffer">>,
    {}, Checks)

\* Decryption; taken are the arrays of the arguments.
DecryptStream(n, taken) ==
  Function(
    Tries(n, Done) \o
    Takes(<<"keyBuffer", "secretKeyArrayData">> \o taken \o <<"stream">>, Done) \o
    <<Try("stream"), Take("outputArrayData", "stream"), Try("stream"),
      Decrypt("stream"), Give("outputArrayData"), Result>>,
    <<"stream", "inputArrayData">> \o
    (IF Len(taken) = 2 THEN <<"ivArrayData">> ELSE << >>) \o
    <<"secretKeyArrayData", "keyBuffer">>,
    {}, Checks)

\* The long term secret of one's private key and another's public key.
KeyAgreement ==
  Tries(4, Done) \o
  Takes(<<"keyArrayData", "privateKeyArray", "privateKeyArrayData",
          "privateKeyBuffer", "publicKeyArray", "publicKeyArrayData",
          "publicKeyBuffer", "keyBuffer", "ka">>, Done) \o <<Try("ka")>>

AgreementCleanup ==
  <<"ka", "keyBuffer", "publicKeyBuffer", "publicKeyArrayData",
    "publicKeyArray", "privateKeyBuffer", "privateKeyArrayData",
    "privateKeyArray", "keyArrayData">>

\* A secret key is encrypted under that secret and a fresh IV,
EncryptKey ==
  Function(
    KeyAgreement \o Takes(<<"prng", "ivBuffer">>, "ka") \o
    Tries(2, "ivBuffer") \o
    Takes(<<"outputArrayData", "block">>, "ivBuffer") \o
    Tries(2, "block") \o <<Result>>,
    <<"block", "outputArrayData", "ivBuffer", "prng">> \o AgreementCleanup,
    {"privateKeyArray", "publicKeyArray"}, Checks \cup KeyPair)

\* and decrypted.
DecryptKey ==
  Function(
    KeyAgreement \o <<Try("ka")>> \o
    Takes(<<"outputArrayData", "block">>, "ka") \o
    <<Unwrap("block"), Unwrap("block"), Result>>,
    <<"block", "outputArrayData">> \o AgreementCleanup,
    {"privateKeyArray", "publicKeyArray"}, Checks \cup KeyPair)

\* A random secret key.
GenerateKey ==
  Function(
    <<Try(Done)>> \o Takes(<<"randomKey", "prng">>, Done) \o
    Tries(2, "prng") \o
    <<Take("keyArrayData", "prng"), Give("keyArrayData"), Result>>,
    <<"prng", "randomKey">>, {}, Checks)
=============================================================================
