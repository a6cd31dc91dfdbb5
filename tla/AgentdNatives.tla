---------------------------- MODULE AgentdNatives ---------------------------
(***************************************************************************)
(* The native functions of package agentd, in the form of NativeCode: the  *)
(* outer envelope and the shared secret of the handshake.                  *)
(***************************************************************************)
EXTENDS NativeShapes

\* The header and the payload are encrypted and then digested, in turn.
OuterEnvelopeWriter_encryptPayload ==
  Function(
    Tries(3, Done) \o
    Takes(<<"digest", "packet", "shared_secret_bytes",
            "shared_secret_buffer", "stream_cipher", "mac">>,
          Done) \o
    Tries(3, "mac") \o
    Takes(<<"payload_bytes", "payload_buffer">>, "mac") \o
    Tries(4, "payload_buffer") \o
    <<Result, Take("retval_bytes", "payload_buffer"), Give("retval_bytes")>>,
    <<"payload_buffer", "payload_bytes", "mac", "stream_cipher",
      "shared_secret_buffer", "shared_secret_bytes", "packet", "digest">>,
    {}, Checks)

OuterEnvelopeReader_decryptHeader ==
  Function(
    Tries(4, Done) \o
    Takes(<<"shared_secret_bytes", "shared_secret_buffer", "header_bytes",
            "header_buffer", "dheader_buffer", "stream_cipher">>, Done) \o
    <<Try("stream_cipher"), Decrypt("stream_cipher")>> \o
    Tries(2, "stream_cipher") \o <<Result>>,
    <<"stream_cipher", "dheader_buffer", "header_buffer", "header_bytes",
      "shared_secret_buffer", "shared_secret_bytes">>,
    {}, Checks)

\* Mutants: a label that is too far down; the digests are not compared.
DecryptPayload_verify_LabelDown ==
  Tries(4, Done) \o
  Takes(<<"shared_secret_bytes", "shared_secret_buffer", "header_bytes",
          "header_buffer", "payload_bytes", "payload_buffer">>, Done) \o
  <<Try("payload_buffer")>> \o
  Takes(<<"mac_instance", "digest_buffer">>, "payload_buffer") \o
  Tries(2, "mac_instance") \o <<Verify("digest_buffer")>>

DecryptPayload_verify_NotCompared ==
  Tries(4, Done) \o
  Takes(<<"shared_secret_bytes", "shared_secret_buffer", "header_bytes",
          "header_buffer", "payload_bytes", "payload_buffer">>, Done) \o
  <<Try("payload_buffer")>> \o
  Takes(<<"mac_instance", "digest_buffer">>, "payload_buffer") \o
  Tries(2, "digest_buffer")

\* The MAC covers the header, as it was received, and the payload.
DecryptPayload_verify ==
  Tries(4, Done) \o
  Takes(<<"shared_secret_bytes", "shared_secret_buffer", "header_bytes",
          "header_buffer", "payload_bytes", "payload_buffer">>, Done) \o
  <<Try("payload_buffer")>> \o
  Takes(<<"mac_instance", "digest_buffer">>, "payload_buffer") \o
  Tries(2, "digest_buffer") \o <<Verify("digest_buffer")>>

OuterEnvelopeReader_decryptPayload ==
  Function(
    DecryptPayload_verify \o
    Takes(<<"dpayload_buffer", "stream_cipher">>, "digest_buffer") \o
    <<Try("stream_cipher"), Decrypt("stream_cipher"), Try("stream_cipher"),
      Result, Take("retval_bytes", "stream_cipher"), Give("retval_bytes")>>,
    <<"stream_cipher", "dpayload_buffer", "digest_buffer", "mac_instance",
      "payload_buffer", "payload_bytes", "header_buffer", "header_bytes",
      "shared_secret_buffer", "shared_secret_bytes">>,
    {}, Checks \cup Of("MessageVerificationException", {"classid"}))

ComputeSharedSecret_inputs ==
  Tries(5, Done) \o
  Takes(<<"client_private_key_bytes", "client_private_key_buffer",
          "server_public_key_bytes", "server_public_key_buffer",
          "server_nonce_bytes", "server_nonce_buffer", "client_nonce_bytes",
          "client_nonce_buffer">>, Done)

ProtocolHandlerImpl_computeSharedSecret ==
  Function(
    ComputeSharedSecret_inputs \o
    Takes(<<"shared_secret_buffer", "key_agreement">>, "client_nonce_buffer") \o
    Tries(2, "key_agreement") \o
    <<Result, Take("retval_bytes", "key_agreement"), Give("retval_bytes")>>,
    <<"key_agreement", "shared_secret_buffer", "client_nonce_buffer",
      "client_nonce_bytes", "server_nonce_buffer", "server_nonce_bytes",
      "server_public_key_buffer", "server_public_key_bytes",
      "client_private_key_buffer", "client_private_key_bytes">>,
    {}, Checks)
=============================================================================
