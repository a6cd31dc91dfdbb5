---------------------- MODULE MCRemoteAgentConnection ----------------------
(***************************************************************************)
(* Model checking of RemoteAgentConnection, and its refinement of          *)
(* VelochainService.                                                       *)
(***************************************************************************)
EXTENDS RemoteAgentConnection

\* Below the three words, the three words alone, with a UUID, and beyond what
\* decryptHeader lets through.
MCReplySizes == {8, 12, 28, MaxPayload + 1}

MCIvHalf == 100

Service ==
  INSTANCE VelochainService WITH
    Ops <- Ops \cup {"connect"},
    Exceptions <- Exceptions,
    Answers <- Answers,
    issued <- calls

\* Every behaviour of the connection is one that the service allows: calls
\* are carried out at most once and in order, and what a call returns is the
\* agent's answer to that call.
ImplementsService == Service!Spec
=============================================================================
