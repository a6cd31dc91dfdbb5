---------------------------- MODULE Certificate ----------------------------
(***************************************************************************)
(* A certificate from its builder to its reader: fields are added, plain   *)
(* or encrypted, and the secret key for those who may decrypt them; it is  *)
(* signed or emitted; on its way it may be altered; it is parsed, attested *)
(* with the help of a delegate, and read.                                  *)
(*                                                                         *)
(* A certificate is a sequence of fields, each an id and a value, and its  *)
(* size is their number.  The builder holds the key pair of one entity and *)
(* one secret key; who reads is an entity with its own key pair, who knows *)
(* the builder's public key.                                               *)
(***************************************************************************)
EXTENDS Integers, Sequences, FiniteSets

CONSTANTS
  Ids,       \* the field ids that callers use
  Values,    \* byte arrays
  Empty,     \* the one of them that has no bytes
  Entities,
  MaxCalls   \* bound: calls of the builder

\* Field: ids that mean something.
CERTIFICATE_VERSION == 1
CERTIFICATE_CRYPTO_SUITE == 32
CERTIFICATE_TYPE == 48
SIGNER_ID == 80
SIGNATURE == 81
SHARED_SECRET_FRAGMENT == 160

Reserved == {CERTIFICATE_VERSION, CERTIFICATE_CRYPTO_SUITE, CERTIFICATE_TYPE,
             SIGNER_ID, SIGNATURE, SHARED_SECRET_FRAGMENT}

\* A uint16_t.
FieldIds == 0 .. 65535

ASSUME CertificateAssumption ==
  /\ Ids \subseteq FieldIds \ Reserved
  /\ Empty \in Values
  /\ MaxCalls \in Nat

VARIABLES
  fields,     \* CertificateBuilder
  calls,      \* number of its calls
  iv,         \* EncryptedCertificateBuilder
  added,      \* history: what was added, by the ids that the callers gave
  made,       \* history: the certificates, with who signed them
  parser,     \* CertificateParser, or None
  attesting,  \* where attest() is; what it threw and returned last
  attestedBy, \* history: the signer whom the last attest() that passed found
  reader      \* EncryptedCertificateReader, or None

vars == <<fields, calls, iv, added, made, parser, attesting, attestedBy, reader>>

None == [kind |-> "none"]

Plain(v) == [kind |-> "plain", of |-> v]
Encrypted(v, n) == [kind |-> "encrypted", of |-> v, iv |-> n]
Secret(e) == [kind |-> "secret", to |-> e]
Uuid(e) == [kind |-> "uuid", of |-> e]
Signature(e, over) == [kind |-> "signature", by |-> e, over |-> over]

\* Mutant of Short: the cast is missing.
Short_NoCast(id) == id

\* (int)(short): what the builder keeps of an id,
Short(id) == ((id + 32768) % 65536) - 32768

\* Mutant of Wire: jshort instead of uint16_t.
Wire_Signed(id) == id

\* and what is written to a certificate and read from it, a uint16_t.
Wire(id) == id % 65536

Entry(id, value) == [id |-> id, value |-> value]

\* createCertificateBuilder
Defaults ==
  <<Entry(CERTIFICATE_VERSION, Plain("version")),
    Entry(CERTIFICATE_CRYPTO_SUITE, Plain("suite")),
    Entry(CERTIFICATE_TYPE, Plain("type"))>>

Init ==
  /\ fields = Defaults /\ added = Defaults /\ calls = 0 /\ iv = 0
  /\ made = {}
  /\ parser = None /\ reader = None
  /\ attesting = [pc |-> "new", contract |-> FALSE, threw |-> "none",
                  result |-> FALSE]
  /\ attestedBy = None

-----------------------------------------------------------------------------
(* The builder.  It has nothing to do with what becomes of its             *)
(* certificates: it stops when the first is received.                      *)

Building == parser = None /\ calls < MaxCalls /\ calls' = calls + 1

addByteArray(id, value) ==
  /\ fields' = Append(fields, Entry(Short(id), value))
  /\ added' = Append(added, Entry(id, value))

Add(id, v) ==
  /\ Building
  /\ addByteArray(id, Plain(v))
  /\ UNCHANGED <<iv, made, parser, attesting, attestedBy, reader>>

\* iv++ is evaluated before the native function is called, which may throw.
AddEncrypted(id, v) ==
  /\ Building
  /\ iv' = iv + 1
  /\ addByteArray(id, Encrypted(v, iv))
  /\ UNCHANGED <<made, parser, attesting, attestedBy, reader>>

AddEncryptedFails ==
  /\ Building
  /\ iv' = iv + 1
  /\ UNCHANGED <<fields, added, made, parser, attesting, attestedBy, reader>>

AddSharedSecret(e) ==
  /\ Building
  /\ addByteArray(SHARED_SECRET_FRAGMENT, Secret(e))
  /\ UNCHANGED <<iv, made, parser, attesting, attestedBy, reader>>

\* The native half writes what the list holds, in its order.
Written == [i \in 1 .. Len(fields) |-> [fields[i] EXCEPT !.id = Wire(@)]]

\* Mutant of Make: the builder starts anew.
Make_ResetsIv(cert, signer) ==
  /\ Building
  /\ made' = made \cup {[cert |-> cert, signer |-> signer, added |-> added]}
  /\ iv' = 0
  /\ UNCHANGED <<fields, added, parser, attesting, attestedBy, reader>>

Make(cert, signer) ==
  /\ Building
  /\ made' = made \cup {[cert |-> cert, signer |-> signer, added |-> added]}
  /\ UNCHANGED <<fields, iv, added, parser, attesting, attestedBy, reader>>

Emit == Make(Written, None)

\* The signer's id is added and signed with the rest.
Sign(e) ==
  LET over == Append(Written, Entry(SIGNER_ID, Uuid(e)))
  IN  Make(Append(over, Entry(SIGNATURE, Signature(e, over))), Uuid(e))

-----------------------------------------------------------------------------
(* On the way.  What arrives begins like one certificate and ends like     *)
(* another, the same or not; where they meet a field may be missing, there *)
(* twice, or new.                                                          *)

NewFields ==
  {<< >>} \cup
  {<<Entry(id, Plain(Empty))>> : id \in Ids} \cup
  {<<Entry(SIGNER_ID, Uuid(e))>> : e \in Entities}

Receive(m, n, i, j, new) ==
  LET cert == SubSeq(m.cert, 1, i) \o new \o SubSeq(n.cert, j, Len(n.cert))
  IN  /\ parser = None
      /\ parser' = [kind |-> "parser", certificate |-> cert,
                    size |-> Len(cert), rawSize |-> Len(cert)]
      /\ UNCHANGED <<fields, calls, iv, added, made, attesting, attestedBy, reader>>

-----------------------------------------------------------------------------
(* attest().  The native half looks at the certificate that it took when   *)
(* it was called, all of it.  It is not followed further when a reader was *)
(* made: that has what it has.                                             *)

Attesting(pcs) == parser # None /\ reader = None /\ attesting.pc \in pcs

Raw == SubSeq(parser.certificate, 1, parser.rawSize)

Places(cert, id) == {i \in 1 .. Len(cert) : cert[i].id = id}
First(S) == CHOOSE i \in S : \A j \in S : i <= j

SignerId == Raw[First(Places(Raw, SIGNER_ID))].value
SignatureAt == First(Places(Raw, SIGNATURE))

\* attest() returns, or throws.
Return(threw, result) ==
  attesting' = [pc |-> "over", contract |-> FALSE, threw |-> threw,
                result |-> result]

Go(pc, threw) ==
  attesting' = [pc |-> pc, contract |-> attesting.contract, threw |-> threw,
                result |-> FALSE]

Attest(contract) ==
  /\ Attesting({"new", "over"})
  /\ Places(Raw, SIGNER_ID) # {} /\ Places(Raw, SIGNATURE) # {}
  /\ attesting' = [pc |-> "resolve", contract |-> contract, threw |-> "none",
                   result |-> FALSE]
  /\ UNCHANGED <<fields, calls, iv, added, made, parser, attestedBy, reader>>

\* No signer, no signature, not a certificate, no memory.
AttestFails ==
  /\ Attesting({"new", "over", "verify"})
  /\ Return("exception", FALSE)
  /\ UNCHANGED <<fields, calls, iv, added, made, parser, attestedBy, reader>>

\* The delegate finds the entity: its keys are copied.
Resolve ==
  /\ Attesting({"resolve"})
  /\ Go("verify", "none")
  /\ UNCHANGED <<fields, calls, iv, added, made, parser, attestedBy, reader>>

\* It throws, it returns null, or no buffer is to be had for the keys.
DelegateThrows ==
  /\ Attesting({"resolve"})
  /\ Go("unresolved", "UnknownEntityException")
  /\ UNCHANGED <<fields, calls, iv, added, made, parser, attestedBy, reader>>

DelegateReturnsNull ==
  /\ Attesting({"resolve"})
  /\ Go("unresolved", "UnknownEntityException")
  /\ UNCHANGED <<fields, calls, iv, added, made, parser, attestedBy, reader>>

ResolveFails ==
  /\ Attesting({"resolve"})
  /\ Go("unresolved", "exception")
  /\ UNCHANGED <<fields, calls, iv, added, made, parser, attestedBy, reader>>

\* VCCERT_ERROR_PARSER_ATTEST_MISSING_SIGNING_CERT: nothing is thrown here.
MissingSigningCert ==
  /\ Attesting({"unresolved"})
  /\ Return(attesting.threw, FALSE)
  /\ UNCHANGED <<fields, calls, iv, added, made, parser, attestedBy, reader>>

\* The signature is the signer's, of all that is before it.
SignatureFits ==
  Raw[SignatureAt].value =
    Signature(SignerId.of, SubSeq(Raw, 1, SignatureAt - 1))

\* Mutant of AttestPasses: the size stays.
AttestPasses_KeepsSize ==
  /\ Attesting({"verify"})
  /\ SignatureFits /\ ~attesting.contract
  /\ attestedBy' = SignerId
  /\ Return("none", TRUE)
  /\ UNCHANGED <<fields, calls, iv, added, made, parser, reader>>

\* The size is set to what was signed.  A contract is never found.
AttestPasses ==
  /\ Attesting({"verify"})
  /\ SignatureFits /\ ~attesting.contract
  /\ parser' = [parser EXCEPT !.size = SignatureAt - 1]
  /\ attestedBy' = SignerId
  /\ Return("none", TRUE)
  /\ UNCHANGED <<fields, calls, iv, added, made, reader>>

AttestRefuses ==
  /\ Attesting({"verify"})
  /\ ~SignatureFits \/ attesting.contract
  /\ Return("exception", FALSE)
  /\ UNCHANGED <<fields, calls, iv, added, made, parser, attestedBy, reader>>

-----------------------------------------------------------------------------
(* The reader.                                                             *)

\* The place that k of the places do not come after.
Nth(S, k) == CHOOSE i \in S : Cardinality({j \in S : j <= i}) = k

\* What the parser gives for an id: the values of its fields in their order.
ValuesOf(cert, id) ==
  LET places == Places(cert, id)
  IN  [k \in 1 .. Cardinality(places) |-> cert[Nth(places, k)].value]

\* parse(): the fields up to size.
Parsed == SubSeq(parser.certificate, 1, parser.size)

\* A reader may be made before attest(), after it, or by the delegate in
\* between.
Read(e) ==
  /\ parser # None /\ reader = None
  /\ Parsed # << >>
  /\ reader' = [kind |-> "reader", uuid |-> e, secretKey |-> "none",
                certFields |-> [id \in {Parsed[i].id : i \in DOMAIN Parsed} |->
                                 ValuesOf(Parsed, id)],
                attestedBy |-> attestedBy]
  /\ UNCHANGED <<fields, calls, iv, added, made, parser, attesting, attestedBy>>

\* CertificateReader.get() for every index.
Get(id) ==
  IF id \in DOMAIN reader.certFields THEN reader.certFields[id] ELSE << >>

\* What comes of a fragment under the key that e shares with the builder:
\* the block cipher does not tell right from wrong.
Decrypted(fragment, e) == IF fragment.to = e THEN "right" ELSE "wrong"

\* Mutant of LoadSecretKey: whomever the first fragment names.
LoadSecretKey_First ==
  /\ reader # None
  /\ Get(SHARED_SECRET_FRAGMENT) # << >>
  /\ reader' = [reader EXCEPT !.secretKey =
                 Decrypted(Get(SHARED_SECRET_FRAGMENT)[1], reader.uuid)]
  /\ UNCHANGED <<fields, calls, iv, added, made, parser, attesting, attestedBy>>

\* The first fragment that names the reader.
LoadSecretKey ==
  /\ reader # None
  /\ \E i \in DOMAIN Get(SHARED_SECRET_FRAGMENT) :
       /\ Get(SHARED_SECRET_FRAGMENT)[i].to = reader.uuid
       /\ \A j \in 1 .. i - 1 : Get(SHARED_SECRET_FRAGMENT)[j].to # reader.uuid
       /\ reader' = [reader EXCEPT !.secretKey =
                      Decrypted(Get(SHARED_SECRET_FRAGMENT)[i], reader.uuid)]
  /\ UNCHANGED <<fields, calls, iv, added, made, parser, attesting, attestedBy>>

\* getEncrypted(): the value, what else comes out of the cipher, or None for
\* an exception.
GetEncrypted(id, i) ==
  LET value == Get(id)[i]
  IN  IF reader.secretKey = "none" \/ value.of = Empty THEN None
      ELSE IF reader.secretKey = "right" /\ value.kind = "encrypted"
           THEN Plain(value.of)
      ELSE [kind |-> "garbage"]

-----------------------------------------------------------------------------

Build ==
  \/ \E id \in Ids, v \in Values : Add(id, v) \/ AddEncrypted(id, v)
  \/ AddEncryptedFails
  \/ \E e \in Entities : AddSharedSecret(e) \/ Sign(e)
  \/ Emit

Transport ==
  \E m, n \in made, new \in NewFields :
    \E i \in 0 .. Len(m.cert) : \E j \in {i, i + 1, i + 2} \ {0} :
      Receive(m, n, i, j, new)

AttestStep ==
  \/ \E contract \in BOOLEAN : Attest(contract)
  \/ Resolve \/ DelegateThrows \/ DelegateReturnsNull \/ ResolveFails
  \/ MissingSigningCert \/ AttestPasses \/ AttestRefuses \/ AttestFails

Next ==
  \/ Build \/ Transport \/ AttestStep
  \/ \E e \in Entities : Read(e)
  \/ LoadSecretKey

Spec == Init /\ [][Next]_vars

-----------------------------------------------------------------------------

Kinds == {"none", "plain", "encrypted", "secret", "uuid", "signature"}

TypeOK ==
  /\ Len(fields) = Len(added)
  /\ \A i \in DOMAIN fields : /\ -32768 <= fields[i].id /\ fields[i].id <= 32767
                            /\ fields[i].value.kind \in Kinds
  /\ calls \in 0 .. MaxCalls /\ iv \in 0 .. MaxCalls
  /\ parser # None => parser.size \in 0 .. Len(parser.certificate)
  /\ attesting.pc \in {"new", "over", "resolve", "unresolved", "verify"}
  /\ attesting.result \in BOOLEAN
  /\ reader # None => reader.uuid \in Entities

\* What was added under an id, and every id but those that sign() adds.
AddedAs(m, id) == ValuesOf(m.added, id)
AllIds == Ids \cup (Reserved \ {SIGNER_ID, SIGNATURE})

\* A reader that was made after attest() passed has what one call of sign()
\* signed, by the entity that attest() found, all of it and nothing else,
\* whatever happened to the certificate.
AttestedIsSigned ==
  reader # None /\ reader.attestedBy # None =>
    \E m \in made :
      /\ m.signer = reader.attestedBy
      /\ \A id \in AllIds : Get(id) = AddedAs(m, id)

\* A reader of a certificate that was not altered finds under every id what
\* was added under that id, in that order, also where the id does not fit
\* into a Java short: the sign that the builder gives it is gone.
FieldsRoundTrip ==
  reader # None =>
    \A m \in made : parser.certificate = m.cert =>
      \A id \in AllIds : Get(id) = AddedAs(m, id)

\* No two fields are encrypted with one IV of the secret key: not in one
\* certificate, not in two of one builder, not after a call that threw.
NoIvReuse ==
  \A i, j \in DOMAIN fields :
    /\ fields[i].value.kind = "encrypted" /\ fields[j].value.kind = "encrypted"
    /\ fields[i].value.iv = fields[j].value.iv
    => i = j

\* Whoever the secret key was added for reads what was encrypted.  The empty
\* value cannot be read: a field has to be longer than its IV.
EncryptedRoundTrip ==
  reader # None /\ reader.secretKey # "none" =>
    \A m \in made : parser.certificate = m.cert =>
      \A id \in Ids : \A i \in DOMAIN AddedAs(m, id) :
        AddedAs(m, id)[i].kind = "encrypted" /\ AddedAs(m, id)[i].of # Empty =>
          GetEncrypted(id, i) = Plain(AddedAs(m, id)[i].of)

-----------------------------------------------------------------------------
(* What the documentation states and the code does not keep.               *)

\* attest() returns "true if the certificate is valid, and false otherwise":
\* false for one whose signature is not its signer's.
InvalidMeansFalse ==
  [][AttestRefuses /\ ~SignatureFits =>
       attesting'.threw = "none" /\ attesting'.result = FALSE]_vars
=============================================================================
