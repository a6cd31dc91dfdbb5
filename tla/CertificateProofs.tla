------------------------- MODULE CertificateProofs -------------------------
(***************************************************************************)
(* For any ids, values, entities and any number of calls: no IV of the     *)
(* secret key is used twice, what is read after attest() was signed, and   *)
(* what was not altered is read as it was added.                           *)
(***************************************************************************)
EXTENDS Certificate, SequenceTheorems, FiniteSetTheorems, TLAPS

\* What the builder's list holds.
Held ==
  {Plain(v) : v \in Values \cup {"version", "suite", "type"}} \cup
  {Encrypted(v, n) : v \in Values, n \in Nat} \cup
  {Secret(e) : e \in Entities}

Entries == [id : Int, value : Held]

\* The IVs in use are those below the counter, each once.
IvInv ==
  /\ iv \in Nat
  /\ fields \in Seq(Entries)
  /\ \A i \in 1 .. Len(fields) :
       fields[i].value.kind = "encrypted" => fields[i].value.iv < iv
  /\ NoIvReuse

\* The builder's first list has the types of every other.
LEMMA DefaultsAreEntries == Defaults \in Seq(Entries)
<1>1. \A s \in {"version", "suite", "type"} : Plain(s) \in Held
  BY DEF Held
<1>2. /\ Entry(CERTIFICATE_VERSION, Plain("version")) \in Entries
      /\ Entry(CERTIFICATE_CRYPTO_SUITE, Plain("suite")) \in Entries
      /\ Entry(CERTIFICATE_TYPE, Plain("type")) \in Entries
  BY <1>1 DEF Entry, Entries, CERTIFICATE_VERSION, CERTIFICATE_CRYPTO_SUITE,
              CERTIFICATE_TYPE
<1> QED
  BY <1>2 DEF Defaults

\* A new builder has used no IV.
LEMMA IvInit == Init => IvInv
<1> SUFFICES ASSUME Init PROVE IvInv
  OBVIOUS
<1>1. fields = Defaults /\ iv = 0 /\ iv \in Nat
  BY DEF Init
<1>2. fields \in Seq(Entries)
  BY <1>1, DefaultsAreEntries
<1>3. Len(fields) = 3
  BY <1>1 DEF Defaults
<1>4. \A i \in 1 .. Len(fields) : fields[i].value.kind = "plain"
  BY <1>1, <1>3 DEF Defaults, Entry, Plain
<1>5. DOMAIN fields = 1 .. Len(fields)
  BY <1>2
<1> QED
  BY <1>1, <1>2, <1>4, <1>5 DEF IvInv, NoIvReuse

\* A field is added whose value is not encrypted, or has the counter's IV.
LEMMA IvAppend ==
  ASSUME IvInv, NEW e \in Entries, fields' = Append(fields, e), iv' \in Nat,
         iv <= iv',
         e.value.kind = "encrypted" => e.value.iv = iv /\ iv < iv'
  PROVE  IvInv'
<1> DEFINE n == Len(fields)
<1>1. iv \in Nat /\ fields \in Seq(Entries) /\ n \in Nat
  BY DEF IvInv
<1>2. /\ fields' \in Seq(Entries)
      /\ Len(fields') = n + 1
      /\ DOMAIN fields' = 1 .. n + 1 /\ DOMAIN fields = 1 .. n
      /\ \A i \in 1 .. n : fields'[i] = fields[i]
      /\ fields'[n + 1] = e
  BY <1>1, AppendProperties
<1>3. ASSUME NEW i \in 1 .. n, fields[i].value.kind = "encrypted"
      PROVE  fields[i].value.iv # iv /\ fields[i].value.iv < iv'
  <2>1. fields[i] \in Entries
    BY <1>1
  <2>2. fields[i].value \in Held
    BY <2>1 DEF Entries
  <2>3. fields[i].value.iv \in Nat
    BY <1>3, <2>2 DEF Held, Plain, Encrypted, Secret
  <2>4. fields[i].value.iv < iv
    BY <1>3 DEF IvInv
  <2> QED
    BY <1>1, <2>3, <2>4
<1>4. ASSUME NEW i \in 1 .. n + 1, fields'[i].value.kind = "encrypted"
      PROVE  fields'[i].value.iv < iv'
  <2>1. CASE i \in 1 .. n
    BY <1>2, <1>3, <1>4, <2>1
  <2>2. CASE i \notin 1 .. n
    <3>1. i = n + 1
      BY <1>1, <2>2
    <3> QED
      BY <1>2, <1>4, <3>1
  <2> QED
    BY <2>1, <2>2
<1>5. ASSUME NEW i \in 1 .. n + 1, NEW j \in 1 .. n + 1,
             fields'[i].value.kind = "encrypted",
             fields'[j].value.kind = "encrypted",
             fields'[i].value.iv = fields'[j].value.iv
      PROVE  i = j
  <2>1. \A k \in 1 .. n + 1 : k \in 1 .. n \/ k = n + 1
    BY <1>1
  <2>2. CASE i \in 1 .. n /\ j \in 1 .. n
    BY <1>2, <1>5, <2>2 DEF IvInv, NoIvReuse
  <2>3. CASE i \in 1 .. n /\ j = n + 1
    BY <1>2, <1>3, <1>5, <2>3
  <2>4. CASE j \in 1 .. n /\ i = n + 1
    BY <1>2, <1>3, <1>5, <2>4
  <2> QED
    BY <2>1, <2>2, <2>3, <2>4
<1>6. NoIvReuse'
  BY <1>2, <1>5 DEF NoIvReuse
<1> QED
  BY <1>2, <1>4, <1>6 DEF IvInv

\* Steps that leave the list and the counter alone use no IV.
LEMMA IvSame ==
  ASSUME IvInv, UNCHANGED <<fields, iv>>
  PROVE  IvInv'
BY DEF IvInv, NoIvReuse

\* Ids of fields are numbers.
LEMMA IdsAreInts == \A id \in Ids : id \in Int
<1>1. Ids \subseteq FieldIds
  BY CertificateAssumption
<1>2. FieldIds \subseteq Int
  BY DEF FieldIds
<1> QED
  BY <1>1, <1>2

\* The cast of a number to a short is a number.
LEMMA ShortIsInt ==
  ASSUME NEW id \in Int
  PROVE  Short(id) \in Int
<1>1. \A n \in Int : n % 65536 \in Int
  OBVIOUS
<1>2. id + 32768 \in Int
  OBVIOUS
<1>3. (id + 32768) % 65536 \in Int
  BY <1>1, <1>2
<1> QED
  BY <1>3 DEF Short

\* Every step of builder, parser or reader keeps the IVs in use apart and
\* below the counter.
LEMMA IvStep == IvInv /\ [Next]_vars => IvInv'
<1> SUFFICES ASSUME IvInv, [Next]_vars PROVE IvInv'
  OBVIOUS
<1>0. iv \in Nat /\ iv + 1 \in Nat /\ iv <= iv /\ iv < iv + 1 /\ iv <= iv + 1
  BY DEF IvInv
<1>a. \A id \in Ids : Short(id) \in Int
  BY IdsAreInts, ShortIsInt
<1>1. ASSUME NEW id \in Ids, NEW v \in Values, Add(id, v) PROVE IvInv'
  <2>1. Entry(Short(id), Plain(v)) \in Entries
    BY <1>a DEF Entry, Entries, Held
  <2>2. Entry(Short(id), Plain(v)).value.kind # "encrypted"
    BY DEF Entry, Plain
  <2>3. fields' = Append(fields, Entry(Short(id), Plain(v))) /\ iv' = iv
    BY <1>1 DEF Add, addByteArray
  <2> QED
    BY <1>0, <2>1, <2>2, <2>3, IvAppend
<1>2. ASSUME NEW id \in Ids, NEW v \in Values, AddEncrypted(id, v) PROVE IvInv'
  <2>1. Entry(Short(id), Encrypted(v, iv)) \in Entries
    BY <1>0, <1>a DEF Entry, Entries, Held
  <2>2. Entry(Short(id), Encrypted(v, iv)).value.iv = iv
    BY DEF Entry, Encrypted
  <2>3. /\ fields' = Append(fields, Entry(Short(id), Encrypted(v, iv)))
        /\ iv' = iv + 1
    BY <1>2 DEF AddEncrypted, addByteArray
  <2> QED
    BY <1>0, <2>1, <2>2, <2>3, IvAppend
<1>3. ASSUME AddEncryptedFails PROVE IvInv'
  <2>1. fields' = fields /\ iv' = iv + 1
    BY <1>3 DEF AddEncryptedFails
  <2>2. fields \in Seq(Entries) /\ NoIvReuse
    BY DEF IvInv
  <2>3. ASSUME NEW i \in 1 .. Len(fields), fields[i].value.kind = "encrypted"
        PROVE  fields[i].value.iv < iv + 1
    <3>1. fields[i].value \in Held
      <4>1. fields[i] \in Entries
        BY <2>2
      <4> QED
        BY <4>1 DEF Entries
    <3>2. fields[i].value.iv \in Nat
      BY <2>3, <3>1 DEF Held, Plain, Encrypted, Secret
    <3>3. fields[i].value.iv < iv
      BY <2>3 DEF IvInv
    <3> QED
      BY <1>0, <3>2, <3>3
  <2> QED
    BY <1>0, <2>1, <2>2, <2>3 DEF IvInv, NoIvReuse
<1>4. ASSUME NEW e \in Entities, AddSharedSecret(e) PROVE IvInv'
  <2>1. Entry(Short(SHARED_SECRET_FRAGMENT), Secret(e)) \in Entries
    <3>1. Short(SHARED_SECRET_FRAGMENT) \in Int
      BY ShortIsInt DEF SHARED_SECRET_FRAGMENT
    <3> QED
      BY <3>1 DEF Entry, Entries, Held
  <2>2. Entry(Short(SHARED_SECRET_FRAGMENT), Secret(e)).value.kind # "encrypted"
    BY DEF Entry, Secret
  <2>3. /\ fields' = Append(fields, Entry(Short(SHARED_SECRET_FRAGMENT), Secret(e)))
        /\ iv' = iv
    BY <1>4 DEF AddSharedSecret, addByteArray
  <2> QED
    BY <1>0, <2>1, <2>2, <2>3, IvAppend
<1>5. CASE UNCHANGED <<fields, iv>>
  BY <1>5, IvSame
<1>6. ASSUME NEW e \in Entities, Sign(e) PROVE UNCHANGED <<fields, iv>>
  BY <1>6 DEF Sign, Make
<1>7. Emit => UNCHANGED <<fields, iv>>
  BY DEF Emit, Make
<1>8. Transport \/ AttestStep => UNCHANGED <<fields, iv>>
  <2>1. Transport => UNCHANGED <<fields, iv>>
    BY DEF Transport, Receive
  <2>2. \A contract \in BOOLEAN : Attest(contract) => UNCHANGED <<fields, iv>>
    BY DEF Attest
  <2>3. AttestFails \/ Resolve \/ DelegateThrows \/ DelegateReturnsNull
          => UNCHANGED <<fields, iv>>
    BY DEF AttestFails, Resolve, DelegateThrows, DelegateReturnsNull
  <2>4. ResolveFails \/ MissingSigningCert \/ AttestPasses \/ AttestRefuses
          => UNCHANGED <<fields, iv>>
    BY DEF ResolveFails, MissingSigningCert, AttestPasses, AttestRefuses
  <2> QED
    BY <2>1, <2>2, <2>3, <2>4 DEF AttestStep
<1>9. (\E e \in Entities : Read(e)) \/ LoadSecretKey => UNCHANGED <<fields, iv>>
  BY DEF Read, LoadSecretKey
<1>10. CASE Build
  BY <1>1, <1>2, <1>3, <1>4, <1>5, <1>6, <1>7, <1>10 DEF Build
<1>11. CASE UNCHANGED vars
  BY <1>5, <1>11 DEF vars
<1> QED
  BY <1>5, <1>8, <1>9, <1>10, <1>11 DEF Next

\* Every encrypted field of a builder has an IV of its own.
THEOREM IvsDiffer == Spec => []NoIvReuse
<1>1. IvInv => NoIvReuse
  BY DEF IvInv
<1> QED
  BY <1>1, IvInit, IvStep, PTL DEF Spec

-----------------------------------------------------------------------------
(* Places, and what the parser gives for an id.                            *)

\* A set of natural numbers has a least one: of the intervals from 0 to one
\* of them, one contains no other.
LEMMA HasLeast ==
  ASSUME NEW S \in SUBSET Nat, S # {}
  PROVE  \E i \in S : \A j \in S : i <= j
<1> DEFINE Below == {0 .. i : i \in S}
<1>1. Below \subseteq FiniteSubsetsOf(Nat)
  <2> SUFFICES ASSUME NEW i \in S PROVE 0 .. i \in FiniteSubsetsOf(Nat)
    OBVIOUS
  <2>1. i \in Int /\ 0 .. i \in SUBSET Nat
    OBVIOUS
  <2>2. IsFiniteSet(0 .. i)
    BY <2>1, FS_Interval
  <2> QED
    BY <2>1, <2>2 DEF FiniteSubsetsOf
<1>2. Below # {}
  OBVIOUS
<1>3. IsWellFoundedOn(StrictSubsetOrdering(Nat), FiniteSubsetsOf(Nat))
  BY FS_StrictSubsetOrderingWellFounded
<1> HIDE DEF Below
<1>4. PICK X \in Below : \A Y \in Below : <<Y, X>> \notin StrictSubsetOrdering(Nat)
  BY <1>1, <1>2, <1>3, WFMin
<1>5. PICK i \in S : X = 0 .. i
  BY DEF Below
<1>6. ASSUME NEW j \in S, j < i PROVE FALSE
  <2>1. 0 .. j \in Below
    BY DEF Below
  <2>2. 0 .. j \subseteq 0 .. i /\ i \notin 0 .. j /\ i \in 0 .. i
    BY <1>6
  <2>3. /\ 0 .. j \subseteq 0 .. i /\ 0 .. j # 0 .. i
        /\ 0 .. j \in SUBSET Nat /\ 0 .. i \in SUBSET Nat
    BY <2>2
  <2>4. <<0 .. j, 0 .. i>> \in StrictSubsetOrdering(Nat)
    BY <2>3 DEF StrictSubsetOrdering
  <2> QED
    BY <1>4, <1>5, <2>1, <2>4
<1>7. \A j \in S : i <= j
  BY <1>6
<1> QED
  BY <1>7

\* The first of some places is one of them, and before the others.
LEMMA FirstIsLeast ==
  ASSUME NEW S \in SUBSET Nat, S # {}
  PROVE  First(S) \in S /\ \A j \in S : First(S) <= j
BY HasLeast DEF First

\* How many of the places come before a place or are it.
Rank(S, i) == Cardinality({j \in S : j <= i})

\* The ranks of n places are 1 to n.
LEMMA EveryRank ==
  ASSUME NEW S \in SUBSET Nat, IsFiniteSet(S), NEW k \in 1 .. Cardinality(S)
  PROVE  \E i \in S : Rank(S, i) = k
<1> DEFINE n == Cardinality(S)
           UpTo(i) == {j \in S : j <= i}
           f == [i \in S |-> Rank(S, i)]
<1>1. n \in Nat
  BY FS_CardinalityType
<1>2. \A i \in S : /\ IsFiniteSet(UpTo(i)) /\ UpTo(i) \in SUBSET S
                   /\ Cardinality(UpTo(i)) <= n
                   /\ Cardinality(UpTo(i)) \in Nat
  BY FS_Subset, FS_CardinalityType
<1>3. \A i \in S : Cardinality(UpTo(i)) # 0
  <2> SUFFICES ASSUME NEW i \in S PROVE Cardinality(UpTo(i)) # 0
    OBVIOUS
  <2>1. i \in UpTo(i)
    OBVIOUS
  <2> QED
    BY <1>2, <2>1, FS_EmptySet
<1>4. f \in [S -> 1 .. n]
  BY <1>1, <1>2, <1>3 DEF Rank
<1>5. ASSUME NEW i \in S, NEW j \in S, i < j PROVE Rank(S, i) # Rank(S, j)
  <2>0. \A m \in S : m \in Int
    OBVIOUS
  <2>a. \A m \in S : m <= i => m <= j
    BY <1>5, <2>0
  <2>b. j <= j /\ ~(j <= i)
    BY <1>5, <2>0
  <2>1. UpTo(i) \in SUBSET UpTo(j) /\ j \in UpTo(j) /\ j \notin UpTo(i)
    BY <2>a, <2>b, Zenon
  <2>2. UpTo(i) # UpTo(j)
    BY <2>1
  <2>3. Cardinality(UpTo(j)) # Cardinality(UpTo(i))
    BY <1>2, <2>1, <2>2, FS_Subset
  <2> QED
    BY <2>3 DEF Rank
<1>6. \A i, j \in S : f[i] = f[j] => i = j
  <2> SUFFICES ASSUME NEW i \in S, NEW j \in S, i # j PROVE f[i] # f[j]
    OBVIOUS
  <2>1. i < j \/ j < i
    OBVIOUS
  <2> QED
    BY <1>5, <2>1
<1> HIDE DEF f
<1>7. f \in Injection(S, 1 .. n)
  BY <1>4, <1>6 DEF Injection, IsInjective
<1>8. IsFiniteSet(1 .. n) /\ Cardinality(1 .. n) = n
  BY <1>1, FS_Interval
<1>9. f \in Surjection(S, 1 .. n)
  BY <1>7, <1>8, FS_Injection
<1>10. PICK i \in S : f[i] = k
  BY <1>9 DEF Surjection
<1> QED
  BY <1>10 DEF f

\* As long as there are so many places, the k-th is one of them.
LEMMA NthIsPlace ==
  ASSUME NEW S \in SUBSET Nat, IsFiniteSet(S), NEW k \in 1 .. Cardinality(S)
  PROVE  Nth(S, k) \in S
<1>1. \E i \in S : Cardinality({j \in S : j <= i}) = k
  BY EveryRank DEF Rank
<1> QED
  BY <1>1 DEF Nth

\* The places of an id in a certificate are finitely many numbers.
LEMMA PlacesFinite ==
  ASSUME NEW cert, NEW id, Len(cert) \in Nat
  PROVE  Places(cert, id) \in SUBSET Nat /\ IsFiniteSet(Places(cert, id))
<1>1. Places(cert, id) \in SUBSET (1 .. Len(cert))
  BY DEF Places
<1>2. IsFiniteSet(1 .. Len(cert))
  BY FS_Interval
<1>3. IsFiniteSet(Places(cert, id))
  BY <1>1, <1>2, FS_Subset
<1> QED
  BY <1>1, <1>3

\* What the parser gives for an id depends on the fields with that id alone.
LEMMA ValuesOfSame ==
  ASSUME NEW s, NEW t, NEW id, Len(s) \in Nat,
         Places(s, id) = Places(t, id),
         \A i \in Places(s, id) : s[i].value = t[i].value
  PROVE  ValuesOf(s, id) = ValuesOf(t, id)
<1> DEFINE P == Places(s, id)
<1>1. P \in SUBSET Nat /\ IsFiniteSet(P)
  BY PlacesFinite
<1> HIDE DEF P
<1>2. \A k \in 1 .. Cardinality(P) : Nth(P, k) \in P
  BY <1>1, NthIsPlace
<1>3. \A k \in 1 .. Cardinality(P) : s[Nth(P, k)].value = t[Nth(P, k)].value
  BY <1>2 DEF P
<1>4. /\ ValuesOf(s, id) = [k \in 1 .. Cardinality(P) |-> s[Nth(P, k)].value]
      /\ ValuesOf(t, id) = [k \in 1 .. Cardinality(P) |-> t[Nth(P, k)].value]
  BY DEF ValuesOf, P
<1> QED
  BY <1>3, <1>4

\* A number of 16 bits, and the numbers that are the same modulo 2^16.
LEMMA SixteenBits ==
  ASSUME NEW n \in Int, 0 <= n, n < 65536
  PROVE  /\ n % 65536 = n
         /\ (n + 65536) % 65536 = n
         /\ (n - 65536) % 65536 = n
<1>1. n % 65536 = n
  OBVIOUS
<1>2. (n + 65536) % 65536 = n
  OBVIOUS
<1>3. (n - 65536) % 65536 = n
  OBVIOUS
<1> QED
  BY <1>1, <1>2, <1>3

\* The 16 bits that are written are the id again, whatever the sign that the
\* cast to a short gave it.
LEMMA WireOfShort ==
  ASSUME NEW id \in FieldIds
  PROVE  Wire(Short(id)) = id /\ -32768 <= Short(id) /\ Short(id) <= 32767 /\ Short(id) \in Int
<1>1. id \in Int /\ 0 <= id /\ id < 65536
  BY DEF FieldIds
<1>2. CASE id < 32768
  <2>1. id + 32768 \in Int /\ 0 <= id + 32768 /\ id + 32768 < 65536
    BY <1>1, <1>2
  <2> DEFINE n == id + 32768
  <2>2. n % 65536 = n
    <3> HIDE DEF n
    <3> QED
      BY <2>1, SixteenBits DEF n
  <2>3. Short(id) = id
    BY <1>1, <2>2 DEF Short
  <2>4. id % 65536 = id
    BY <1>1, SixteenBits
  <2>5. Wire(Short(id)) = id
    BY <2>3, <2>4, SMT DEF Wire
  <2>6. -32768 <= Short(id) /\ Short(id) <= 32767 /\ Short(id) \in Int
    BY <1>1, <1>2, <2>3
  <2> QED
    BY <2>5, <2>6
<1>3. CASE id >= 32768
  <2>1. id - 32768 \in Int /\ 0 <= id - 32768 /\ id - 32768 < 65536
    BY <1>1, <1>3
  <2>2. ((id - 32768) + 65536) % 65536 = id - 32768
    BY <2>1, SixteenBits
  <2>3. (id - 32768) + 65536 = id + 32768
    BY <1>1
  <2>4. Short(id) = id - 65536
    BY <1>1, <2>2, <2>3 DEF Short
  <2>5. (id - 65536) % 65536 = id
    BY <1>1, SixteenBits
  <2>6. Wire(Short(id)) = id
    BY <2>4, <2>5, SMT DEF Wire
  <2>7. -32768 <= Short(id) /\ Short(id) <= 32767 /\ Short(id) \in Int
    BY <1>1, <1>3, <2>4
  <2> QED
    BY <2>6, <2>7
<1>4. id < 32768 \/ id >= 32768
  BY <1>1
<1> QED
  BY <1>2, <1>3, <1>4, SMT

-----------------------------------------------------------------------------
(* The invariant of certificates.                                          *)

\* What callers add: under an id that is not for sign() to add.
AddedEntries == [id : AllIds, value : Held]

\* The builder's list holds what was added, with its ids as shorts.
BuilderInv ==
  /\ IvInv
  /\ added \in Seq(AddedEntries)
  /\ Len(fields) = Len(added)
  /\ \A i \in 1 .. Len(added) :
       fields[i] = Entry(Short(added[i].id), added[i].value)
  /\ calls \in 0 .. MaxCalls /\ iv <= calls

\* What e signs of a certificate with these fields, and the certificate.
SignedPart(a, e) == Append(a, Entry(SIGNER_ID, Uuid(e)))
SignatureField(a, e) == Entry(SIGNATURE, Signature(e, SignedPart(a, e)))

\* A certificate has the fields that were added and, if it was signed, the
\* signer and the signature.
AsMade(m) ==
  /\ m.added \in Seq(AddedEntries)
  /\ \/ m.signer = None /\ m.cert = m.added
     \/ \E e \in Entities :
          /\ m.signer = Uuid(e)
          /\ m.cert = Append(SignedPart(m.added, e), SignatureField(m.added, e))

MadeInv == \A m \in made : AsMade(m)

\* The fields that a certificate that arrives may have.
Arriving ==
  (UNION {{m.cert[i] : i \in 1 .. Len(m.cert)} : m \in made}) \cup
  {Entry(id, Plain(Empty)) : id \in Ids} \cup
  {Entry(SIGNER_ID, Uuid(e)) : e \in Entities}

\* attest() passed, and the size is that of what was signed.
Vouched ==
  /\ Places(Raw, SIGNATURE) # {}
  /\ SignatureFits
  /\ parser.size = SignatureAt - 1
  /\ attestedBy = SignerId

ParserInv ==
  /\ parser = None => attestedBy = None
  /\ parser # None =>
       /\ parser \in [kind : {"parser"}, certificate : Seq(Arriving),
                      size : Nat, rawSize : Nat]
       /\ parser.rawSize = Len(parser.certificate)
       /\ \/ attestedBy = None /\ parser.size = Len(parser.certificate)
          \/ Vouched

\* attest() goes on only with a certificate that has a signature.
PlaceInv ==
  /\ attesting.pc \in {"new", "over", "resolve", "unresolved", "verify"}
  /\ attesting.result \in BOOLEAN
  /\ attesting.pc \in {"resolve", "unresolved", "verify"} =>
       parser # None /\ Places(Raw, SIGNATURE) # {}

\* What parse() gives.
CertFields ==
  [id \in {Parsed[i].id : i \in DOMAIN Parsed} |-> ValuesOf(Parsed, id)]

\* A reader has what the parser gives still: nothing is attested any more.
ReaderInv ==
  reader # None =>
    /\ parser # None
    /\ \E e \in Entities, k \in {"none", "right"} :
         reader = [kind |-> "reader", uuid |-> e, secretKey |-> k,
                   certFields |-> CertFields, attestedBy |-> attestedBy]

CertInv == BuilderInv /\ MadeInv /\ ParserInv /\ PlaceInv /\ ReaderInv

-----------------------------------------------------------------------------
(* The builder.                                                            *)

\* The ids of what is added, and those of sign().
LEMMA IdFacts ==
  /\ Ids \subseteq AllIds
  /\ AllIds \subseteq FieldIds
  /\ SIGNER_ID \notin AllIds /\ SIGNATURE \notin AllIds
  /\ SIGNER_ID # SIGNATURE
  /\ {CERTIFICATE_VERSION, CERTIFICATE_CRYPTO_SUITE, CERTIFICATE_TYPE,
      SHARED_SECRET_FRAGMENT} \subseteq AllIds
<1>1. Ids \subseteq FieldIds \ Reserved
  BY CertificateAssumption
<1>2. Reserved \subseteq FieldIds
  BY DEF Reserved, FieldIds, CERTIFICATE_VERSION, CERTIFICATE_CRYPTO_SUITE,
         CERTIFICATE_TYPE, SIGNER_ID, SIGNATURE, SHARED_SECRET_FRAGMENT
<1>3. SIGNER_ID \in Reserved /\ SIGNATURE \in Reserved
  BY DEF Reserved
<1>4. {CERTIFICATE_VERSION, CERTIFICATE_CRYPTO_SUITE, CERTIFICATE_TYPE,
       SHARED_SECRET_FRAGMENT} \subseteq Reserved \ {SIGNER_ID, SIGNATURE}
  BY DEF Reserved, CERTIFICATE_VERSION, CERTIFICATE_CRYPTO_SUITE,
         CERTIFICATE_TYPE, SIGNER_ID, SIGNATURE, SHARED_SECRET_FRAGMENT
<1>5. SIGNER_ID # SIGNATURE
  BY DEF SIGNER_ID, SIGNATURE
<1> QED
  BY <1>1, <1>2, <1>3, <1>4, <1>5 DEF AllIds

\* The cast does nothing to an id below 2^15.
LEMMA ShortOfSmall ==
  ASSUME NEW id \in FieldIds, id < 32768
  PROVE  Short(id) = id
<1>1. id \in Int /\ 0 <= id
  BY DEF FieldIds
<1> DEFINE n == id + 32768
<1>2. n % 65536 = n
  <2>1. n \in Int /\ 0 <= n /\ n < 65536
    BY <1>1
  <2> HIDE DEF n
  <2> QED
    BY <2>1, SixteenBits
<1> QED
  BY <1>1, <1>2 DEF Short

\* The first list is what was added first: its ids are below 2^15.
LEMMA DefaultsAdded ==
  /\ Defaults \in Seq(AddedEntries)
  /\ \A i \in 1 .. Len(Defaults) :
       Defaults[i] = Entry(Short(Defaults[i].id), Defaults[i].value)
<1>1. \A s \in {"version", "suite", "type"} : Plain(s) \in Held
  BY DEF Held
<1>2. /\ Entry(CERTIFICATE_VERSION, Plain("version")) \in AddedEntries
      /\ Entry(CERTIFICATE_CRYPTO_SUITE, Plain("suite")) \in AddedEntries
      /\ Entry(CERTIFICATE_TYPE, Plain("type")) \in AddedEntries
  BY <1>1, IdFacts DEF Entry, AddedEntries
<1>3. Defaults \in Seq(AddedEntries)
  BY <1>2 DEF Defaults
<1>4. /\ CERTIFICATE_VERSION < 32768 /\ CERTIFICATE_CRYPTO_SUITE < 32768
      /\ CERTIFICATE_TYPE < 32768
  BY DEF CERTIFICATE_VERSION, CERTIFICATE_CRYPTO_SUITE, CERTIFICATE_TYPE
<1>5. /\ Short(CERTIFICATE_VERSION) = CERTIFICATE_VERSION
      /\ Short(CERTIFICATE_CRYPTO_SUITE) = CERTIFICATE_CRYPTO_SUITE
      /\ Short(CERTIFICATE_TYPE) = CERTIFICATE_TYPE
  BY <1>4, IdFacts, ShortOfSmall
<1>6. Len(Defaults) = 3
  BY DEF Defaults
<1>7. /\ Defaults[1] = Entry(CERTIFICATE_VERSION, Plain("version"))
      /\ Defaults[2] = Entry(CERTIFICATE_CRYPTO_SUITE, Plain("suite"))
      /\ Defaults[3] = Entry(CERTIFICATE_TYPE, Plain("type"))
  BY DEF Defaults
<1>8. \A i \in 1 .. Len(Defaults) : i = 1 \/ i = 2 \/ i = 3
  BY <1>6
<1> QED
  BY <1>3, <1>5, <1>7, <1>8 DEF Entry

\* A new builder's list is what was added.
LEMMA BuilderInit == Init => BuilderInv
<1> SUFFICES ASSUME Init PROVE BuilderInv
  OBVIOUS
<1>1. fields = Defaults /\ added = Defaults /\ calls = 0 /\ iv = 0
  BY DEF Init
<1>2. MaxCalls \in Nat
  BY CertificateAssumption
<1> QED
  BY <1>1, <1>2, IvInit, DefaultsAdded DEF BuilderInv

\* A field is added, under its id as a short and under its id.
LEMMA BuilderAppend ==
  ASSUME BuilderInv, IvInv', NEW id \in AllIds, NEW v \in Held,
         addByteArray(id, v), calls' \in 0 .. MaxCalls, iv' <= calls'
  PROVE  BuilderInv'
<1> DEFINE n == Len(added)
<1>1. /\ added \in Seq(AddedEntries) /\ fields \in Seq(Entries)
      /\ n \in Nat /\ Len(fields) = n
  BY DEF BuilderInv, IvInv
<1>2. Entry(id, v) \in AddedEntries
  BY DEF Entry, AddedEntries
<1>3. Entry(Short(id), v) \in Entries
  <2>1. Short(id) \in Int
    BY IdFacts, WireOfShort
  <2> QED
    BY <2>1 DEF Entry, Entries
<1>4. /\ fields' = Append(fields, Entry(Short(id), v))
      /\ added' = Append(added, Entry(id, v))
  BY DEF addByteArray
<1>5. /\ added' \in Seq(AddedEntries) /\ Len(added') = n + 1
      /\ \A i \in 1 .. n : added'[i] = added[i]
      /\ added'[n + 1] = Entry(id, v)
  BY <1>1, <1>2, <1>4, AppendProperties
<1>6. /\ Len(fields') = n + 1
      /\ \A i \in 1 .. n : fields'[i] = fields[i]
      /\ fields'[n + 1] = Entry(Short(id), v)
  BY <1>1, <1>3, <1>4, AppendProperties
<1>7. ASSUME NEW i \in 1 .. n + 1
      PROVE  fields'[i] = Entry(Short(added'[i].id), added'[i].value)
  <2>1. CASE i \in 1 .. n
    BY <1>5, <1>6, <2>1 DEF BuilderInv
  <2>2. CASE i = n + 1
    BY <1>5, <1>6, <2>2 DEF Entry
  <2>3. i \in 1 .. n \/ i = n + 1
    BY <1>1
  <2> QED
    BY <2>1, <2>2, <2>3
<1> QED
  BY <1>5, <1>6, <1>7 DEF BuilderInv

\* The frame of the steps: a builder works before anything is received;
\* what comes after does not touch its variables.
LEMMA OnlyBuildAdds ==
  [Next]_vars => Build \/ UNCHANGED <<fields, added, calls, iv, made>>
<1>1. Transport => UNCHANGED <<fields, added, calls, iv, made>>
  BY DEF Transport, Receive
<1>2. \A contract \in BOOLEAN :
        Attest(contract) => UNCHANGED <<fields, added, calls, iv, made>>
  BY DEF Attest
<1>3. AttestFails \/ Resolve \/ DelegateThrows \/ DelegateReturnsNull
        => UNCHANGED <<fields, added, calls, iv, made>>
  BY DEF AttestFails, Resolve, DelegateThrows, DelegateReturnsNull
<1>4. ResolveFails \/ MissingSigningCert \/ AttestPasses \/ AttestRefuses
        => UNCHANGED <<fields, added, calls, iv, made>>
  BY DEF ResolveFails, MissingSigningCert, AttestPasses, AttestRefuses
<1>5. (\E e \in Entities : Read(e)) \/ LoadSecretKey
        => UNCHANGED <<fields, added, calls, iv, made>>
  BY DEF Read, LoadSecretKey
<1> QED
  BY <1>1, <1>2, <1>3, <1>4, <1>5 DEF Next, AttestStep, vars

\* A builder does not touch parsers or readers, and is used before there are
\* any.
LEMMA BuildOnlyAdds ==
  Build => /\ parser = None
           /\ UNCHANGED <<parser, attesting, attestedBy, reader>>
BY DEF Build, Add, AddEncrypted, AddEncryptedFails, AddSharedSecret, Sign,
       Emit, Make, Building

\* Whatever is added goes to the list with its id as a short; emit() and
\* sign() begin a new list.
LEMMA BuilderStep == BuilderInv /\ [Next]_vars => BuilderInv'
<1> SUFFICES ASSUME BuilderInv, [Next]_vars PROVE BuilderInv'
  OBVIOUS
<1>1. IvInv'
  BY IvStep DEF BuilderInv
<1>2. iv \in Nat /\ calls \in 0 .. MaxCalls /\ iv <= calls /\ MaxCalls \in Nat
  BY CertificateAssumption DEF BuilderInv, IvInv
<1>3. Building => calls' = calls + 1 /\ calls + 1 \in 0 .. MaxCalls
  BY <1>2 DEF Building
<1>4. Build => Building
  BY DEF Build, Add, AddEncrypted, AddEncryptedFails, AddSharedSecret, Sign,
         Emit, Make
<1>5. ASSUME NEW id \in Ids, NEW v \in Values, Add(id, v) PROVE BuilderInv'
  <2>1. Plain(v) \in Held /\ id \in AllIds
    BY IdFacts DEF Held
  <2>2. addByteArray(id, Plain(v)) /\ iv' = iv /\ Building
    BY <1>5 DEF Add
  <2>3. calls' \in 0 .. MaxCalls /\ iv' <= calls'
    BY <1>2, <1>3, <2>2
  <2> QED
    BY <1>1, <2>1, <2>2, <2>3, BuilderAppend
<1>6. ASSUME NEW id \in Ids, NEW v \in Values, AddEncrypted(id, v)
      PROVE  BuilderInv'
  <2>1. Encrypted(v, iv) \in Held /\ id \in AllIds
    BY <1>2, IdFacts DEF Held
  <2>2. addByteArray(id, Encrypted(v, iv)) /\ iv' = iv + 1 /\ Building
    BY <1>6 DEF AddEncrypted
  <2>3. calls' \in 0 .. MaxCalls /\ iv' <= calls'
    BY <1>2, <1>3, <2>2
  <2> QED
    BY <1>1, <2>1, <2>2, <2>3, BuilderAppend
<1>7. ASSUME NEW e \in Entities, AddSharedSecret(e) PROVE BuilderInv'
  <2>1. Secret(e) \in Held /\ SHARED_SECRET_FRAGMENT \in AllIds
    BY IdFacts DEF Held
  <2>2. addByteArray(SHARED_SECRET_FRAGMENT, Secret(e)) /\ iv' = iv /\ Building
    BY <1>7 DEF AddSharedSecret
  <2>3. calls' \in 0 .. MaxCalls /\ iv' <= calls'
    BY <1>2, <1>3, <2>2
  <2> QED
    BY <1>1, <2>1, <2>2, <2>3, BuilderAppend
<1>8. ASSUME UNCHANGED <<fields, added>>, calls' \in 0 .. MaxCalls, iv' <= calls'
      PROVE  BuilderInv'
  BY <1>1, <1>8 DEF BuilderInv
<1>9. CASE AddEncryptedFails
  <2>1. UNCHANGED <<fields, added>> /\ iv' = iv + 1 /\ Building
    BY <1>9 DEF AddEncryptedFails
  <2>2. calls' \in 0 .. MaxCalls /\ iv' <= calls'
    BY <1>2, <1>3, <2>1
  <2> QED
    BY <1>8, <2>1, <2>2
<1>10. ASSUME Emit \/ \E e \in Entities : Sign(e) PROVE BuilderInv'
  <2>1. UNCHANGED <<fields, added, iv>> /\ Building
    BY <1>10 DEF Emit, Sign, Make
  <2>2. calls' \in 0 .. MaxCalls /\ iv' <= calls'
    BY <1>2, <1>3, <2>1
  <2> QED
    BY <1>8, <2>1, <2>2
<1>11. CASE Build
  BY <1>5, <1>6, <1>7, <1>9, <1>10, <1>11 DEF Build
<1>12. CASE UNCHANGED <<fields, added, calls, iv>>
  BY <1>2, <1>8, <1>12
<1> QED
  BY <1>11, <1>12, OnlyBuildAdds

\* What goes into a certificate is what was added: the sign of the shorts is
\* gone.
LEMMA WrittenIsAdded == BuilderInv => Written = added
<1> SUFFICES ASSUME BuilderInv PROVE Written = added
  OBVIOUS
<1>1. /\ added \in Seq(AddedEntries) /\ Len(fields) = Len(added)
      /\ Len(added) \in Nat
  BY DEF BuilderInv
<1>2. ASSUME NEW i \in 1 .. Len(added)
      PROVE  [fields[i] EXCEPT !.id = Wire(@)] = added[i]
  <2>1. added[i] \in AddedEntries
    BY <1>1
  <2>2. added[i].id \in FieldIds
    BY <2>1, IdFacts DEF AddedEntries
  <2>3. fields[i] = Entry(Short(added[i].id), added[i].value)
    BY DEF BuilderInv
  <2>4. Wire(Short(added[i].id)) = added[i].id
    BY <2>2, WireOfShort
  <2>5. [fields[i] EXCEPT !.id = Wire(@)] = Entry(added[i].id, added[i].value)
    BY <2>3, <2>4 DEF Entry
  <2> QED
    BY <2>1, <2>5 DEF Entry, AddedEntries
<1>3. Written = [i \in 1 .. Len(added) |-> added[i]]
  BY <1>1, <1>2 DEF Written
<1> QED
  BY <1>1, <1>3

\* At first no certificate was made.
LEMMA MadeInit == Init => MadeInv
BY DEF Init, MadeInv

\* What emit() and sign() make has the fields that were added, under the ids
\* they were added under.
LEMMA MadeStep == BuilderInv /\ MadeInv /\ [Next]_vars => MadeInv'
<1> SUFFICES ASSUME BuilderInv, MadeInv, [Next]_vars PROVE MadeInv'
  OBVIOUS
<1>1. added \in Seq(AddedEntries) /\ Written = added
  BY WrittenIsAdded DEF BuilderInv
<1>2. ASSUME NEW m, AsMade(m), made' = made \cup {m} PROVE MadeInv'
  BY <1>2 DEF MadeInv, AsMade
<1>3. CASE Emit
  <2> DEFINE m == [cert |-> Written, signer |-> None, added |-> added]
  <2>1. made' = made \cup {m}
    BY <1>3 DEF Emit, Make
  <2>2. AsMade(m)
    BY <1>1 DEF AsMade
  <2> QED
    BY <1>2, <2>1, <2>2
<1>4. ASSUME NEW e \in Entities, Sign(e) PROVE MadeInv'
  <2> DEFINE m == [cert |-> Append(SignedPart(added, e), SignatureField(added, e)),
                   signer |-> Uuid(e), added |-> added]
  <2>1. made' = made \cup {m}
    BY <1>1, <1>4 DEF Sign, Make, SignedPart, SignatureField
  <2>2. AsMade(m)
    BY <1>1 DEF AsMade
  <2> HIDE DEF m
  <2> QED
    BY <1>2, <2>1, <2>2
<1>5. CASE UNCHANGED made
  BY <1>5 DEF MadeInv
<1>6. ASSUME NEW id \in Ids, NEW v \in Values, Add(id, v) \/ AddEncrypted(id, v)
      PROVE  UNCHANGED made
  BY <1>6 DEF Add, AddEncrypted
<1>7. AddEncryptedFails => UNCHANGED made
  BY DEF AddEncryptedFails
<1>8. \A e \in Entities : AddSharedSecret(e) => UNCHANGED made
  BY DEF AddSharedSecret
<1>9. CASE Build
  BY <1>3, <1>4, <1>5, <1>6, <1>7, <1>8, <1>9 DEF Build
<1> QED
  BY <1>5, <1>9, OnlyBuildAdds

-----------------------------------------------------------------------------
(* What arrives.                                                           *)

\* A certificate's fields, of one that was signed and of one that was not.
LEMMA CertOfMade ==
  ASSUME NEW m, AsMade(m)
  PROVE  /\ m.cert \in Seq({m.cert[i] : i \in 1 .. Len(m.cert)})
         /\ Len(m.cert) \in Nat
<1>1. m.added \in Seq(AddedEntries)
  BY DEF AsMade
<1>2. CASE m.cert = m.added
  BY <1>1, <1>2
<1>3. ASSUME NEW e \in Entities,
             m.cert = Append(SignedPart(m.added, e), SignatureField(m.added, e))
      PROVE  m.cert \in Seq(AddedEntries \cup {Entry(SIGNER_ID, Uuid(e)),
                                               SignatureField(m.added, e)})
  <2> DEFINE S == AddedEntries \cup {Entry(SIGNER_ID, Uuid(e)),
                                     SignatureField(m.added, e)}
  <2>1. m.added \in Seq(S)
    BY <1>1
  <2>2. SignedPart(m.added, e) \in Seq(S)
    BY <2>1, AppendProperties DEF SignedPart
  <2> QED
    BY <1>3, <2>2, AppendProperties
<1>4. \E S : m.cert \in Seq(S)
  BY <1>1, <1>2, <1>3 DEF AsMade
<1>5. PICK S : m.cert \in Seq(S)
  BY <1>4
<1> QED
  BY <1>5

\* The fields of a certificate may arrive.
LEMMA MadeArrives ==
  ASSUME MadeInv, NEW m \in made
  PROVE  m.cert \in Seq(Arriving) /\ Len(m.cert) \in Nat
<1>1. AsMade(m)
  BY DEF MadeInv
<1>2. {m.cert[i] : i \in 1 .. Len(m.cert)} \subseteq Arriving
  BY DEF Arriving
<1>3. /\ m.cert \in Seq({m.cert[i] : i \in 1 .. Len(m.cert)})
      /\ Len(m.cert) \in Nat
  BY <1>1, CertOfMade
<1> HIDE DEF Arriving
<1>4. m.cert \in Seq(Arriving)
  BY <1>2, <1>3, SeqMonotonic
<1> QED
  BY <1>3, <1>4

\* So may what is cut and joined from two of them with new fields between.
LEMMA ReceivedArrives ==
  ASSUME MadeInv, NEW m \in made, NEW n \in made, NEW new \in NewFields,
         NEW i \in 0 .. Len(m.cert), NEW j \in {i, i + 1, i + 2} \ {0}
  PROVE  SubSeq(m.cert, 1, i) \o new \o SubSeq(n.cert, j, Len(n.cert))
           \in Seq(Arriving)
<1>1. /\ m.cert \in Seq(Arriving) /\ Len(m.cert) \in Nat
      /\ n.cert \in Seq(Arriving) /\ Len(n.cert) \in Nat
  BY MadeArrives
<1>2. i \in Int /\ j \in Int /\ 1 <= j /\ i <= Len(m.cert)
  BY <1>1
<1>3. SubSeq(m.cert, 1, i) \in Seq(Arriving)
  <2>1. \A k \in 1 .. i : m.cert[k] \in Arriving
    BY <1>1, <1>2
  <2> QED
    BY <1>2, <2>1, SubSeqProperties
<1>4. SubSeq(n.cert, j, Len(n.cert)) \in Seq(Arriving)
  <2>1. \A k \in j .. Len(n.cert) : n.cert[k] \in Arriving
    BY <1>1, <1>2
  <2> QED
    BY <1>1, <1>2, <2>1, SubSeqProperties
<1>5. new \in Seq(Arriving)
  <2>a. /\ {Entry(id, Plain(Empty)) : id \in Ids} \subseteq Arriving
        /\ {Entry(SIGNER_ID, Uuid(e)) : e \in Entities} \subseteq Arriving
    BY DEF Arriving
  <2>1. \A id \in Ids : Entry(id, Plain(Empty)) \in Arriving
    BY <2>a
  <2>2. \A e \in Entities : Entry(SIGNER_ID, Uuid(e)) \in Arriving
    BY <2>a
  <2> HIDE DEF Arriving
  <2>3. ASSUME NEW f \in Arriving PROVE <<f>> \in Seq(Arriving)
    OBVIOUS
  <2>4. << >> \in Seq(Arriving)
    BY EmptySeq
  <2> QED
    BY <2>1, <2>2, <2>3, <2>4 DEF NewFields
<1>6. SubSeq(m.cert, 1, i) \o new \in Seq(Arriving)
  BY <1>3, <1>5, ConcatProperties
<1> QED
  BY <1>4, <1>6, ConcatProperties

\* At first there is nothing to parse or to read.
LEMMA ParserInit == Init => ParserInv /\ PlaceInv /\ ReaderInv
BY DEF Init, ParserInv, PlaceInv, ReaderInv

\* The native half looks at all of the certificate.
LEMMA RawIsAll ==
  ASSUME ParserInv, parser # None
  PROVE  Raw = parser.certificate /\ Len(Raw) \in Nat
<1>1. /\ parser.certificate \in Seq(Arriving)
      /\ parser.rawSize = Len(parser.certificate)
  BY DEF ParserInv
<1> QED
  BY <1>1, SubSeqFull DEF Raw

\* The first signature of a certificate that has one is in it.
LEMMA SignaturePlace ==
  ASSUME ParserInv, parser # None, Places(Raw, SIGNATURE) # {}
  PROVE  /\ SignatureAt \in 1 .. Len(Raw)
         /\ Raw[SignatureAt].id = SIGNATURE
         /\ \A i \in 1 .. Len(Raw) : Raw[i].id = SIGNATURE => SignatureAt <= i
<1>1. Len(Raw) \in Nat
  BY RawIsAll
<1>2. Places(Raw, SIGNATURE) \in SUBSET Nat
  BY <1>1, PlacesFinite
<1>3. /\ SignatureAt \in Places(Raw, SIGNATURE)
      /\ \A i \in Places(Raw, SIGNATURE) : SignatureAt <= i
  BY <1>2, FirstIsLeast DEF SignatureAt
<1> QED
  BY <1>3 DEF Places

\* What of a certificate that was received changes, and when.
LEMMA ParserFrame ==
  [Next]_vars => \/ Build \/ Transport \/ AttestPasses
                 \/ UNCHANGED <<parser, attestedBy, made>>
<1>1. \A contract \in BOOLEAN :
        Attest(contract) => UNCHANGED <<parser, attestedBy, made>>
  BY DEF Attest
<1>2. AttestFails \/ Resolve \/ DelegateThrows \/ DelegateReturnsNull
        => UNCHANGED <<parser, attestedBy, made>>
  BY DEF AttestFails, Resolve, DelegateThrows, DelegateReturnsNull
<1>3. ResolveFails \/ MissingSigningCert \/ AttestRefuses
        => UNCHANGED <<parser, attestedBy, made>>
  BY DEF ResolveFails, MissingSigningCert, AttestRefuses
<1>4. (\E e \in Entities : Read(e)) \/ LoadSecretKey
        => UNCHANGED <<parser, attestedBy, made>>
  BY DEF Read, LoadSecretKey
<1> QED
  BY <1>1, <1>2, <1>3, <1>4 DEF Next, AttestStep, vars

\* The size of a parser is the whole certificate's, or attest() passed and it
\* is the size of what the signature covers.
LEMMA ParserStep ==
  MadeInv /\ ParserInv /\ PlaceInv /\ [Next]_vars => ParserInv'
<1> SUFFICES ASSUME MadeInv, ParserInv, PlaceInv, [Next]_vars PROVE ParserInv'
  OBVIOUS
<1>1. CASE Build
  BY <1>1, BuildOnlyAdds DEF ParserInv
<1>2. CASE UNCHANGED <<parser, attestedBy, made>>
  <2>1. Arriving' = Arriving /\ Raw' = Raw
    BY <1>2 DEF Arriving, Raw
  <2>2. SignatureAt' = SignatureAt /\ SignerId' = SignerId
    BY <2>1 DEF SignatureAt, SignerId
  <2>3. Vouched' <=> Vouched
    BY <1>2, <2>1, <2>2 DEF Vouched, SignatureFits
  <2> QED
    BY <1>2, <2>1, <2>3 DEF ParserInv
<1>3. CASE Transport
  <2>1. PICK m \in made, n \in made, new \in NewFields :
          \E i \in 0 .. Len(m.cert) : \E j \in {i, i + 1, i + 2} \ {0} :
            Receive(m, n, i, j, new)
    BY <1>3 DEF Transport
  <2>a. PICK i \in 0 .. Len(m.cert) :
          \E j \in {i, i + 1, i + 2} \ {0} : Receive(m, n, i, j, new)
    BY <2>1
  <2>2. PICK j \in {i, i + 1, i + 2} \ {0} : Receive(m, n, i, j, new)
    BY <2>a
  <2> DEFINE cert == SubSeq(m.cert, 1, i) \o new \o SubSeq(n.cert, j, Len(n.cert))
  <2>3. cert \in Seq(Arriving)
    BY ReceivedArrives
  <2> HIDE DEF cert
  <2>4. /\ parser = None
        /\ parser' = [kind |-> "parser", certificate |-> cert,
                      size |-> Len(cert), rawSize |-> Len(cert)]
        /\ made' = made /\ attestedBy' = attestedBy
    BY <2>2 DEF Receive, cert
  <2>5. attestedBy' = None
    BY <2>4 DEF ParserInv
  <2>6. Arriving' = Arriving
    BY <2>4 DEF Arriving
  <2>7. Len(cert) \in Nat
    BY <2>3
  <2>8. parser' \in [kind : {"parser"}, certificate : Seq(Arriving),
                     size : Nat, rawSize : Nat]
    BY <2>3, <2>4, <2>7
  <2>9. /\ parser'.rawSize = Len(parser'.certificate)
        /\ parser'.size = Len(parser'.certificate)
    BY <2>4
  <2> QED
    BY <2>5, <2>6, <2>8, <2>9 DEF ParserInv
<1>4. CASE AttestPasses
  <2>1. /\ parser # None /\ SignatureFits
        /\ parser' = [parser EXCEPT !.size = SignatureAt - 1]
        /\ attestedBy' = SignerId /\ made' = made
        /\ attesting.pc = "verify"
    BY <1>4 DEF AttestPasses, Attesting
  <2>2. Places(Raw, SIGNATURE) # {}
    BY <2>1 DEF PlaceInv
  <2>3. SignatureAt \in 1 .. Len(Raw) /\ Len(Raw) \in Nat
    BY <2>1, <2>2, SignaturePlace, RawIsAll
  <2>4. SignatureAt - 1 \in Nat
    BY <2>3
  <2>5. parser \in [kind : {"parser"}, certificate : Seq(Arriving),
                    size : Nat, rawSize : Nat]
        /\ parser.rawSize = Len(parser.certificate)
    BY <2>1 DEF ParserInv
  <2>6. /\ parser' \in [kind : {"parser"}, certificate : Seq(Arriving),
                        size : Nat, rawSize : Nat]
        /\ parser'.certificate = parser.certificate
        /\ parser'.rawSize = parser.rawSize /\ parser'.size = SignatureAt - 1
    BY <2>1, <2>4, <2>5
  <2>7. Arriving' = Arriving /\ Raw' = Raw
    BY <2>1, <2>6 DEF Arriving, Raw
  <2>8. SignatureAt' = SignatureAt /\ SignerId' = SignerId
    BY <2>7 DEF SignatureAt, SignerId
  <2>9. Vouched'
    BY <2>1, <2>2, <2>6, <2>7, <2>8 DEF Vouched, SignatureFits
  <2>10. parser' # None
    <3>1. parser'.kind = "parser" /\ None.kind = "none"
      BY <2>6 DEF None
    <3> QED
      BY <3>1
  <2> QED
    BY <2>5, <2>6, <2>7, <2>9, <2>10 DEF ParserInv
<1> QED
  BY <1>1, <1>2, <1>3, <1>4, ParserFrame

-----------------------------------------------------------------------------
\* attest() ends early if there is no signature.
LEMMA PlaceStep ==
  ParserInv /\ PlaceInv /\ [Next]_vars => PlaceInv'
<1> SUFFICES ASSUME ParserInv, PlaceInv, [Next]_vars PROVE PlaceInv'
  OBVIOUS
<1> DEFINE Kept == UNCHANGED parser /\ Raw' = Raw
<1>1. UNCHANGED parser => Kept
  BY DEF Raw
<1>2. CASE UNCHANGED <<parser, attesting>>
  BY <1>1, <1>2 DEF PlaceInv
<1>3. ASSUME NEW contract \in BOOLEAN, Attest(contract) PROVE PlaceInv'
  <2>1. /\ Places(Raw, SIGNATURE) # {} /\ parser # None /\ UNCHANGED parser
        /\ attesting'.pc = "resolve" /\ attesting'.result = FALSE
    BY <1>3 DEF Attest, Attesting
  <2> QED
    BY <1>1, <2>1 DEF PlaceInv
<1>4. ASSUME NEW pc \in {"unresolved", "verify"}, NEW threw, Go(pc, threw),
             Attesting({"resolve"}), UNCHANGED parser
      PROVE  PlaceInv'
  <2>1. attesting'.pc = pc /\ attesting'.result = FALSE
    BY <1>4 DEF Go
  <2>2. parser # None /\ Places(Raw, SIGNATURE) # {}
    BY <1>4 DEF PlaceInv, Attesting
  <2> QED
    BY <1>1, <1>4, <2>1, <2>2 DEF PlaceInv
<1>5. ASSUME NEW threw, NEW result \in BOOLEAN, Return(threw, result)
      PROVE  PlaceInv'
  <2>1. attesting'.pc = "over" /\ attesting'.result = result
    BY <1>5 DEF Return
  <2> QED
    BY <1>5, <2>1 DEF PlaceInv
<1>6. CASE AttestFails
  BY <1>5, <1>6 DEF AttestFails
<1>7. CASE Resolve
  BY <1>4, <1>7 DEF Resolve
<1>8. CASE DelegateThrows
  BY <1>4, <1>8 DEF DelegateThrows
<1>9. CASE DelegateReturnsNull
  BY <1>4, <1>9 DEF DelegateReturnsNull
<1>10. CASE ResolveFails
  BY <1>4, <1>10 DEF ResolveFails
<1>11. CASE MissingSigningCert
  BY <1>5, <1>11 DEF MissingSigningCert
<1>12. CASE AttestPasses
  BY <1>5, <1>12 DEF AttestPasses
<1>13. CASE AttestRefuses
  BY <1>5, <1>13 DEF AttestRefuses
<1>14. CASE AttestStep
  BY <1>3, <1>6, <1>7, <1>8, <1>9, <1>10, <1>11, <1>12, <1>13, <1>14
     DEF AttestStep
<1>15. CASE Build
  BY <1>2, <1>15, BuildOnlyAdds
<1>16. CASE Transport
  <2>1. parser = None /\ UNCHANGED attesting
    BY <1>16 DEF Transport, Receive
  <2> QED
    BY <2>1 DEF PlaceInv
<1>17. (\E e \in Entities : Read(e)) \/ LoadSecretKey
         => UNCHANGED <<parser, attesting>>
  BY DEF Read, LoadSecretKey
<1>18. UNCHANGED vars => UNCHANGED <<parser, attesting>>
  BY DEF vars
<1> QED
  BY <1>2, <1>14, <1>15, <1>16, <1>17, <1>18 DEF Next

-----------------------------------------------------------------------------
\* A fragment that names the reader gives the right key.
LEMMA ReaderStep ==
  ParserInv /\ ReaderInv /\ [Next]_vars => ReaderInv'
<1> SUFFICES ASSUME ParserInv, ReaderInv, [Next]_vars PROVE ReaderInv'
  OBVIOUS
<1>1. ASSUME reader = None, reader' = reader PROVE ReaderInv'
  BY <1>1 DEF ReaderInv
<1>2. ASSUME UNCHANGED <<parser, attestedBy>> PROVE CertFields' = CertFields
  <2>1. Parsed' = Parsed
    BY <1>2 DEF Parsed
  <2> QED
    BY <2>1 DEF CertFields
<1>3. CASE Build \/ Transport
  <2>1. parser = None /\ UNCHANGED reader
    BY <1>3, BuildOnlyAdds DEF Transport, Receive
  <2>2. reader = None
    BY <2>1 DEF ReaderInv
  <2> QED
    BY <1>1, <2>1, <2>2
<1>4. CASE AttestStep
  <2>1. \A contract \in BOOLEAN :
          Attest(contract) => reader = None /\ UNCHANGED reader
    BY DEF Attest, Attesting
  <2>2. AttestFails \/ Resolve \/ DelegateThrows \/ DelegateReturnsNull
          => reader = None /\ UNCHANGED reader
    BY DEF AttestFails, Resolve, DelegateThrows, DelegateReturnsNull, Attesting
  <2>3. ResolveFails \/ MissingSigningCert \/ AttestPasses \/ AttestRefuses
          => reader = None /\ UNCHANGED reader
    BY DEF ResolveFails, MissingSigningCert, AttestPasses, AttestRefuses,
           Attesting
  <2> QED
    BY <1>1, <1>4, <2>1, <2>2, <2>3 DEF AttestStep
<1>5. ASSUME NEW e \in Entities, Read(e) PROVE ReaderInv'
  <2>1. /\ parser # None /\ UNCHANGED <<parser, attestedBy>>
        /\ reader' = [kind |-> "reader", uuid |-> e, secretKey |-> "none",
                      certFields |-> CertFields, attestedBy |-> attestedBy]
    BY <1>5 DEF Read, CertFields
  <2> QED
    BY <1>2, <2>1 DEF ReaderInv
<1>6. CASE LoadSecretKey
  <2>1. /\ reader # None /\ UNCHANGED <<parser, attestedBy>>
    BY <1>6 DEF LoadSecretKey
  <2>2. PICK f : /\ f.to = reader.uuid
                 /\ reader' = [reader EXCEPT !.secretKey =
                                Decrypted(f, reader.uuid)]
    BY <1>6 DEF LoadSecretKey
  <2>3. reader' = [reader EXCEPT !.secretKey = "right"]
    BY <2>2 DEF Decrypted
  <2>4. PICK e \in Entities, k \in {"none", "right"} :
          reader = [kind |-> "reader", uuid |-> e, secretKey |-> k,
                    certFields |-> CertFields, attestedBy |-> attestedBy]
    BY <2>1 DEF ReaderInv
  <2>5. reader' = [kind |-> "reader", uuid |-> e, secretKey |-> "right",
                   certFields |-> CertFields, attestedBy |-> attestedBy]
    BY <2>3, <2>4
  <2>6. parser # None
    BY <2>1 DEF ReaderInv
  <2> QED
    BY <1>2, <2>1, <2>5, <2>6 DEF ReaderInv
<1>7. CASE UNCHANGED vars
  <2>1. UNCHANGED <<parser, attestedBy, reader>>
    BY <1>7 DEF vars
  <2> QED
    BY <1>2, <2>1 DEF ReaderInv
<1> QED
  BY <1>3, <1>4, <1>5, <1>6, <1>7 DEF Next

\* The invariant of certificates.
LEMMA CertInvariant == Spec => []CertInv
<1>1. Init => CertInv
  BY BuilderInit, MadeInit, ParserInit DEF CertInv
<1>2. CertInv /\ [Next]_vars => CertInv'
  BY BuilderStep, MadeStep, ParserStep, PlaceStep, ReaderStep DEF CertInv
<1> QED
  BY <1>1, <1>2, PTL DEF Spec

-----------------------------------------------------------------------------
(* What a reader reads.                                                    *)

\* A field with another id changes nothing under an id.
LEMMA ValuesOfAppend ==
  ASSUME NEW S, NEW s \in Seq(S), NEW f, NEW id, f.id # id
  PROVE  ValuesOf(Append(s, f), id) = ValuesOf(s, id)
<1> DEFINE t == Append(s, f)
<1>1. s \in Seq(S \cup {f})
  BY SeqMonotonic
<1>2. /\ Len(s) \in Nat /\ Len(t) = Len(s) + 1
      /\ \A i \in 1 .. Len(s) : t[i] = s[i]
      /\ t[Len(s) + 1] = f
  BY <1>1, AppendProperties
<1> HIDE DEF t
<1>3. ASSUME NEW i \in 1 .. Len(t), t[i].id = id PROVE i \in 1 .. Len(s)
  <2>1. i # Len(s) + 1
    BY <1>2, <1>3
  <2> QED
    BY <1>2, <2>1
<1>4. ASSUME NEW i \in 1 .. Len(s) PROVE i \in 1 .. Len(t) /\ t[i] = s[i]
  BY <1>2
<1>5. Places(s, id) = Places(t, id)
  BY <1>3, <1>4 DEF Places
<1>6. \A i \in Places(s, id) : s[i].value = t[i].value
  BY <1>4 DEF Places
<1>7. ValuesOf(s, id) = ValuesOf(t, id)
  BY <1>2, <1>5, <1>6, ValuesOfSame
<1> QED
  BY <1>7 DEF t

\* Neither sign()'s fields nor the signature are among what was added.
LEMMA SignedHasAdded ==
  ASSUME NEW a \in Seq(AddedEntries), NEW e, NEW id \in AllIds
  PROVE  /\ ValuesOf(SignedPart(a, e), id) = ValuesOf(a, id)
         /\ ValuesOf(Append(SignedPart(a, e), SignatureField(a, e)), id)
              = ValuesOf(a, id)
<1> DEFINE S == AddedEntries \cup {Entry(SIGNER_ID, Uuid(e))}
<1>1. id # SIGNER_ID /\ id # SIGNATURE
  BY IdFacts
<1>2. /\ Entry(SIGNER_ID, Uuid(e)).id = SIGNER_ID
      /\ SignatureField(a, e).id = SIGNATURE
  BY DEF Entry, SignatureField
<1>3. SignedPart(a, e) \in Seq(S)
  <2>1. a \in Seq(S)
    OBVIOUS
  <2> QED
    BY <2>1, AppendProperties DEF SignedPart
<1>4. ValuesOf(SignedPart(a, e), id) = ValuesOf(a, id)
  BY <1>1, <1>2, ValuesOfAppend DEF SignedPart
<1> HIDE DEF S
<1>5. ValuesOf(Append(SignedPart(a, e), SignatureField(a, e)), id)
        = ValuesOf(SignedPart(a, e), id)
  BY <1>1, <1>2, <1>3, ValuesOfAppend
<1> QED
  BY <1>4, <1>5

\* Where the signer and the signature are.
LEMMA SignedPlaces ==
  ASSUME NEW a \in Seq(AddedEntries), NEW e
  PROVE  /\ Len(a) \in Nat
         /\ Len(SignedPart(a, e)) = Len(a) + 1
         /\ Len(Append(SignedPart(a, e), SignatureField(a, e))) = Len(a) + 2
         /\ \A i \in 1 .. Len(a) :
              /\ SignedPart(a, e)[i] = a[i]
              /\ a[i].id \in AllIds /\ a[i].value \in Held
         /\ SignedPart(a, e)[Len(a) + 1] = Entry(SIGNER_ID, Uuid(e))
         /\ \A i \in 1 .. Len(a) + 1 :
              Append(SignedPart(a, e), SignatureField(a, e))[i]
                = SignedPart(a, e)[i]
         /\ Append(SignedPart(a, e), SignatureField(a, e))[Len(a) + 2]
              = SignatureField(a, e)
<1> DEFINE S == AddedEntries \cup {Entry(SIGNER_ID, Uuid(e)), SignatureField(a, e)}
           s == SignedPart(a, e)
           c == Append(s, SignatureField(a, e))
<1>1. a \in Seq(S) /\ Len(a) \in Nat
  OBVIOUS
<1>2. Entry(SIGNER_ID, Uuid(e)) \in S /\ SignatureField(a, e) \in S
  OBVIOUS
<1>3. ASSUME NEW i \in 1 .. Len(a) PROVE a[i].id \in AllIds /\ a[i].value \in Held
  <2>1. a[i] \in AddedEntries
    OBVIOUS
  <2> QED
    BY <2>1 DEF AddedEntries
<1> HIDE DEF S
<1>4. /\ s \in Seq(S) /\ Len(s) = Len(a) + 1
      /\ \A i \in 1 .. Len(a) : s[i] = a[i]
      /\ s[Len(a) + 1] = Entry(SIGNER_ID, Uuid(e))
  BY <1>1, <1>2, AppendProperties DEF SignedPart
<1> HIDE DEF s
<1>5. /\ Len(c) = Len(s) + 1
      /\ \A i \in 1 .. Len(s) : c[i] = s[i]
      /\ c[Len(s) + 1] = SignatureField(a, e)
  BY <1>2, <1>4, AppendProperties
<1>6. Len(c) = Len(a) + 2 /\ Len(s) + 1 = Len(a) + 2
  BY <1>1, <1>4, <1>5
<1> HIDE DEF c
<1> QED
  BY <1>1, <1>3, <1>4, <1>5, <1>6 DEF s, c

\* A signature that arrives is one that sign() made, of what it made it of.
LEMMA SignatureIsMade ==
  ASSUME MadeInv, NEW f \in Arriving, f.value.kind = "signature"
  PROVE  \E m \in made, e \in Entities :
           /\ m.added \in Seq(AddedEntries) /\ m.signer = Uuid(e)
           /\ f.value = Signature(e, SignedPart(m.added, e))
<1>1. ASSUME NEW id \in Ids, f = Entry(id, Plain(Empty)) PROVE FALSE
  BY <1>1 DEF Entry, Plain
<1>2. ASSUME NEW e \in Entities, f = Entry(SIGNER_ID, Uuid(e)) PROVE FALSE
  BY <1>2 DEF Entry, Uuid
<1>3. PICK m \in made : \E i \in 1 .. Len(m.cert) : f = m.cert[i]
  BY <1>1, <1>2 DEF Arriving
<1>4. PICK i \in 1 .. Len(m.cert) : f = m.cert[i]
  BY <1>3
<1>5. AsMade(m) /\ m.added \in Seq(AddedEntries)
  BY DEF MadeInv, AsMade
<1>6. \A v \in Held : v.kind # "signature"
  BY DEF Held, Plain, Encrypted, Secret
<1>7. ASSUME m.cert = m.added PROVE FALSE
  <2>1. m.added[i] \in AddedEntries
    BY <1>4, <1>5, <1>7
  <2>2. f.value \in Held
    BY <1>4, <1>7, <2>1 DEF AddedEntries
  <2> QED
    BY <1>6, <2>2
<1>8. PICK e \in Entities :
        /\ m.signer = Uuid(e)
        /\ m.cert = Append(SignedPart(m.added, e), SignatureField(m.added, e))
  BY <1>5, <1>7 DEF AsMade
<1>9. ASSUME i \in 1 .. Len(m.added) PROVE FALSE
  <2>1. f = m.added[i] /\ m.added[i].value \in Held
    <3>1. i \in 1 .. Len(m.added) + 1
      BY <1>5, <1>9, SignedPlaces
    <3> QED
      BY <1>4, <1>5, <1>8, <1>9, <3>1, SignedPlaces
  <2> QED
    BY <1>6, <2>1
<1>10. ASSUME i = Len(m.added) + 1 PROVE FALSE
  <2>1. i \in 1 .. Len(m.added) + 1
    BY <1>5, <1>10, SignedPlaces
  <2>2. f = Entry(SIGNER_ID, Uuid(e))
    BY <1>4, <1>5, <1>8, <1>10, <2>1, SignedPlaces
  <2> QED
    BY <1>2, <2>2
<1>11. i = Len(m.added) + 2
  <2>1. Len(m.added) \in Nat /\ Len(m.cert) = Len(m.added) + 2
    BY <1>5, <1>8, SignedPlaces
  <2> QED
    BY <1>9, <1>10, <2>1
<1>12. f = SignatureField(m.added, e)
  BY <1>4, <1>5, <1>8, <1>11, SignedPlaces
<1>13. f.value = Signature(e, SignedPart(m.added, e))
  BY <1>12 DEF SignatureField, Entry
<1> QED
  BY <1>5, <1>8, <1>13

-----------------------------------------------------------------------------
\* What a reader finds under an id.
LEMMA GetIsValues ==
  ASSUME ParserInv, ReaderInv, reader # None, NEW id
  PROVE  Get(id) = ValuesOf(Parsed, id)
<1>1. parser # None /\ reader.certFields = CertFields
  BY DEF ReaderInv
<1> DEFINE ids == {Parsed[i].id : i \in DOMAIN Parsed}
<1>2. CertFields = [x \in ids |-> ValuesOf(Parsed, x)]
  BY DEF CertFields
<1>3. CASE id \in ids
  BY <1>1, <1>2, <1>3 DEF Get
<1>4. CASE id \notin ids
  <2>1. Get(id) = << >>
    BY <1>1, <1>2, <1>4 DEF Get
  <2>2. DOMAIN Parsed = 1 .. Len(Parsed)
    <3>1. \A i \in 1 .. parser.size : parser.certificate[i] \in
            {parser.certificate[k] : k \in 1 .. parser.size}
      OBVIOUS
    <3>2. parser.size \in Int
      BY <1>1 DEF ParserInv
    <3>3. Parsed \in Seq({parser.certificate[k] : k \in 1 .. parser.size})
      BY <3>1, <3>2, SubSeqProperties DEF Parsed
    <3> QED
      BY <3>3
  <2>3. Places(Parsed, id) = {}
    BY <1>4, <2>2 DEF Places
  <2>4. Cardinality({}) = 0
    BY FS_EmptySet
  <2>5. ValuesOf(Parsed, id) = [k \in 1 .. 0 |-> Parsed[Nth({}, k)].value]
    BY <2>3, <2>4 DEF ValuesOf
  <2>6. ValuesOf(Parsed, id) = << >>
    BY <2>5
  <2> QED
    BY <2>1, <2>6
<1> QED
  BY <1>3, <1>4

\* After attest(), the parser gives what the signer signed.
LEMMA VouchedIsSigned ==
  ASSUME CertInv, parser # None, Vouched
  PROVE  \E m \in made, e \in Entities :
           /\ m.added \in Seq(AddedEntries) /\ m.signer = Uuid(e)
           /\ attestedBy = Uuid(e)
           /\ Parsed = SignedPart(m.added, e)
<1>1. /\ ParserInv /\ MadeInv
      /\ parser.certificate \in Seq(Arriving)
      /\ Raw = parser.certificate /\ Len(Raw) \in Nat
  BY RawIsAll DEF CertInv, ParserInv
<1>2. /\ SignatureAt \in 1 .. Len(Raw)
      /\ Raw[SignatureAt].value =
           Signature(SignerId.of, SubSeq(Raw, 1, SignatureAt - 1))
      /\ parser.size = SignatureAt - 1 /\ attestedBy = SignerId
  BY <1>1, SignaturePlace DEF Vouched, SignatureFits
<1>3. Raw[SignatureAt] \in Arriving /\ Raw[SignatureAt].value.kind = "signature"
  BY <1>1, <1>2 DEF Signature
<1>4. PICK m \in made, e \in Entities :
        /\ m.added \in Seq(AddedEntries) /\ m.signer = Uuid(e)
        /\ Raw[SignatureAt].value = Signature(e, SignedPart(m.added, e))
  BY <1>1, <1>3, SignatureIsMade
<1> DEFINE n == Len(m.added)
<1>5. SubSeq(Raw, 1, SignatureAt - 1) = SignedPart(m.added, e)
  BY <1>2, <1>4 DEF Signature
<1>6. Parsed = SignedPart(m.added, e)
  BY <1>1, <1>2, <1>5 DEF Parsed
<1>7. /\ n \in Nat /\ SignatureAt - 1 = n + 1
      /\ \A i \in 1 .. n + 1 : Raw[i] = SignedPart(m.added, e)[i]
  <2>1. SignatureAt \in Int /\ SignatureAt - 1 \in Int /\ 0 <= SignatureAt - 1
    BY <1>1, <1>2
  <2>2. \A i \in 1 .. SignatureAt - 1 : Raw[i] \in Arriving
    BY <1>1, <1>2
  <2>3. /\ Len(SubSeq(Raw, 1, SignatureAt - 1)) = SignatureAt - 1
        /\ \A i \in 1 .. SignatureAt - 1 :
             SubSeq(Raw, 1, SignatureAt - 1)[i] = Raw[i]
    BY <2>1, <2>2, SubSeqProperties
  <2>4. n \in Nat /\ Len(SignedPart(m.added, e)) = n + 1
    BY <1>4, SignedPlaces
  <2> QED
    BY <1>5, <2>1, <2>3, <2>4
<1>8. /\ Raw[n + 1] = Entry(SIGNER_ID, Uuid(e))
      /\ \A i \in 1 .. n : Raw[i].id \in AllIds
  BY <1>4, <1>7, SignedPlaces
<1>9. /\ n + 1 \in Places(Raw, SIGNER_ID)
      /\ \A i \in Places(Raw, SIGNER_ID) : n + 1 <= i
  <2>1. n + 1 \in 1 .. Len(Raw)
    BY <1>1, <1>2, <1>7
  <2>2. Raw[n + 1].id = SIGNER_ID
    BY <1>8 DEF Entry
  <2>3. ASSUME NEW i \in 1 .. Len(Raw), Raw[i].id = SIGNER_ID PROVE n + 1 <= i
    <3>1. i \notin 1 .. n
      BY <1>8, <2>3, IdFacts
    <3> QED
      BY <1>7, <3>1
  <2> QED
    BY <2>1, <2>2, <2>3 DEF Places
<1>10. First(Places(Raw, SIGNER_ID)) = n + 1
  <2> DEFINE P == Places(Raw, SIGNER_ID)
  <2>1. P \in SUBSET Nat /\ P # {}
    BY <1>1, <1>9, PlacesFinite
  <2> HIDE DEF P
  <2>2. First(P) \in P /\ \A j \in P : First(P) <= j
    BY <2>1, FirstIsLeast
  <2>3. First(P) \in Nat /\ n + 1 <= First(P) /\ First(P) <= n + 1
    BY <1>9, <2>1, <2>2 DEF P
  <2>4. First(P) = n + 1
    BY <1>7, <2>3
  <2> QED
    BY <2>4 DEF P
<1>11. SignerId = Uuid(e)
  BY <1>8, <1>10 DEF SignerId, Entry
<1> QED
  BY <1>2, <1>4, <1>6, <1>11

\* A reader that was made after attest() has what one call of sign() signed.
LEMMA InvAttestedIsSigned == CertInv => AttestedIsSigned
<1> SUFFICES ASSUME CertInv, reader # None, reader.attestedBy # None
             PROVE  \E m \in made :
                      /\ m.signer = reader.attestedBy
                      /\ \A id \in AllIds : Get(id) = AddedAs(m, id)
  BY DEF AttestedIsSigned
<1>1. ParserInv /\ ReaderInv /\ parser # None /\ reader.attestedBy = attestedBy
  BY DEF CertInv, ReaderInv
<1>2. Vouched
  BY <1>1 DEF ParserInv
<1>3. PICK m \in made, e \in Entities :
        /\ m.added \in Seq(AddedEntries) /\ m.signer = Uuid(e)
        /\ attestedBy = Uuid(e)
        /\ Parsed = SignedPart(m.added, e)
  BY <1>1, <1>2, VouchedIsSigned
<1>4. \A id \in AllIds : Get(id) = AddedAs(m, id)
  BY <1>1, <1>3, GetIsValues, SignedHasAdded DEF AddedAs
<1> QED
  BY <1>1, <1>3, <1>4

\* What the parser gives of a certificate that was not altered, before and
\* after attest().
LEMMA UnalteredHasAdded ==
  ASSUME CertInv, parser # None, NEW m \in made, parser.certificate = m.cert,
         NEW id \in AllIds
  PROVE  ValuesOf(Parsed, id) = ValuesOf(m.added, id)
<1>1. /\ ParserInv /\ AsMade(m) /\ m.added \in Seq(AddedEntries)
      /\ parser.certificate \in Seq(Arriving)
      /\ Raw = m.cert /\ Len(Raw) \in Nat
  BY RawIsAll DEF CertInv, MadeInv, AsMade, ParserInv
<1>2. CASE parser.size = Len(parser.certificate)
  <2>1. Parsed = m.cert
    BY <1>1, <1>2, SubSeqFull DEF Parsed
  <2> QED
    BY <1>1, <2>1, SignedHasAdded DEF AsMade
<1>3. CASE parser.size # Len(parser.certificate)
  <2>1. Vouched
    BY <1>3, <1>1 DEF ParserInv
  <2>2. /\ SignatureAt \in 1 .. Len(Raw) /\ Raw[SignatureAt].id = SIGNATURE
        /\ parser.size = SignatureAt - 1
    BY <1>1, <2>1, SignaturePlace DEF Vouched
  <2>3. ASSUME m.cert = m.added PROVE FALSE
    <3>1. m.added[SignatureAt] \in AddedEntries
      BY <1>1, <2>2, <2>3
    <3>2. m.added[SignatureAt].id = SIGNATURE
      BY <1>1, <2>2, <2>3
    <3> QED
      BY <3>1, <3>2, IdFacts DEF AddedEntries
  <2>4. PICK e \in Entities :
          m.cert = Append(SignedPart(m.added, e), SignatureField(m.added, e))
    BY <1>1, <2>3 DEF AsMade
  <2> DEFINE n == Len(m.added)
  <2>5. n \in Nat /\ Len(Raw) = n + 2
    BY <1>1, <2>4, SignedPlaces
  <2>6. ASSUME SignatureAt \in 1 .. n + 1 PROVE FALSE
    <3>1. Raw[SignatureAt] = SignedPart(m.added, e)[SignatureAt]
      BY <1>1, <2>4, <2>6, SignedPlaces
    <3>2. CASE SignatureAt \in 1 .. n
      <4>1. Raw[SignatureAt].id \in AllIds
        BY <1>1, <3>1, <3>2, SignedPlaces
      <4> QED
        BY <2>2, <4>1, IdFacts
    <3>3. CASE SignatureAt = n + 1
      <4>1. Raw[SignatureAt] = Entry(SIGNER_ID, Uuid(e))
        BY <1>1, <3>1, <3>3, SignedPlaces
      <4>2. Raw[SignatureAt].id = SIGNER_ID
        BY <4>1 DEF Entry
      <4> QED
        BY <2>2, <4>2, IdFacts
    <3> QED
      BY <2>5, <2>6, <3>2, <3>3
  <2>7. parser.size = n + 1
    BY <2>2, <2>5, <2>6
  <2>8. Parsed = SignedPart(m.added, e)
    <3> DEFINE s == SignedPart(m.added, e)
               S == AddedEntries \cup {Entry(SIGNER_ID, Uuid(e))}
    <3>1. m.added \in Seq(S)
      BY <1>1, SeqMonotonic
    <3>2. s \in Seq(S) /\ Len(s) = n + 1
      BY <3>1, AppendProperties DEF SignedPart
    <3>3. \A i \in 1 .. n + 1 : m.cert[i] = s[i]
      BY <1>1, <2>4, SignedPlaces
    <3> HIDE DEF s, S
    <3>4. \A i \in 1 .. n + 1 : m.cert[i] \in S
      BY <3>2, <3>3
    <3>5. /\ SubSeq(m.cert, 1, n + 1) \in Seq(S)
          /\ Len(SubSeq(m.cert, 1, n + 1)) = n + 1
          /\ \A i \in 1 .. n + 1 : SubSeq(m.cert, 1, n + 1)[i] = m.cert[i]
      BY <2>5, <3>4, SubSeqProperties
    <3>6. SubSeq(m.cert, 1, n + 1) = s
      BY <3>2, <3>3, <3>5, SeqEqual
    <3> QED
      BY <2>7, <3>6 DEF Parsed, s
  <2> QED
    BY <1>1, <2>8, SignedHasAdded
<1> QED
  BY <1>2, <1>3

\* A reader of what was made finds what was added (Certificate!FieldsRoundTrip).
LEMMA InvFieldsRoundTrip == CertInv => FieldsRoundTrip
<1> SUFFICES ASSUME CertInv, reader # None, NEW m \in made,
                    parser.certificate = m.cert, NEW id \in AllIds
             PROVE  Get(id) = AddedAs(m, id)
  BY DEF FieldsRoundTrip
<1>1. ParserInv /\ ReaderInv /\ parser # None
  BY DEF CertInv, ReaderInv
<1> QED
  BY <1>1, GetIsValues, UnalteredHasAdded DEF AddedAs

\* And decrypts what was encrypted (Certificate!EncryptedRoundTrip).
LEMMA InvEncryptedRoundTrip == CertInv => EncryptedRoundTrip
<1> SUFFICES ASSUME CertInv, reader # None, reader.secretKey # "none",
                    NEW m \in made, parser.certificate = m.cert,
                    NEW id \in Ids, NEW i \in DOMAIN AddedAs(m, id),
                    AddedAs(m, id)[i].kind = "encrypted",
                    AddedAs(m, id)[i].of # Empty
             PROVE  GetEncrypted(id, i) = Plain(AddedAs(m, id)[i].of)
  BY DEF EncryptedRoundTrip
<1>1. reader.secretKey = "right"
  BY DEF CertInv, ReaderInv
<1>2. Get(id) = AddedAs(m, id)
  BY InvFieldsRoundTrip, IdFacts DEF FieldsRoundTrip
<1> QED
  BY <1>1, <1>2 DEF GetEncrypted

\* The types follow from the parts of the invariant (Certificate!TypeOK).
LEMMA InvTypeOK == CertInv => TypeOK
<1> SUFFICES ASSUME CertInv PROVE TypeOK
  OBVIOUS
<1>1. /\ added \in Seq(AddedEntries) /\ fields \in Seq(Entries)
      /\ Len(fields) = Len(added)
      /\ calls \in 0 .. MaxCalls /\ iv \in Nat /\ iv <= calls
      /\ MaxCalls \in Nat
  BY CertificateAssumption DEF CertInv, BuilderInv, IvInv
<1>2. iv \in 0 .. MaxCalls
  BY <1>1
<1>3. ASSUME NEW i \in DOMAIN fields
      PROVE  /\ -32768 <= fields[i].id /\ fields[i].id <= 32767
             /\ fields[i].value.kind \in Kinds
  <2>1. i \in 1 .. Len(added)
    BY <1>1
  <2>2. added[i] \in AddedEntries
    BY <1>1, <2>1
  <2>3. added[i].id \in FieldIds /\ added[i].value \in Held
    BY <2>2, IdFacts DEF AddedEntries
  <2>a. fields[i] = Entry(Short(added[i].id), added[i].value)
    BY <2>1 DEF CertInv, BuilderInv
  <2>4. fields[i].id = Short(added[i].id) /\ fields[i].value = added[i].value
    BY <2>a DEF Entry
  <2>5. \A v \in Held : v.kind \in Kinds
    BY DEF Held, Kinds, Plain, Encrypted, Secret
  <2>6. -32768 <= Short(added[i].id) /\ Short(added[i].id) <= 32767
    BY <2>3, WireOfShort
  <2> QED
    BY <2>3, <2>4, <2>5, <2>6
<1>4. ASSUME parser # None PROVE parser.size \in 0 .. Len(parser.certificate)
  <2>1. /\ ParserInv /\ Len(parser.certificate) \in Nat
        /\ Raw = parser.certificate
    BY <1>4, RawIsAll DEF CertInv
  <2>2. CASE Vouched
    <3>1. SignatureAt \in 1 .. Len(Raw) /\ parser.size = SignatureAt - 1
      BY <1>4, <2>1, <2>2, SignaturePlace DEF Vouched
    <3> QED
      BY <2>1, <3>1
  <2>3. CASE parser.size = Len(parser.certificate)
    BY <2>1, <2>3
  <2> QED
    BY <1>4, <2>1, <2>2, <2>3 DEF ParserInv
<1>5. /\ attesting.pc \in {"new", "over", "resolve", "unresolved", "verify"}
      /\ attesting.result \in BOOLEAN
  BY DEF CertInv, PlaceInv
<1>6. reader # None => reader.uuid \in Entities
  BY DEF CertInv, ReaderInv
<1> QED
  BY <1>1, <1>2, <1>3, <1>4, <1>5, <1>6 DEF TypeOK

\* The builder, the parser and the reader hold what their types say.
THEOREM TypeCorrect == Spec => []TypeOK
BY CertInvariant, InvTypeOK, PTL

\* A reader that was made after attest() passed has all that one call of
\* sign() signed and nothing else, whatever was done to the certificate.
THEOREM ReadsWhatWasSigned == Spec => []AttestedIsSigned
BY CertInvariant, InvAttestedIsSigned, PTL

\* A certificate that was not altered is read as it was built.
THEOREM ReadsWhatWasAdded == Spec => []FieldsRoundTrip
BY CertInvariant, InvFieldsRoundTrip, PTL

\* Whoever has the secret key reads what was encrypted.
THEOREM DecryptsWhatWasAdded == Spec => []EncryptedRoundTrip
BY CertInvariant, InvEncryptedRoundTrip, PTL
=============================================================================
