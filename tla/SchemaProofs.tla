---------------------------- MODULE SchemaProofs ----------------------------
(***************************************************************************)
(* Proofs about SchemaEncoder, for any schemas, subjects and jobs.  The    *)
(* argument: the service gives every schema one id and forgets nothing, so *)
(* what holds of a payload when it is framed goes on to hold; and two      *)
(* payloads that carry the same schema carry the same id.                  *)
(***************************************************************************)
EXTENDS SchemaEncoder, FiniteSetTheorems, TLAPS

WireTypes == SchemaTypes \cup {"", "plain"}
Wires == [id : Nat, type : WireTypes, text : Texts \cup {NoText},
          message : Seq(Nat), index : Seq(Nat)]
Metas == [{"key", "value"} -> Nat]
JobStates == {"encoding", "encoded", "rejected"}

EncoderTypeOK ==
    /\ schemas \in Seq(Texts)
    /\ versions \in [Subjects -> Seq(Nat)]
    /\ job \in Work
    /\ wires \in [Jobs -> Seq(Wires)]
    /\ meta \in [Jobs -> Metas]
    /\ state \in [Jobs -> JobStates]

\* A schema has one id, and the versions of a subject are such ids.
RegistryInv ==
    /\ \A a, b \in DOMAIN schemas : schemas[a] = schemas[b] => a = b
    /\ \A s \in Subjects : \A v \in DOMAIN versions[s] : versions[s][v] \in DOMAIN schemas

\* A schema that field asks for, as the service knows it.
Suits(field, id, type, text) ==
    LET subject == AskedSubject(field) IN
    /\ id \in DOMAIN schemas /\ schemas[id] = text /\ type = text.kind
    /\ field.text # NoText => text = field.text
    /\ field.text = NoText /\ field.version # 0 =>
          /\ subject # NoSubject /\ field.version \in DOMAIN versions[subject]
          /\ id = versions[subject][field.version]
    /\ field.text = NoText /\ field.version = 0 /\ field.id # 0 => id = field.id
    /\ field.text # NoText \/ field.id = 0 =>
          subject # NoSubject /\ \E v \in DOMAIN versions[subject] : versions[subject][v] = id

\* The service knows the subject that field makes it look at, if there is one.
Addressed(field) == AskedSubject(field) \in Subjects \cup {NoSubject}

WireInv(j, i) ==
    wires[j][i].id # 0 =>
        /\ Suits(job[j].fields[i], wires[j][i].id, wires[j][i].type, wires[j][i].text)
        /\ job[j].fields[i].data \in wires[j][i].text.fits

\* The id of the response is there once a payload of its side has a schema,
\* and it is the id of one of them.
MetaInv(j) ==
    /\ \A i \in DOMAIN wires[j] : wires[j][i].id # 0 => meta[j][job[j].fields[i].side] # 0
    /\ \A side \in {"key", "value"} : meta[j][side] # 0 =>
          \E k \in DOMAIN wires[j] : /\ wires[j][k].id # 0 /\ job[j].fields[k].side = side
                                     /\ meta[j][side] = wires[j][k].id

JobInv(j) ==
    /\ Len(wires[j]) <= Len(job[j].fields)
    /\ \A i \in DOMAIN wires[j] : WireInv(j, i)
    /\ MetaInv(j)

SchemaInv == EncoderTypeOK /\ RegistryInv /\ \A j \in Jobs : JobInv(j)

-----------------------------------------------------------------------------
(* The service. *)

\* What Append does to the positions of a list.
LEMMA AppendGrows ==
    ASSUME NEW S, NEW s \in Seq(S), NEW x \in S, NEW n, n = Len(s), NEW t, t = Append(s, x)
    PROVE  /\ DOMAIN t = 1..(n + 1) /\ Len(t) = n + 1
           /\ \A i \in 1..n : t[i] = s[i]
           /\ t[n + 1] = x
OBVIOUS

LEMMA SetToSeqLists ==
    ASSUME NEW S, IsFiniteSet(S)
    PROVE  /\ SetToSeq(S) \in Seq(S)
           /\ \A a, b \in DOMAIN SetToSeq(S) : SetToSeq(S)[a] = SetToSeq(S)[b] => a = b
           /\ \A x \in S : \E a \in DOMAIN SetToSeq(S) : SetToSeq(S)[a] = x
<1> DEFINE n == Cardinality(S)
           f == SetToSeq(S)
<1>1. n \in Nat /\ ExistsBijection(1..n, S)
  BY FS_CardinalityType, Zenon
<1>2. PICK g \in [1..n -> S] : IsInjective(g)
  BY <1>1, Zenon DEF ExistsBijection, Bijection, Injection
<1>3. f \in [1..n -> S] /\ IsInjective(f)
  BY <1>2, Zenon DEF SetToSeq
<1>4. f \in Injection(1..n, S)
  BY <1>3, Zenon DEF Injection
<1> HIDE DEF f
<1>5. IsFiniteSet(1..n) /\ Cardinality(1..n) = n
  BY <1>1, FS_Interval
<1>6. f \in Surjection(1..n, S)
  BY <1>4, <1>5, FS_Injection, Zenon
<1>7. \A x \in S : \E a \in DOMAIN f : f[a] = x
  BY <1>3, <1>6, Zenon DEF Surjection
<1>8. f \in Seq(S)
  BY <1>1, <1>3
<1> QED
  BY <1>3, <1>7, <1>8, Zenon DEF IsInjective, f

LEMMA InitRegistry ==
    ASSUME RegistryInit
    PROVE  schemas \in Seq(Texts) /\ versions \in [Subjects -> Seq(Nat)] /\ RegistryInv
<1>1. /\ schemas \in Seq(SeededTexts)
      /\ \A a, b \in DOMAIN schemas : schemas[a] = schemas[b] => a = b
      /\ \A x \in SeededTexts : \E a \in DOMAIN schemas : schemas[a] = x
  BY RegistryAssumption, SetToSeqLists, Zenon DEF RegistryInit
<1>2. ASSUME NEW s \in Subjects
      PROVE  /\ Seeded[s] \in Seq(Texts)
             /\ \A v \in DOMAIN Seeded[s] : Seeded[s][v] \in SeededTexts /\ Seeded[s][v] \in Texts
  BY RegistryAssumption DEF SeededTexts
<1>3. SeededTexts \in SUBSET Texts
  <2>1. ASSUME NEW t \in SeededTexts PROVE t \in Texts
    <3>1. PICK s \in Subjects : t \in {Seeded[s][v] : v \in DOMAIN Seeded[s]}
      BY Zenon DEF SeededTexts
    <3> QED
      BY <1>2, <3>1, Zenon
  <2> QED
    BY <2>1, Zenon
<1>4. schemas \in Seq(Texts) /\ DOMAIN schemas \in SUBSET Nat
  BY <1>1, <1>3
<1>5. ASSUME NEW t \in SeededTexts PROVE IdOf(t) \in DOMAIN schemas
  BY <1>1, Zenon DEF IdOf
<1>6. ASSUME NEW s \in Subjects
      PROVE  /\ versions[s] \in Seq(Nat)
             /\ \A v \in DOMAIN versions[s] : versions[s][v] \in DOMAIN schemas
  <2>1. versions[s] = [v \in DOMAIN Seeded[s] |-> IdOf(Seeded[s][v])]
    BY Zenon DEF RegistryInit
  <2>2. \A v \in DOMAIN versions[s] : versions[s][v] \in DOMAIN schemas
    BY <1>2, <1>5, <2>1, Zenon
  <2>3. Len(Seeded[s]) \in Nat /\ DOMAIN Seeded[s] = 1..Len(Seeded[s])
    BY <1>2
  <2>4. \A v \in 1..Len(Seeded[s]) : IdOf(Seeded[s][v]) \in Nat
    BY <1>2, <1>4, <1>5, <2>3, Zenon
  <2>5. [v \in 1..Len(Seeded[s]) |-> IdOf(Seeded[s][v])] \in Seq(Nat)
    BY <2>3, <2>4
  <2>6. versions[s] \in Seq(Nat)
    BY <2>1, <2>3, <2>5, Zenon
  <2> QED
    BY <2>2, <2>6, Zenon
<1>7. versions \in [Subjects -> Seq(Nat)]
  <2>1. versions = [s \in Subjects |-> versions[s]]
    BY Zenon DEF RegistryInit
  <2> QED
    BY <1>6, <2>1, Zenon
<1> QED
  BY <1>1, <1>4, <1>6, <1>7, Zenon DEF RegistryInv

\* The service forgets nothing.
RegistryGrows ==
    /\ \A a \in DOMAIN schemas : a \in DOMAIN schemas' /\ schemas'[a] = schemas[a]
    /\ \A s \in Subjects : \A v \in DOMAIN versions[s] :
          v \in DOMAIN versions'[s] /\ versions'[s][v] = versions[s][v]

LEMMA PostKeeps ==
    ASSUME schemas \in Seq(Texts), versions \in [Subjects -> Seq(Nat)], RegistryInv,
           NEW s \in Subjects, NEW t \in Texts, Post(s, t)
    PROVE  /\ schemas' \in Seq(Texts) /\ versions' \in [Subjects -> Seq(Nat)] /\ RegistryInv'
           /\ RegistryGrows
           /\ LET id == IF t \in Known THEN IdOf(t) ELSE Len(schemas) + 1 IN
              /\ id \in DOMAIN schemas' /\ schemas'[id] = t
              /\ \E v \in DOMAIN versions'[s] : versions'[s][v] = id
<1> DEFINE id == IF t \in Known THEN IdOf(t) ELSE Len(schemas) + 1
<1>0. Len(schemas) \in Nat /\ DOMAIN schemas = 1..Len(schemas)
  OBVIOUS
<1>1. /\ schemas' \in Seq(Texts) /\ id \in DOMAIN schemas' /\ schemas'[id] = t /\ id \in Nat
      /\ \A a \in DOMAIN schemas : a \in DOMAIN schemas' /\ schemas'[a] = schemas[a]
      /\ \A a, b \in DOMAIN schemas' : schemas'[a] = schemas'[b] => a = b
  <2>1. CASE t \in Known
    <3>1. schemas' = schemas /\ id = IdOf(t)
      BY <2>1, Zenon DEF Post
    <3>2. IdOf(t) \in DOMAIN schemas /\ schemas[IdOf(t)] = t
      BY <2>1, Zenon DEF Known, IdOf
    <3> HIDE DEF id
    <3> QED
      BY <1>0, <3>1, <3>2 DEF RegistryInv
  <2>2. CASE t \notin Known
    <3>1. schemas' = Append(schemas, t) /\ id = Len(schemas) + 1
      BY <2>2, Zenon DEF Post
    <3>2. \A a \in DOMAIN schemas : schemas[a] # t
      BY <2>2, Zenon DEF Known
    <3> HIDE DEF id
    <3>3. /\ schemas' \in Seq(Texts) /\ DOMAIN schemas' = 1..(Len(schemas) + 1)
          /\ \A a \in 1..Len(schemas) : schemas'[a] = schemas[a]
          /\ schemas'[Len(schemas) + 1] = t
      BY <1>0, <3>1
    <3>4. ASSUME NEW a \in DOMAIN schemas', NEW b \in DOMAIN schemas', schemas'[a] = schemas'[b]
          PROVE  a = b
      <4>1. CASE a \in DOMAIN schemas /\ b \in DOMAIN schemas
        BY <1>0, <3>3, <3>4, <4>1, Zenon DEF RegistryInv
      <4>2. CASE a \notin DOMAIN schemas \/ b \notin DOMAIN schemas
        BY <1>0, <3>2, <3>3, <3>4, <4>2
      <4> QED
        BY <4>1, <4>2, Zenon
    <3> QED
      BY <1>0, <3>1, <3>3, <3>4
  <2> QED
    BY <2>1, <2>2, Zenon
<1>2. versions' = IF id \in IdsOf(s) THEN versions
                  ELSE [versions EXCEPT ![s] = Append(versions[s], id)]
  BY Zenon DEF Post
<1> HIDE DEF id
<1>3. /\ versions[s] \in Seq(Nat)
      /\ \A r \in Subjects \ {s} : versions'[r] = versions[r]
      /\ versions' \in [Subjects -> Seq(Nat)]
      /\ versions'[s] = IF id \in IdsOf(s) THEN versions[s] ELSE Append(versions[s], id)
  BY <1>1, <1>2
<1>4. /\ \A v \in DOMAIN versions[s] : v \in DOMAIN versions'[s] /\ versions'[s][v] = versions[s][v]
      /\ \A v \in DOMAIN versions'[s] : v \in DOMAIN versions[s] \/ versions'[s][v] = id
      /\ \E v \in DOMAIN versions'[s] : versions'[s][v] = id
  <2>1. CASE id \in IdsOf(s)
    BY <1>3, <2>1, Zenon DEF IdsOf
  <2>2. CASE id \notin IdsOf(s)
    <3>1. versions'[s] = Append(versions[s], id) /\ Len(versions[s]) \in Nat
      BY <1>3, <2>2
    <3>2. /\ DOMAIN versions'[s] = 1..(Len(versions[s]) + 1) /\ DOMAIN versions[s] = 1..Len(versions[s])
          /\ \A v \in 1..Len(versions[s]) : versions'[s][v] = versions[s][v]
          /\ versions'[s][Len(versions[s]) + 1] = id
      BY <1>1, <1>3, <3>1
    <3> QED
      BY <3>1, <3>2, SMTT(30)
  <2> QED
    BY <2>1, <2>2, Zenon
<1>5. RegistryGrows
  BY <1>1, <1>3, <1>4, Zenon DEF RegistryGrows
<1>6. ASSUME NEW r \in Subjects, NEW v \in DOMAIN versions'[r] PROVE versions'[r][v] \in DOMAIN schemas'
  <2>1. CASE v \in DOMAIN versions[r]
    <3>1. versions'[r][v] = versions[r][v] /\ versions[r][v] \in DOMAIN schemas
      BY <1>5, <2>1, Zenon DEF RegistryGrows, RegistryInv
    <3> QED
      BY <1>1, <3>1, Zenon
  <2>2. CASE v \notin DOMAIN versions[r]
    <3>1. r = s
      BY <1>3, <2>2, Zenon
    <3> QED
      BY <1>1, <1>4, <2>2, <3>1, Zenon
  <2> QED
    BY <2>1, <2>2, Zenon
<1>7. RegistryInv'
  BY <1>1, <1>6, Zenon DEF RegistryInv
<1> QED
  BY <1>1, <1>3, <1>4, <1>5, <1>7, Zenon DEF id

-----------------------------------------------------------------------------
(* What is resolved. *)

LEMMA SuitsKept ==
    ASSUME RegistryGrows, NEW field \in Fields, Addressed(field),
           NEW id \in Nat, NEW type \in WireTypes, NEW text \in Texts \cup {NoText},
           Suits(field, id, type, text)
    PROVE  Suits(field, id, type, text)'
<1> DEFINE subject == AskedSubject(field)
<1>1. /\ subject \in Subjects \cup {NoSubject} /\ id \in DOMAIN schemas /\ schemas[id] = text
      /\ id \in DOMAIN schemas' /\ schemas'[id] = schemas[id]
      /\ subject # NoSubject =>
            \A v \in DOMAIN versions[subject] :
               v \in DOMAIN versions'[subject] /\ versions'[subject][v] = versions[subject][v]
  BY Zenon DEF RegistryGrows, Suits, Addressed
<1> HIDE DEF subject
<1>2. /\ type = text.kind
      /\ field.text # NoText => text = field.text
      /\ field.text = NoText /\ field.version # 0 =>
            /\ subject # NoSubject /\ field.version \in DOMAIN versions[subject]
            /\ id = versions[subject][field.version]
      /\ field.text = NoText /\ field.version = 0 /\ field.id # 0 => id = field.id
      /\ field.text # NoText \/ field.id = 0 =>
            subject # NoSubject /\ \E v \in DOMAIN versions[subject] : versions[subject][v] = id
  BY Zenon DEF Suits, subject
<1>3. field.text = NoText /\ field.version # 0 =>
         /\ subject # NoSubject /\ field.version \in DOMAIN versions'[subject]
         /\ id = versions'[subject][field.version]
  BY <1>1, <1>2, Zenon
<1>4. field.text # NoText \/ field.id = 0 =>
         subject # NoSubject /\ \E v \in DOMAIN versions'[subject] : versions'[subject][v] = id
  BY <1>1, <1>2, Zenon
<1> QED
  BY <1>1, <1>2, <1>3, <1>4, Zenon DEF Suits, subject

Answers == [id : 0..MaxSchemas, text : Texts \cup {NoText}, type : SchemaTypes \cup {""}]

\* A version that the service has is a schema it has, under that id.
Found(subject, v, answer) ==
    /\ subject # NoSubject /\ v \in DOMAIN versions[subject] /\ answer.id = versions[subject][v]
    /\ answer.id \in DOMAIN schemas /\ answer.text = schemas[answer.id]
    /\ answer.type = answer.text.kind

LEMMA VersionFound ==
    ASSUME RegistryInv, NEW subject \in Subjects \cup {NoSubject}, NEW v \in Nat,
           NEW answer, answer = SubjectVersion(subject, v), answer.id # 0
    PROVE  Found(subject, v, answer)
<1>1. subject # NoSubject /\ v \in DOMAIN versions[subject]
  <2>1. NotResolved.id = 0
    BY Zenon DEF NotResolved
  <2> QED
    BY <2>1, Zenon DEF SubjectVersion
<1>2. answer = Resolved(versions[subject][v], schemas[versions[subject][v]])
  BY <1>1, Zenon DEF SubjectVersion
<1>3. /\ answer.id = versions[subject][v] /\ answer.text = schemas[versions[subject][v]]
      /\ answer.type = schemas[versions[subject][v]].kind
  BY <1>2, SMTT(30) DEF Resolved
<1>4. subject \in Subjects
  BY <1>1, Zenon
<1>5. versions[subject][v] \in DOMAIN schemas
  BY <1>1, <1>4, Zenon DEF RegistryInv
<1> QED
  BY <1>1, <1>3, <1>5, Zenon DEF Found

\* What Resolve answers is what was asked for, after whatever it registered.
LEMMA ResolveSuits ==
    ASSUME schemas \in Seq(Texts), versions \in [Subjects -> Seq(Nat)], RegistryInv,
           NEW field \in Fields, Addressed(field), NEW type \in SchemaTypes,
           NEW answer \in Answers,
           Resolve(ResolveSubject(field), type, field, answer)
    PROVE  /\ schemas' \in Seq(Texts) /\ versions' \in [Subjects -> Seq(Nat)]
           /\ RegistryInv' /\ RegistryGrows
           /\ answer.id # 0 => Suits(field, answer.id, answer.type, answer.text)'
<1> DEFINE subject == AskedSubject(field)
<1>0. /\ subject \in Subjects \cup {NoSubject} /\ subject = RequestedSubject(ResolveSubject(field))
      /\ field.text \in Texts \cup {NoText} /\ field.version \in Nat
  BY Zenon DEF Fields, Addressed, AskedSubject
<1>e. NotResolved.id = 0
  BY Zenon DEF NotResolved
<1>u. ASSUME schemas' = schemas, versions' = versions
      PROVE  /\ schemas' \in Seq(Texts) /\ versions' \in [Subjects -> Seq(Nat)]
             /\ RegistryInv' /\ RegistryGrows
  BY <1>u, Zenon DEF RegistryInv, RegistryGrows
<1>n. CASE schemas' = schemas /\ versions' = versions /\ answer = NotResolved
  BY <1>e, <1>u, <1>n, Zenon
<1>1. CASE answer # NotResolved \/ ~(schemas' = schemas /\ versions' = versions)
  <2>u. ASSUME NEW reply, DoJSON(UNCHANGED registryVars, reply, answer)
        PROVE  schemas' = schemas /\ versions' = versions /\ answer = reply
    BY <1>1, <2>u, Zenon DEF DoJSON, registryVars
  <2>1. CASE field.text # NoText
    <3> DEFINE id == IF field.text \in Known THEN IdOf(field.text) ELSE Len(schemas) + 1
               reply == [id |-> id, text |-> field.text, type |-> type]
    <3>1. Register(ResolveSubject(field), type, field.text, answer)
      BY <2>1, Zenon DEF Resolve
    <3>2. field.text.kind = type /\ subject # NoSubject
      <4>1. SUFFICES ASSUME field.text.kind # type \/ subject = NoSubject PROVE FALSE
        OBVIOUS
      <4>2. DoJSON(UNCHANGED registryVars, NotResolved, answer)
        BY <1>0, <3>1, <4>1, Zenon DEF Register
      <4> QED
        BY <1>1, <2>u, <4>2, Zenon
    <3>3. DoJSON(Post(subject, field.text), reply, answer)
      BY <1>0, <3>1, <3>2, Zenon DEF Register
    <3> HIDE DEF reply
    <3>4. Post(subject, field.text) /\ answer \in {NotResolved, reply}
      BY <1>1, <3>3, Zenon DEF DoJSON, registryVars
    <3>5. field.text \in Texts /\ subject \in Subjects
      BY <1>0, <2>1, <3>2, Zenon
    <3> HIDE DEF id
    <3>6. /\ schemas' \in Seq(Texts) /\ versions' \in [Subjects -> Seq(Nat)] /\ RegistryInv'
          /\ RegistryGrows
          /\ id \in DOMAIN schemas' /\ schemas'[id] = field.text
          /\ \E v \in DOMAIN versions'[subject] : versions'[subject][v] = id
      BY <3>4, <3>5, PostKeeps, Zenon DEF id
    <3>7. ASSUME answer.id # 0 PROVE Suits(field, answer.id, answer.type, answer.text)'
      <4>1. answer.id = id /\ answer.text = field.text /\ answer.type = type
        <5>1. answer = reply
          BY <1>e, <3>4, <3>7, Zenon
        <5> QED
          BY <5>1, Zenon DEF reply
      <4> QED
        BY <2>1, <3>2, <3>6, <4>1, Zenon DEF Suits
    <3> QED
      BY <3>6, <3>7, Zenon
  <2>2. CASE field.text = NoText
    <3> DEFINE latest == IF subject = NoSubject THEN 0 ELSE Len(versions[subject])
               reply == IF field.version # 0 THEN SubjectVersion(subject, field.version)
                        ELSE IF field.id # 0 THEN SchemaById(field.id)
                        ELSE SubjectVersion(subject, latest)
    <3>1. DoJSON(UNCHANGED registryVars, reply, answer)
      BY <1>0, <2>2, Zenon DEF Resolve, GetSubjectVersion, GetLatest, GetSchemaById
    <3> HIDE DEF reply
    <3>2. schemas' = schemas /\ versions' = versions /\ answer = reply
      BY <2>u, <3>1, Zenon
    <3>3. latest \in Nat
      BY <1>0
    <3> HIDE DEF latest, subject
    <3>4. ASSUME answer.id # 0 PROVE Suits(field, answer.id, answer.type, answer.text)
      <4>1. CASE field.version # 0
        <5>1. answer = SubjectVersion(subject, field.version)
          BY <3>2, <4>1, Zenon DEF reply
        <5>2. Found(subject, field.version, answer)
          BY <1>0, <3>4, <5>1, VersionFound, ZenonT(30)
        <5> QED
          BY <2>2, <4>1, <5>2, Zenon DEF Suits, Found, subject
      <4>2. CASE field.version = 0 /\ field.id # 0
        <5>1. answer = SchemaById(field.id)
          BY <3>2, <4>2, Zenon DEF reply
        <5>2. /\ field.id \in DOMAIN schemas /\ answer.id = field.id
              /\ answer.text = schemas[field.id] /\ answer.type = schemas[field.id].kind
          BY <1>e, <3>4, <5>1, Zenon DEF SchemaById, Resolved
        <5> QED
          BY <2>2, <4>2, <5>2, Zenon DEF Suits
      <4>3. CASE field.version = 0 /\ field.id = 0
        <5>1. answer = SubjectVersion(subject, latest)
          BY <3>2, <4>3, Zenon DEF reply
        <5>2. Found(subject, latest, answer)
          BY <1>0, <3>3, <3>4, <5>1, VersionFound, ZenonT(30)
        <5> QED
          BY <2>2, <4>3, <5>2, Zenon DEF Suits, Found, subject
      <4> QED
        BY <4>1, <4>2, <4>3, Zenon
    <3>5. answer.id # 0 => Suits(field, answer.id, answer.type, answer.text)'
      BY <3>2, <3>4, Zenon DEF Suits
    <3> QED
      BY <1>u, <3>2, <3>5, Zenon
  <2> QED
    BY <2>1, <2>2, Zenon
<1> QED
  BY <1>1, <1>n, Zenon

-----------------------------------------------------------------------------
(* The steps of the encoder. *)

LEMMA JobFacts ==
    ASSUME EncoderTypeOK, NEW j \in Jobs
    PROVE  /\ job[j].fields \in Seq(Fields) /\ Len(job[j].fields) \in Nat
           /\ DOMAIN job[j].fields = 1..Len(job[j].fields)
           /\ \A i \in DOMAIN job[j].fields :
                 /\ job[j].fields[i] \in Fields /\ job[j].fields[i].side \in {"key", "value"}
                 /\ Addressed(job[j].fields[i])
           /\ wires[j] \in Seq(Wires) /\ Len(wires[j]) \in Nat /\ DOMAIN wires[j] = 1..Len(wires[j])
           /\ \A i \in DOMAIN wires[j] :
                 /\ wires[j][i].id \in Nat /\ wires[j][i].type \in WireTypes
                 /\ wires[j][i].text \in Texts \cup {NoText}
<1>1. job \in Work /\ wires[j] \in Seq(Wires)
  BY Zenon DEF EncoderTypeOK
<1>2. job[j] \in [route : {"v2", "v3"}, fields : Seq(Fields)]
  BY <1>1, WorkAssumption, Zenon
<1>3. job[j].fields \in Seq(Fields)
  BY <1>2, Zenon
<1> DEFINE fs == job[j].fields
<1>4. ASSUME NEW i \in DOMAIN fs
      PROVE  fs[i] \in Fields /\ fs[i].side \in {"key", "value"} /\ Addressed(fs[i])
  <2>1. Addressed(fs[i])
    BY <1>1, WorkAssumption, Zenon DEF Addressed
  <2>2. fs[i] \in Fields
    BY <1>3
  <2> QED
    BY <2>1, <2>2, Zenon DEF Fields
<1>5. ASSUME NEW i \in DOMAIN wires[j]
      PROVE  /\ wires[j][i].id \in Nat /\ wires[j][i].type \in WireTypes
             /\ wires[j][i].text \in Texts \cup {NoText}
  <2>1. wires[j][i] \in Wires
    BY <1>1
  <2> QED
    BY <2>1, Zenon DEF Wires
<1> QED
  BY <1>1, <1>3, <1>4, <1>5

\* A payload goes on to suit its field while the service grows.
LEMMA WireKept ==
    ASSUME SchemaInv, NEW d \in Jobs, RegistryGrows, job' = job,
           NEW i \in DOMAIN wires[d], wires'[d][i] = wires[d][i]
    PROVE  WireInv(d, i)'
<1>0. EncoderTypeOK /\ JobInv(d)
  BY Zenon DEF SchemaInv
<1>1. /\ i \in DOMAIN job[d].fields
      /\ wires[d][i].id \in Nat /\ wires[d][i].type \in WireTypes
      /\ wires[d][i].text \in Texts \cup {NoText}
      /\ job[d].fields[i] \in Fields /\ Addressed(job[d].fields[i])
  <2>1. i \in DOMAIN job[d].fields
    BY <1>0, JobFacts DEF JobInv
  <2> QED
    BY <1>0, <2>1, JobFacts, Zenon
<1>2. WireInv(d, i)
  BY <1>0, Zenon DEF JobInv
<1>3. ASSUME wires[d][i].id # 0
      PROVE  Suits(job[d].fields[i], wires[d][i].id, wires[d][i].type, wires[d][i].text)'
  <2>1. PICK f \in Fields, id \in Nat, type \in WireTypes, text \in Texts \cup {NoText} :
           /\ f = job[d].fields[i] /\ id = wires[d][i].id
           /\ type = wires[d][i].type /\ text = wires[d][i].text
    BY <1>1, Zenon
  <2>2. Addressed(f)
    BY <1>1, <2>1, Zenon
  <2>3. Suits(f, id, type, text)
    BY <1>2, <1>3, <2>1, Zenon DEF WireInv
  <2>4. Suits(f, id, type, text)'
    BY <2>2, <2>3, SuitsKept, Zenon
  <2>5. f = job'[d].fields[i] /\ id = wires'[d][i].id
           /\ type = wires'[d][i].type /\ text = wires'[d][i].text
    BY <2>1, Zenon
  <2> QED
    BY <2>4, <2>5, Zenon DEF Suits
<1> QED
  BY <1>2, <1>3, Zenon DEF WireInv

\* Other jobs see the service grow, and nothing else.
LEMMA JobKeeps ==
    ASSUME SchemaInv, NEW d \in Jobs, RegistryGrows,
           job' = job, wires'[d] = wires[d], meta'[d] = meta[d]
    PROVE  JobInv(d)'
<1>1. JobInv(d)
  BY Zenon DEF SchemaInv
<1>2. ASSUME NEW i \in DOMAIN wires[d] PROVE WireInv(d, i)'
  BY WireKept, Zenon
<1>3. MetaInv(d)'
  BY <1>1, Zenon DEF JobInv, MetaInv
<1> QED
  BY <1>1, <1>2, <1>3, Zenon DEF JobInv

LEMMA RejectKeeps ==
    ASSUME SchemaInv, RegistryGrows, RegistryInv', NEW j \in Jobs, Reject(j),
           schemas' \in Seq(Texts), versions' \in [Subjects -> Seq(Nat)]
    PROVE  SchemaInv'
<1>1. job' = job /\ wires' = wires /\ meta' = meta /\ state' = [state EXCEPT ![j] = "rejected"]
  BY Zenon DEF Reject
<1>2. EncoderTypeOK'
  BY <1>1, Zenon DEF SchemaInv, EncoderTypeOK, JobStates
<1>3. ASSUME NEW d \in Jobs PROVE JobInv(d)'
  BY <1>1, JobKeeps, Zenon
<1> QED
  BY <1>2, <1>3, Zenon DEF SchemaInv

\* Job j has got payload w for field, its next: m is the id of the response then.
Appended(j, w, field, n, m) ==
    /\ n \in Nat /\ m \in Nat /\ DOMAIN wires[j] = 1..n
    /\ n + 1 \in DOMAIN job[j].fields /\ n + 1 <= Len(job[j].fields) /\ field = job[j].fields[n + 1]
    /\ field.side \in {"key", "value"}
    /\ m = IF meta[j][field.side] = 0 THEN w.id ELSE meta[j][field.side]
    /\ job' = job
    /\ DOMAIN wires'[j] = 1..(n + 1) /\ Len(wires'[j]) = n + 1
    /\ \A i \in 1..n : wires'[j][i] = wires[j][i]
    /\ wires'[j][n + 1] = w
    /\ meta'[j][field.side] = m
    /\ \A side \in {"key", "value"} \ {field.side} : meta'[j][side] = meta[j][side]
    /\ \A d \in Jobs \ {j} : wires'[d] = wires[d] /\ meta'[d] = meta[d]

LEMMA AcceptAppends ==
    ASSUME SchemaInv, NEW j \in Jobs, Ready(j), NEW w \in Wires, Accept(j, w),
           schemas' \in Seq(Texts), versions' \in [Subjects -> Seq(Nat)],
           NEW field \in Fields, field = Field(j), field.valid
    PROVE  EncoderTypeOK' /\ \E n, m : Appended(j, w, field, n, m)
<1> DEFINE n == Len(wires[j])
           m == IF meta[j][field.side] = 0 THEN w.id ELSE meta[j][field.side]
<1>0. EncoderTypeOK /\ JobInv(j)
  BY Zenon DEF SchemaInv
<1>1. /\ n \in Nat /\ DOMAIN wires[j] = 1..n /\ wires[j] \in Seq(Wires)
      /\ n + 1 \in DOMAIN job[j].fields /\ n + 1 <= Len(job[j].fields)
      /\ field = job[j].fields[n + 1] /\ field.side \in {"key", "value"} /\ w.id \in Nat
      /\ meta[j] \in Metas /\ m \in Nat
  <2>1. /\ n \in Nat /\ DOMAIN wires[j] = 1..n /\ wires[j] \in Seq(Wires)
        /\ Len(job[j].fields) \in Nat /\ DOMAIN job[j].fields = 1..Len(job[j].fields)
    BY <1>0, JobFacts, Zenon
  <2>2. n + 1 \in DOMAIN job[j].fields /\ n + 1 <= Len(job[j].fields)
    BY <2>1 DEF Ready
  <2>3. field = job[j].fields[n + 1]
    BY Zenon DEF Field
  <2>4. field.side \in {"key", "value"} /\ w.id \in Nat
    BY Zenon DEF Fields, Wires
  <2>5. meta[j] \in Metas
    BY <1>0, Zenon DEF EncoderTypeOK
  <2> QED
    BY <2>1, <2>2, <2>3, <2>4, <2>5, Zenon DEF Metas
<1>2. /\ wires' = [wires EXCEPT ![j] = Append(wires[j], w)] /\ job' = job
      /\ state' = [state EXCEPT ![j] = IF n + 1 = Len(job[j].fields) THEN "encoded" ELSE state[j]]
      /\ meta' = [meta EXCEPT ![j] = [meta[j] EXCEPT ![field.side] = m]]
  BY <1>0, Zenon DEF Accept, EncoderTypeOK
<1> HIDE DEF m
<1>3. Append(wires[j], w) \in Seq(Wires) /\ [meta[j] EXCEPT ![field.side] = m] \in Metas
  <2>1. wires[j] \in Seq(Wires) /\ meta[j] \in Metas /\ m \in Nat /\ field.side \in {"key", "value"}
    BY <1>1, Zenon
  <2>2. Append(wires[j], w) \in Seq(Wires)
    BY <2>1, SMTT(30)
  <2>3. [meta[j] EXCEPT ![field.side] = m] \in Metas
    BY <2>1, SMTT(30) DEF Metas
  <2> QED
    BY <2>2, <2>3, Zenon
<1>4. EncoderTypeOK'
  BY <1>0, <1>2, <1>3, Zenon DEF EncoderTypeOK, JobStates
<1>5. /\ wires'[j] = Append(wires[j], w)
      /\ meta'[j] = [meta[j] EXCEPT ![field.side] = m]
      /\ \A d \in Jobs \ {j} : wires'[d] = wires[d] /\ meta'[d] = meta[d]
  BY <1>0, <1>2, Zenon DEF EncoderTypeOK
<1>6. /\ DOMAIN wires'[j] = 1..(n + 1) /\ Len(wires'[j]) = n + 1
      /\ \A i \in 1..n : wires'[j][i] = wires[j][i]
      /\ wires'[j][n + 1] = w
  <2>1. wires[j] \in Seq(Wires) /\ w \in Wires /\ n = Len(wires[j])
    BY <1>1, Zenon
  <2>2. wires'[j] = Append(wires[j], w)
    BY <1>5, Zenon
  <2> HIDE DEF n
  <2> QED
    BY <2>1, <2>2, AppendGrows, SMTT(30)
<1> HIDE DEF n
<1>8. /\ meta'[j][field.side] = m
      /\ \A side \in {"key", "value"} \ {field.side} : meta'[j][side] = meta[j][side]
  <2>1. /\ meta[j] \in [{"key", "value"} -> Nat] /\ field.side \in {"key", "value"}
        /\ meta'[j] = [meta[j] EXCEPT ![field.side] = m]
    BY <1>1, <1>5, Zenon DEF Metas
  <2> QED
    BY <2>1, Zenon
<1>9. m = IF meta[j][field.side] = 0 THEN w.id ELSE meta[j][field.side]
  BY Zenon DEF m
<1>10. Appended(j, w, field, n, m)
  BY <1>1, <1>2, <1>5, <1>6, <1>8, <1>9, Zenon DEF Appended
<1> QED
  BY <1>4, <1>10, Zenon

LEMMA AcceptKeeps ==
    ASSUME SchemaInv, RegistryGrows, RegistryInv', NEW j \in Jobs, Ready(j),
           NEW w \in Wires, Accept(j, w),
           schemas' \in Seq(Texts), versions' \in [Subjects -> Seq(Nat)],
           NEW field \in Fields, field = Field(j),
           w.id # 0 => Suits(field, w.id, w.type, w.text)' /\ field.data \in w.text.fits
    PROVE  SchemaInv'
<1>0. EncoderTypeOK /\ JobInv(j)
  BY Zenon DEF SchemaInv
<1>1. CASE ~field.valid
  <2>1. Reject(j)
    BY <1>1, Zenon DEF Accept
  <2> QED
    BY <2>1, RejectKeeps, Zenon
<1>2. CASE field.valid
  <2>0. PICK n, m : Appended(j, w, field, n, m)
    BY <1>2, AcceptAppends, Zenon
  <2>1. /\ n \in Nat /\ m \in Nat /\ DOMAIN wires[j] = 1..n
        /\ n + 1 <= Len(job[j].fields) /\ field = job[j].fields[n + 1]
        /\ field.side \in {"key", "value"}
        /\ m = IF meta[j][field.side] = 0 THEN w.id ELSE meta[j][field.side]
    BY <2>0, Zenon DEF Appended
  <2>2. job' = job
    BY <2>0, Zenon DEF Appended
  <2>4. EncoderTypeOK'
    BY <1>2, AcceptAppends, Zenon
  <2>5. \A d \in Jobs \ {j} : wires'[d] = wires[d] /\ meta'[d] = meta[d]
    BY <2>0, Zenon DEF Appended
  <2>6. /\ DOMAIN wires'[j] = 1..(n + 1) /\ Len(wires'[j]) = n + 1
        /\ \A i \in 1..n : wires'[j][i] = wires[j][i]
        /\ wires'[j][n + 1] = w
    BY <2>0, Zenon DEF Appended
  <2>8. /\ meta'[j][field.side] = m
        /\ \A side \in {"key", "value"} \ {field.side} : meta'[j][side] = meta[j][side]
    BY <2>0, Zenon DEF Appended
  <2>7. ASSUME NEW i \in DOMAIN wires'[j] PROVE WireInv(j, i)'
    <3>1. CASE i \in 1..n
      BY <2>1, <2>2, <2>6, <3>1, WireKept, Zenon
    <3>2. CASE i = n + 1
      <4>1. wires'[j][i] = w /\ job'[j].fields[i] = field
        BY <2>1, <2>2, <2>6, <3>2, Zenon
      <4> QED
        BY <4>1, Zenon DEF WireInv, Suits
    <3> QED
      BY <2>1, <2>6, <3>1, <3>2
  <2>9. MetaInv(j)'
    <3>0. MetaInv(j)
      BY <1>0, ZenonT(60) DEF JobInv
    <3>1. ASSUME NEW i \in DOMAIN wires'[j], wires'[j][i].id # 0
          PROVE  meta'[j][job[j].fields[i].side] # 0
      <4>1. CASE i \in 1..n
        <5>1. meta[j][job[j].fields[i].side] # 0
          BY <2>1, <2>6, <3>0, <3>1, <4>1, Zenon DEF MetaInv
        <5>2. job[j].fields[i].side \in {"key", "value"}
          <6>1. i \in DOMAIN job[j].fields
            BY <1>0, <2>1, <4>1, JobFacts
          <6> QED
            BY <1>0, <6>1, JobFacts, Zenon
        <5> QED
          BY <2>1, <2>8, <5>1, <5>2, Zenon
      <4>2. CASE i = n + 1
        BY <2>1, <2>6, <2>8, <3>1, <4>2, Zenon
      <4>3. i \in 1..n \/ i = n + 1
        <5>1. n \in Nat /\ i \in 1..(n + 1)
          BY <2>1, <2>6, Zenon
        <5> QED
          BY <5>1
      <4> QED
        BY <4>1, <4>2, <4>3, Zenon
    <3>2. ASSUME NEW side \in {"key", "value"}, meta'[j][side] # 0
          PROVE  \E k \in DOMAIN wires'[j] : /\ wires'[j][k].id # 0 /\ job[j].fields[k].side = side
                                             /\ meta'[j][side] = wires'[j][k].id
      <4>1. CASE meta[j][side] # 0
        <5>1. PICK k \in DOMAIN wires[j] : /\ wires[j][k].id # 0 /\ job[j].fields[k].side = side
                                           /\ meta[j][side] = wires[j][k].id
          BY <3>0, <4>1, Zenon DEF MetaInv
        <5>2. k \in DOMAIN wires'[j] /\ wires'[j][k] = wires[j][k]
          BY <2>1, <2>6
        <5>3. meta'[j][side] = meta[j][side]
          BY <2>1, <2>8, <4>1, Zenon
        <5> QED
          BY <5>1, <5>2, <5>3, Zenon
      <4>2. CASE meta[j][side] = 0
        <5>1. side = field.side /\ meta'[j][side] = w.id
          BY <2>1, <2>8, <3>2, <4>2, Zenon
        <5>2. n + 1 \in DOMAIN wires'[j]
          BY <2>1, <2>6
        <5> QED
          BY <2>1, <2>6, <3>2, <5>1, <5>2, Zenon
      <4> QED
        BY <4>1, <4>2, Zenon
    <3> QED
      BY <2>2, <3>1, <3>2, Zenon DEF MetaInv
  <2>10. JobInv(j)'
    BY <2>1, <2>2, <2>6, <2>7, <2>9, Zenon DEF JobInv
  <2>11. ASSUME NEW d \in Jobs PROVE JobInv(d)'
    <3>1. CASE d = j
      BY <2>10, <3>1, Zenon
    <3>2. CASE d # j
      BY <2>2, <2>5, <3>2, JobKeeps, Zenon
    <3> QED
      BY <3>1, <3>2, Zenon
  <2> QED
    BY <2>4, <2>11, Zenon DEF SchemaInv
<1>3. field.valid \in BOOLEAN
  BY Zenon DEF Fields
<1> QED
  BY <1>1, <1>2, <1>3, Zenon

LEMMA RegistryStays ==
    ASSUME SchemaInv, UNCHANGED registryVars
    PROVE  /\ schemas' \in Seq(Texts) /\ versions' \in [Subjects -> Seq(Nat)]
           /\ RegistryInv' /\ RegistryGrows
BY Zenon DEF SchemaInv, EncoderTypeOK, RegistryInv, RegistryGrows, registryVars

\* The field that is next, of a job that has one.
LEMMA NextField ==
    ASSUME SchemaInv, NEW j \in Jobs, Ready(j)
    PROVE  Field(j) \in Fields /\ Addressed(Field(j))
<1>1. EncoderTypeOK
  BY Zenon DEF SchemaInv
<1>2. Len(wires[j]) + 1 \in DOMAIN job[j].fields
  BY <1>1, JobFacts DEF Ready
<1> QED
  BY <1>1, <1>2, JobFacts, Zenon DEF Field

LEMMA PlainWires ==
    /\ NullWire \in Wires /\ NullWire.id = 0
    /\ PlainWire \in Wires /\ PlainWire.id = 0
<1>1. "" \in WireTypes /\ "plain" \in WireTypes
  BY Zenon DEF WireTypes
<1>2. <<>> \in Seq(Nat)
  OBVIOUS
<1>3. NullWire \in Wires /\ NullWire.id = 0
  BY <1>1, <1>2, Zenon DEF Wires, NullWire
<1> QED
  BY <1>1, <1>3, Zenon DEF Wires, PlainWire

\* A payload without a schema.
LEMMA PlainKeeps ==
    ASSUME SchemaInv, NEW j \in Jobs, Ready(j), UNCHANGED registryVars,
           NEW w \in {NullWire, PlainWire}, Accept(j, w)
    PROVE  SchemaInv'
<1>1. w \in Wires /\ w.id = 0
  BY PlainWires, Zenon
<1>2. PICK field \in Fields : field = Field(j)
  BY NextField, Zenon
<1> QED
  BY <1>1, <1>2, RegistryStays, AcceptKeeps, Zenon

LEMMA ConfluentWires ==
    ASSUME NEW field \in Fields, NEW answer \in Answers
    PROVE  /\ ConfluentWire(field, answer) \in Wires
           /\ ConfluentWire(field, answer).id = answer.id
           /\ ConfluentWire(field, answer).type = answer.type
           /\ ConfluentWire(field, answer).text = answer.text
<1>0. MaxSchemas \in Nat /\ 0..MaxSchemas \in SUBSET Nat
  BY RegistryAssumption
<1>1. /\ answer.id \in 0..MaxSchemas /\ answer.text \in Texts \cup {NoText}
      /\ answer.type \in SchemaTypes \cup {""}
  BY Zenon DEF Answers
<1>2. answer.id \in Nat /\ answer.type \in WireTypes
  BY <1>0, <1>1, Zenon DEF WireTypes
<1>3. answer.text.depth \in Nat
  <2>1. ASSUME NEW t \in Texts PROVE t.depth \in Nat
    <3>1. t \in [kind : STRING, name : STRING, fits : SUBSET STRING, depth : Nat]
      BY TextAssumption, Zenon
    <3> QED
      BY <3>1, Zenon
  <2>2. NoText.depth \in Nat
    BY Zenon DEF NoText
  <2> QED
    BY <1>1, <2>1, <2>2, Zenon
<1>4. FirstMessage(answer.text) \in Seq(Nat) /\ <<>> \in Seq(Nat) /\ <<0>> \in Seq(Nat)
  BY <1>3 DEF FirstMessage
<1> DEFINE message == IF answer.type = "PROTOBUF" THEN FirstMessage(answer.text) ELSE <<>>
           index == IF answer.type = "PROTOBUF" THEN <<0>> ELSE <<>>
<1>5. message \in Seq(Nat) /\ index \in Seq(Nat)
  BY <1>4, Zenon
<1>6. ConfluentWire(field, answer) = [id |-> answer.id, type |-> answer.type,
                                      text |-> answer.text, message |-> message, index |-> index]
  BY Zenon DEF ConfluentWire
<1>7. ASSUME NEW i \in Nat, NEW ty \in WireTypes, NEW te \in Texts \cup {NoText},
             NEW m \in Seq(Nat), NEW x \in Seq(Nat)
      PROVE  [id |-> i, type |-> ty, text |-> te, message |-> m, index |-> x] \in Wires
  BY Zenon DEF Wires
<1> HIDE DEF message, index
<1>8. [id |-> answer.id, type |-> answer.type, text |-> answer.text,
       message |-> message, index |-> index] \in Wires
  <2>1. PICK te \in Texts \cup {NoText} : te = answer.text
    BY <1>1, Zenon
  <2>2. [id |-> answer.id, type |-> answer.type, text |-> te,
         message |-> message, index |-> index] \in Wires
    BY <1>2, <1>5, <1>7, Zenon
  <2> QED
    BY <2>1, <2>2, Zenon
<1> QED
  BY <1>6, <1>8

LEMMA SchemaAwareKeeps ==
    ASSUME SchemaInv, NEW j \in Jobs, EncodeSchemaAware(j)
    PROVE  SchemaInv'
<1>0. schemas \in Seq(Texts) /\ versions \in [Subjects -> Seq(Nat)] /\ RegistryInv /\ Ready(j)
  BY Zenon DEF SchemaInv, EncoderTypeOK, EncodeSchemaAware
<1>1. PICK field \in Fields : field = Field(j) /\ Addressed(field)
  BY <1>0, NextField, Zenon
<1>2. EncodeType(field) \in SchemaTypes
  BY <1>1, Zenon DEF EncodeSchemaAware
<1>3. PICK answer \in Answers :
        /\ Resolve(ResolveSubject(field), EncodeType(field), field, answer)
        /\ IF answer.id # 0 /\ field.data \in answer.text.fits
             THEN Accept(j, ConfluentWire(field, answer))
             ELSE Reject(j)
  BY <1>1, Zenon DEF EncodeSchemaAware, Answers
<1>4. /\ schemas' \in Seq(Texts) /\ versions' \in [Subjects -> Seq(Nat)]
      /\ RegistryInv' /\ RegistryGrows
      /\ answer.id # 0 => Suits(field, answer.id, answer.type, answer.text)'
  BY <1>0, <1>1, <1>2, <1>3, ResolveSuits, Zenon
<1>5. CASE answer.id # 0 /\ field.data \in answer.text.fits
  <2>2. PICK w \in Wires : /\ w = ConfluentWire(field, answer) /\ w.id = answer.id
                           /\ w.type = answer.type /\ w.text = answer.text
    BY ConfluentWires, Zenon
  <2>3. Accept(j, w)
    BY <1>3, <1>5, <2>2, Zenon
  <2>4. Suits(field, w.id, w.type, w.text)' /\ field.data \in w.text.fits
    BY <1>4, <1>5, <2>2, Zenon
  <2> QED
    BY <1>0, <1>1, <1>4, <2>3, <2>4, AcceptKeeps, Zenon
<1>6. CASE ~(answer.id # 0 /\ field.data \in answer.text.fits)
  BY <1>3, <1>4, <1>6, RejectKeeps, Zenon
<1> QED
  BY <1>5, <1>6, Zenon

LEMMA EncodeKeeps ==
    ASSUME SchemaInv, NEW j \in Jobs, EncodeField(j)
    PROVE  SchemaInv'
<1>1. CASE EncodeUnsupported(j) \/ EncodeUnresolvable(j)
  BY <1>1, RegistryStays, RejectKeeps, Zenon DEF EncodeUnsupported, EncodeUnresolvable
<1>2. CASE EncodePlain(j) \/ EncodeNull(j)
  <2>1. /\ Ready(j) /\ UNCHANGED registryVars
        /\ Accept(j, NullWire) \/ Accept(j, PlainWire) \/ Reject(j)
    BY <1>2, Zenon DEF EncodePlain, EncodeNull
  <2> QED
    BY <2>1, RegistryStays, PlainKeeps, RejectKeeps, Zenon
<1>3. CASE EncodeSchemaAware(j)
  BY <1>3, SchemaAwareKeeps, Zenon
<1> QED
  BY <1>1, <1>2, <1>3, Zenon DEF EncodeField

LEMMA EvolveKeeps ==
    ASSUME SchemaInv, Evolve, UNCHANGED <<configured, job, wires, meta, state>>
    PROVE  SchemaInv'
<1>1. PICK e \in Subjects \X Texts : Post(e[1], e[2])
  BY RegistryAssumption, Zenon DEF Evolve
<1>2. e[1] \in Subjects /\ e[2] \in Texts
  BY Zenon
<1>3. schemas \in Seq(Texts) /\ versions \in [Subjects -> Seq(Nat)] /\ RegistryInv
  BY Zenon DEF SchemaInv, EncoderTypeOK
<1>4. /\ schemas' \in Seq(Texts) /\ versions' \in [Subjects -> Seq(Nat)] /\ RegistryInv'
      /\ RegistryGrows
  BY <1>1, <1>2, <1>3, PostKeeps, Zenon
<1>5. EncoderTypeOK'
  BY <1>4, Zenon DEF SchemaInv, EncoderTypeOK
<1>6. ASSUME NEW d \in Jobs PROVE JobInv(d)'
  BY <1>4, JobKeeps, Zenon
<1> QED
  BY <1>4, <1>5, <1>6, Zenon DEF SchemaInv

LEMMA EncoderInitInv ==
    ASSUME EncoderInit
    PROVE  SchemaInv
<1> USE DEF EncoderInit
<1>1. schemas \in Seq(Texts) /\ versions \in [Subjects -> Seq(Nat)] /\ RegistryInv
  BY InitRegistry, Zenon
<1>2. /\ wires \in [Jobs -> Seq(Wires)] /\ meta \in [Jobs -> Metas] /\ state \in [Jobs -> JobStates]
  BY DEF Metas, JobStates
<1>3. EncoderTypeOK
  BY <1>1, <1>2, Zenon DEF EncoderTypeOK
<1>4. ASSUME NEW j \in Jobs PROVE JobInv(j)
  <2>1. wires[j] = <<>> /\ \A side \in {"key", "value"} : meta[j][side] = 0
    BY Zenon
  <2>2. Len(job[j].fields) \in Nat
    BY <1>3, JobFacts, Zenon
  <2> QED
    BY <2>1, <2>2 DEF JobInv, MetaInv
<1> QED
  BY <1>1, <1>3, <1>4, Zenon DEF SchemaInv

(***************************************************************************)
(* The invariant holds for any schemas, subjects, jobs, and whatever other *)
(* clients of the service register.                                        *)
(***************************************************************************)
THEOREM EncoderCorrect == EncoderSpec => []SchemaInv
<1>1. SchemaInv /\ UNCHANGED encoderVars => SchemaInv'
  <2> SUFFICES ASSUME SchemaInv, UNCHANGED encoderVars PROVE SchemaInv'
    BY Zenon
  <2>1. UNCHANGED registryVars /\ job' = job /\ wires' = wires /\ meta' = meta /\ state' = state
    BY Zenon DEF encoderVars
  <2>2. /\ schemas' \in Seq(Texts) /\ versions' \in [Subjects -> Seq(Nat)]
        /\ RegistryInv' /\ RegistryGrows
    BY <2>1, RegistryStays, Zenon
  <2>3. EncoderTypeOK'
    BY <2>1, <2>2, Zenon DEF SchemaInv, EncoderTypeOK
  <2>4. ASSUME NEW d \in Jobs PROVE JobInv(d)'
    BY <2>1, <2>2, JobKeeps, Zenon
  <2> QED
    BY <2>2, <2>3, <2>4, Zenon DEF SchemaInv
<1>2. SchemaInv /\ [EncoderNext]_encoderVars => SchemaInv'
  BY <1>1, EncodeKeeps, EvolveKeeps, Zenon DEF EncoderNext
<1>3. EncoderInit => SchemaInv
  BY EncoderInitInv, Zenon
<1> QED
  BY <1>2, <1>3, PTL DEF EncoderSpec

\* A framed payload, its field and what is known of them.
LEMMA FramedFacts ==
    ASSUME SchemaInv, NEW j \in Jobs, NEW i \in Framed(j)
    PROVE  /\ i \in DOMAIN wires[j] /\ i \in DOMAIN job[j].fields /\ wires[j][i].id # 0
           /\ job[j].fields[i].side \in {"key", "value"}
           /\ Suits(job[j].fields[i], wires[j][i].id, wires[j][i].type, wires[j][i].text)
           /\ job[j].fields[i].data \in wires[j][i].text.fits
<1>1. EncoderTypeOK /\ JobInv(j) /\ i \in DOMAIN wires[j] /\ wires[j][i].id # 0
  BY Zenon DEF SchemaInv, Framed
<1>2. i \in DOMAIN job[j].fields /\ WireInv(j, i)
  BY <1>1, JobFacts DEF JobInv
<1>3. job[j].fields[i].side \in {"key", "value"}
  BY <1>1, <1>2, JobFacts, Zenon
<1> QED
  BY <1>1, <1>2, <1>3, Zenon DEF WireInv

(***************************************************************************)
(* encodeSchemaAware, appendConfluentWireFormat: the id in front of every  *)
(* payload names, for good, the schema the payload was encoded with.       *)
(***************************************************************************)
THEOREM WiresNamed == EncoderSpec => []WiresNameTheirSchema
<1>1. ASSUME SchemaInv PROVE WiresNameTheirSchema
  BY <1>1, FramedFacts, Zenon DEF WiresNameTheirSchema, Suits
<1> QED
  BY <1>1, EncoderCorrect, PTL

(***************************************************************************)
(* Resolve: a record is encoded with the schema it asks for, by text, else *)
(* by version, else by id, else with one of its subject's versions.        *)
(***************************************************************************)
THEOREM WiresAsked == EncoderSpec => []WiresAsAsked
<1>1. ASSUME SchemaInv PROVE WiresAsAsked
  <2>1. ASSUME NEW j \in Jobs, NEW i \in Framed(j)
        PROVE  Suits(job[j].fields[i], wires[j][i].id, wires[j][i].type, wires[j][i].text)
    BY <1>1, FramedFacts, Zenon
  <2> QED
    BY <2>1, ZenonT(60) DEF WiresAsAsked, Suits, IdsOf
<1> QED
  BY <1>1, EncoderCorrect, PTL

(***************************************************************************)
(* decodeProduceRequestWithSchema: the schema id of a v2 response is the   *)
(* id in front of every payload of its side, when the request names its    *)
(* schema: the ids agree because a schema has one id.                      *)
(***************************************************************************)
THEOREM ReportedSchema == EncoderSpec => []NamedSchemaIsReported
<1>1. ASSUME SchemaInv PROVE NamedSchemaIsReported
  <2> SUFFICES ASSUME NEW j \in Jobs, job[j].route = "v2", NEW i \in Framed(j),
                      job[j].fields[i].text # NoText \/ job[j].fields[i].id # 0
               PROVE  meta[j][job[j].fields[i].side] = wires[j][i].id
    BY Zenon DEF NamedSchemaIsReported
  <2> DEFINE field == job[j].fields[i]
  <2>1. /\ i \in DOMAIN wires[j] /\ i \in DOMAIN job[j].fields /\ wires[j][i].id # 0
        /\ field.side \in {"key", "value"}
        /\ Suits(field, wires[j][i].id, wires[j][i].type, wires[j][i].text)
    BY <1>1, FramedFacts, Zenon
  <2>2. PICK k \in DOMAIN wires[j] :
           /\ wires[j][k].id # 0 /\ job[j].fields[k].side = field.side
           /\ meta[j][field.side] = wires[j][k].id
    BY <1>1, <2>1, Zenon DEF SchemaInv, JobInv, MetaInv
  <2>3. k \in Framed(j)
    BY <2>2, Zenon DEF Framed
  <2>4. /\ k \in DOMAIN job[j].fields
        /\ Suits(job[j].fields[k], wires[j][k].id, wires[j][k].type, wires[j][k].text)
    BY <1>1, <2>3, FramedFacts, Zenon
  <2>5. V2Fields(job[j].fields)
    BY <1>1, WorkAssumption, Zenon DEF SchemaInv, EncoderTypeOK
  <2>6. /\ field.version = 0 /\ job[j].fields[k].version = 0
        /\ job[j].fields[k].text = field.text /\ job[j].fields[k].id = field.id
    BY <2>1, <2>2, <2>4, <2>5, Zenon DEF V2Fields
  <2>7. \A a, b \in DOMAIN schemas : schemas[a] = schemas[b] => a = b
    BY <1>1, Zenon DEF SchemaInv, RegistryInv
  <2>8. CASE field.text # NoText
    <3>1. /\ wires[j][i].id \in DOMAIN schemas /\ schemas[wires[j][i].id] = field.text
          /\ wires[j][k].id \in DOMAIN schemas /\ schemas[wires[j][k].id] = field.text
      BY <2>1, <2>4, <2>6, <2>8, Zenon DEF Suits
    <3> QED
      BY <2>2, <2>7, <3>1, Zenon
  <2>9. CASE field.text = NoText /\ field.id # 0
    BY <2>1, <2>2, <2>4, <2>6, <2>9, Zenon DEF Suits
  <2> QED
    BY <2>8, <2>9, Zenon
<1> QED
  BY <1>1, EncoderCorrect, PTL

-----------------------------------------------------------------------------
(* The id of a response to a request that leaves the schema to the registry. *)

LeftOpen(field) == field.text = NoText /\ field.version = 0 /\ field.id = 0

\* A version of the subject with id a, and the same one or a later one with id b.
NoNewer(subject, a, b) ==
    \E u, v \in DOMAIN versions[subject] :
        u <= v /\ versions[subject][u] = a /\ versions[subject][v] = b

OldestAt(j, i) ==
    job[j].route = "v2" /\ wires[j][i].id # 0 /\ LeftOpen(job[j].fields[i]) =>
        NoNewer(AskedSubject(job[j].fields[i]), meta[j][job[j].fields[i].side], wires[j][i].id)

OldestInv == \A j \in Jobs : \A i \in DOMAIN wires[j] : OldestAt(j, i)

LEMMA NoNewerKept ==
    ASSUME RegistryGrows, NEW s \in Subjects, NEW a, NEW b, NoNewer(s, a, b)
    PROVE  NoNewer(s, a, b)'
BY Zenon DEF NoNewer, RegistryGrows

\* The fields of one side of a v2 request leave their schema to one subject.
LEMMA OneSubject ==
    ASSUME EncoderTypeOK, NEW j \in Jobs, job[j].route = "v2",
           NEW i \in DOMAIN job[j].fields, NEW k \in DOMAIN job[j].fields,
           job[j].fields[k].side = job[j].fields[i].side, LeftOpen(job[j].fields[i])
    PROVE  /\ LeftOpen(job[j].fields[k])
           /\ AskedSubject(job[j].fields[k]) = AskedSubject(job[j].fields[i])
<1> DEFINE f == job[j].fields[i]
           g == job[j].fields[k]
<1>1. V2Fields(job[j].fields)
  BY WorkAssumption, Zenon DEF EncoderTypeOK
<1>3. g.text = f.text /\ g.id = f.id
  BY <1>1, Zenon DEF V2Fields
<1>4. f.subject = <<>> /\ f.strategy \in {"", "TOPIC_NAME"}
  BY <1>1, Zenon DEF V2Fields
<1>5. g.subject = <<>> /\ g.strategy \in {"", "TOPIC_NAME"} /\ g.version = 0
  BY <1>1, Zenon DEF V2Fields
<1>6. g.side = f.side /\ LeftOpen(f)
  BY Zenon
<1> HIDE DEF f, g
<1>7. ASSUME NEW h, h.subject = <<>>, h.strategy \in {"", "TOPIC_NAME"}
      PROVE  ResolveSubject(h) = <<"topic", h.side>>
  <2>1. h.strategy # "RECORD_NAME" /\ h.strategy # "TOPIC_RECORD_NAME"
    BY <1>7, Zenon
  <2> QED
    BY <1>7, <2>1, Zenon DEF ResolveSubject
<1>8. ResolveSubject(f) = ResolveSubject(g)
  BY <1>4, <1>5, <1>6, <1>7, Zenon
<1>9. LeftOpen(g) /\ AskedSubject(g) = AskedSubject(f)
  BY <1>3, <1>5, <1>6, <1>8, Zenon DEF LeftOpen, AskedSubject
<1> QED
  BY <1>9, Zenon DEF f, g

\* The subject of a payload whose schema was left open is one that the service has.
LEMMA OpenSubject ==
    ASSUME SchemaInv, NEW d \in Jobs, NEW i \in DOMAIN wires[d],
           wires[d][i].id # 0, LeftOpen(job[d].fields[i])
    PROVE  /\ i \in DOMAIN job[d].fields /\ AskedSubject(job[d].fields[i]) \in Subjects
           /\ \E v \in DOMAIN versions[AskedSubject(job[d].fields[i])] :
                 versions[AskedSubject(job[d].fields[i])][v] = wires[d][i].id
<1>1. EncoderTypeOK /\ JobInv(d)
  BY Zenon DEF SchemaInv
<1>2. i \in DOMAIN job[d].fields
  BY <1>1, JobFacts DEF JobInv
<1>3. Addressed(job[d].fields[i])
  BY <1>1, <1>2, JobFacts, Zenon
<1>4. Suits(job[d].fields[i], wires[d][i].id, wires[d][i].type, wires[d][i].text)
  BY <1>1, Zenon DEF JobInv, WireInv
<1> QED
  BY <1>2, <1>3, <1>4, Zenon DEF Suits, Addressed, LeftOpen

LEMMA OldestKept ==
    ASSUME SchemaInv, RegistryGrows, NEW d \in Jobs, NEW i \in DOMAIN wires[d], OldestAt(d, i),
           job' = job, wires'[d][i] = wires[d][i],
           wires[d][i].id # 0 => meta'[d][job[d].fields[i].side] = meta[d][job[d].fields[i].side]
    PROVE  OldestAt(d, i)'
<1>1. SUFFICES ASSUME job[d].route = "v2", wires[d][i].id # 0, LeftOpen(job[d].fields[i])
               PROVE  OldestAt(d, i)'
  BY Zenon DEF OldestAt, LeftOpen
<1>2. PICK s \in Subjects : s = AskedSubject(job[d].fields[i])
  BY <1>1, OpenSubject, Zenon
<1>3. PICK a, b : a = meta[d][job[d].fields[i].side] /\ b = wires[d][i].id
  BY Zenon
<1>4. NoNewer(s, a, b)
  BY <1>1, <1>2, <1>3, Zenon DEF OldestAt
<1>5. NoNewer(s, a, b)'
  BY <1>4, NoNewerKept, Zenon
<1>6. /\ s = AskedSubject(job'[d].fields[i]) /\ a = meta'[d][job'[d].fields[i].side]
      /\ b = wires'[d][i].id
  BY <1>1, <1>2, <1>3, Zenon
<1> QED
  BY <1>5, <1>6, Zenon DEF OldestAt, NoNewer

\* What the registry answers to a field that leaves it the choice.
LEMMA LatestFound ==
    ASSUME versions \in [Subjects -> Seq(Nat)], RegistryInv,
           NEW field \in Fields, Addressed(field), LeftOpen(field),
           NEW type, NEW answer, answer.id # 0,
           Resolve(ResolveSubject(field), type, field, answer)
    PROVE  /\ versions' = versions /\ AskedSubject(field) \in Subjects
           /\ Found(AskedSubject(field), Len(versions[AskedSubject(field)]), answer)
<1> DEFINE subject == AskedSubject(field)
           latest == IF subject = NoSubject THEN 0 ELSE Len(versions[subject])
<1>0. subject \in Subjects \cup {NoSubject} /\ subject = RequestedSubject(ResolveSubject(field))
  BY Zenon DEF Addressed, AskedSubject
<1>1. DoJSON(UNCHANGED registryVars, SubjectVersion(subject, latest), answer)
  BY <1>0, Zenon DEF LeftOpen, Resolve, GetLatest
<1>2. NotResolved.id = 0
  BY Zenon DEF NotResolved
<1>3. latest \in Nat
  BY <1>0
<1> HIDE DEF latest
<1>4. versions' = versions /\ answer = SubjectVersion(subject, latest)
  BY <1>1, <1>2, Zenon DEF DoJSON, registryVars
<1>5. Found(subject, latest, answer)
  BY <1>0, <1>3, <1>4, VersionFound, ZenonT(30)
<1>6. subject # NoSubject
  BY <1>5, Zenon DEF Found
<1> QED
  BY <1>0, <1>4, <1>5, <1>6, Zenon DEF latest

\* Payload w of a field that left the choice open is of the subject's last version.
Newest(field, w) ==
    LET known == versions[AskedSubject(field)] IN
    w.id # 0 /\ LeftOpen(field) =>
        /\ versions' = versions /\ AskedSubject(field) \in Subjects
        /\ Len(known) \in DOMAIN known /\ w.id = known[Len(known)]

LEMMA OldestAccept ==
    ASSUME SchemaInv, OldestInv, RegistryGrows, NEW j \in Jobs, NEW w, NEW field, NEW n, NEW m,
           Appended(j, w, field, n, m), Newest(field, w)
    PROVE  OldestInv'
<1>0. EncoderTypeOK /\ JobInv(j) /\ versions \in [Subjects -> Seq(Nat)]
  BY Zenon DEF SchemaInv, EncoderTypeOK
<1>1. /\ n \in Nat /\ DOMAIN wires[j] = 1..n /\ DOMAIN wires'[j] = 1..(n + 1)
      /\ n + 1 \in DOMAIN job[j].fields /\ field = job[j].fields[n + 1]
      /\ field.side \in {"key", "value"} /\ job' = job
      /\ m = IF meta[j][field.side] = 0 THEN w.id ELSE meta[j][field.side]
  BY Zenon DEF Appended
<1>2. /\ \A i \in 1..n : wires'[j][i] = wires[j][i]
      /\ wires'[j][n + 1] = w
      /\ meta'[j][field.side] = m
      /\ \A side \in {"key", "value"} \ {field.side} : meta'[j][side] = meta[j][side]
      /\ \A d \in Jobs \ {j} : wires'[d] = wires[d] /\ meta'[d] = meta[d]
  BY Zenon DEF Appended
<1>3. ASSUME NEW d \in Jobs \ {j}, NEW i \in DOMAIN wires'[d] PROVE OldestAt(d, i)'
  BY <1>1, <1>2, OldestKept, Zenon DEF OldestInv
<1>4. ASSUME NEW i \in 1..n PROVE OldestAt(j, i)'
  <2>1. OldestAt(j, i)
    BY <1>1, Zenon DEF OldestInv
  <2>2. ASSUME wires[j][i].id # 0
        PROVE  meta'[j][job[j].fields[i].side] = meta[j][job[j].fields[i].side]
    <3>1. meta[j][job[j].fields[i].side] # 0
      BY <1>0, <1>1, <2>2, Zenon DEF JobInv, MetaInv
    <3>2. i \in DOMAIN job[j].fields
      <4>1. /\ n \in Nat /\ i \in 1..n /\ n + 1 \in 1..Len(job[j].fields)
            /\ Len(job[j].fields) \in Nat /\ DOMAIN job[j].fields = 1..Len(job[j].fields)
        BY <1>0, <1>1, JobFacts, Zenon
      <4> QED
        BY <4>1
    <3>3. job[j].fields[i].side \in {"key", "value"}
      BY <1>0, <3>2, JobFacts, Zenon
    <3> QED
      BY <1>1, <1>2, <3>1, <3>3, Zenon
  <2> QED
    BY <1>1, <1>2, <2>1, <2>2, OldestKept, Zenon
<1>5. ASSUME job[j].route = "v2", w.id # 0, LeftOpen(field)
      PROVE  NoNewer(AskedSubject(field), m, w.id)
  <2> DEFINE s == AskedSubject(field)
             last == Len(versions[s])
  <2>1. s \in Subjects /\ last \in DOMAIN versions[s] /\ w.id = versions[s][last]
    BY <1>5, Zenon DEF Newest
  <2>2. last \in Nat /\ \A u \in DOMAIN versions[s] : u <= last
    BY <1>0, <2>1
  <2>3. \E u \in DOMAIN versions[s] : versions[s][u] = m
    <3>1. CASE meta[j][field.side] = 0
      BY <1>1, <2>1, <3>1, Zenon
    <3>2. CASE meta[j][field.side] # 0
      <4>1. PICK k \in DOMAIN wires[j] :
               /\ wires[j][k].id # 0 /\ job[j].fields[k].side = field.side
               /\ meta[j][field.side] = wires[j][k].id
        BY <1>0, <1>1, <3>2, Zenon DEF JobInv, MetaInv
      <4>2. k \in DOMAIN job[j].fields
        BY <1>0, JobFacts DEF JobInv
      <4>3. LeftOpen(job[j].fields[k]) /\ AskedSubject(job[j].fields[k]) = s
        BY <1>0, <1>1, <1>5, <4>1, <4>2, OneSubject, Zenon
      <4> QED
        BY <1>1, <3>2, <4>1, <4>3, OpenSubject, Zenon
    <3> QED
      BY <3>1, <3>2, Zenon
  <2> HIDE DEF last
  <2> QED
    BY <2>1, <2>2, <2>3, Zenon DEF NoNewer
<1>6. OldestAt(j, n + 1)'
  <2>1. SUFFICES ASSUME job[j].route = "v2", w.id # 0, LeftOpen(field)
                 PROVE  OldestAt(j, n + 1)'
    BY <1>1, <1>2, Zenon DEF OldestAt, LeftOpen
  <2>2. NoNewer(AskedSubject(field), m, w.id) /\ versions' = versions
    BY <1>5, <2>1, Zenon DEF Newest
  <2>3. PICK s, b : s = AskedSubject(field) /\ b = w.id
    BY Zenon
  <2>4. NoNewer(s, m, b)'
    BY <2>2, <2>3, Zenon DEF NoNewer
  <2>5. /\ s = AskedSubject(job'[j].fields[n + 1]) /\ m = meta'[j][job'[j].fields[n + 1].side]
        /\ b = wires'[j][n + 1].id
    BY <1>1, <1>2, <2>3, Zenon
  <2> QED
    BY <2>4, <2>5, Zenon DEF OldestAt, NoNewer
<1>7. ASSUME NEW i \in DOMAIN wires'[j] PROVE OldestAt(j, i)'
  <2>1. i \in 1..n \/ i = n + 1
    <3>1. n \in Nat /\ i \in 1..(n + 1)
      BY <1>1, Zenon
    <3> QED
      BY <3>1
  <2> QED
    BY <1>4, <1>6, <2>1, Zenon
<1> QED
  BY <1>3, <1>7, Zenon DEF OldestInv

LEMMA OldestStays ==
    ASSUME SchemaInv, OldestInv, RegistryGrows, job' = job, wires' = wires, meta' = meta
    PROVE  OldestInv'
<1>1. ASSUME NEW d \in Jobs, NEW i \in DOMAIN wires[d] PROVE OldestAt(d, i)'
  BY OldestKept, Zenon DEF OldestInv
<1> QED
  BY <1>1, Zenon DEF OldestInv

\* The three ways in which a field ends, for what is reported.
LEMMA OldestReject ==
    ASSUME SchemaInv, OldestInv, RegistryGrows, NEW j \in Jobs, Reject(j)
    PROVE  OldestInv'
BY OldestStays, Zenon DEF Reject

LEMMA OldestAppend ==
    ASSUME SchemaInv, OldestInv, RegistryGrows, NEW j \in Jobs, Ready(j),
           NEW w \in Wires, Accept(j, w),
           schemas' \in Seq(Texts), versions' \in [Subjects -> Seq(Nat)],
           NEW field \in Fields, field = Field(j), Newest(field, w)
    PROVE  OldestInv'
<1>1. CASE ~field.valid
  <2>1. Reject(j)
    BY <1>1, Zenon DEF Accept
  <2> QED
    BY <2>1, OldestReject, Zenon
<1>2. CASE field.valid
  <2>1. PICK n, m : Appended(j, w, field, n, m)
    BY <1>2, AcceptAppends, Zenon
  <2> QED
    BY <2>1, OldestAccept, Zenon
<1>3. field.valid \in BOOLEAN
  BY Zenon DEF Fields
<1> QED
  BY <1>1, <1>2, <1>3, Zenon

LEMMA OldestEncode ==
    ASSUME SchemaInv, OldestInv, NEW j \in Jobs, EncodeField(j)
    PROVE  OldestInv'
<1>0. Ready(j)
  BY Zenon DEF EncodeField, EncodeUnsupported, EncodeUnresolvable, EncodePlain, EncodeNull,
               EncodeSchemaAware
<1>1. PICK field \in Fields : field = Field(j) /\ Addressed(field)
  BY <1>0, NextField, Zenon
<1>2. CASE EncodeUnsupported(j) \/ EncodeUnresolvable(j)
  BY <1>2, RegistryStays, OldestReject, Zenon DEF EncodeUnsupported, EncodeUnresolvable
<1>3. CASE EncodePlain(j) \/ EncodeNull(j)
  <2>1. /\ UNCHANGED registryVars
        /\ Accept(j, NullWire) \/ Accept(j, PlainWire) \/ Reject(j)
    BY <1>3, Zenon DEF EncodePlain, EncodeNull
  <2>2. ASSUME NEW w \in {NullWire, PlainWire}, Accept(j, w) PROVE OldestInv'
    <3>1. w \in Wires /\ w.id = 0
      BY PlainWires, Zenon
    <3>2. Newest(field, w)
      BY <3>1, Zenon DEF Newest
    <3> QED
      BY <1>0, <1>1, <2>1, <2>2, <3>1, <3>2, RegistryStays, OldestAppend, Zenon
  <2> QED
    BY <2>1, <2>2, RegistryStays, OldestReject, Zenon
<1>4. CASE EncodeSchemaAware(j)
  <2>0. schemas \in Seq(Texts) /\ versions \in [Subjects -> Seq(Nat)] /\ RegistryInv
    BY Zenon DEF SchemaInv, EncoderTypeOK
  <2>1. EncodeType(field) \in SchemaTypes
    BY <1>1, <1>4, Zenon DEF EncodeSchemaAware
  <2>2. PICK answer \in Answers :
          /\ Resolve(ResolveSubject(field), EncodeType(field), field, answer)
          /\ IF answer.id # 0 /\ field.data \in answer.text.fits
               THEN Accept(j, ConfluentWire(field, answer))
               ELSE Reject(j)
    BY <1>1, <1>4, Zenon DEF EncodeSchemaAware, Answers
  <2>3. schemas' \in Seq(Texts) /\ versions' \in [Subjects -> Seq(Nat)] /\ RegistryGrows
    BY <1>1, <2>0, <2>1, <2>2, ResolveSuits, Zenon
  <2>4. CASE answer.id # 0 /\ field.data \in answer.text.fits
    <3>1. PICK w \in Wires : w = ConfluentWire(field, answer) /\ w.id = answer.id
      BY ConfluentWires, Zenon
    <3>2. Accept(j, w)
      BY <2>2, <2>4, <3>1, Zenon
    <3>3. ASSUME LeftOpen(field)
          PROVE  /\ versions' = versions /\ AskedSubject(field) \in Subjects
                 /\ Found(AskedSubject(field), Len(versions[AskedSubject(field)]), answer)
      BY <1>1, <2>0, <2>2, <2>4, <3>3, LatestFound, Zenon
    <3>4. Newest(field, w)
      BY <3>1, <3>3, Zenon DEF Newest, Found
    <3> QED
      BY <1>0, <1>1, <2>3, <3>2, <3>4, OldestAppend, Zenon
  <2>5. CASE ~(answer.id # 0 /\ field.data \in answer.text.fits)
    BY <2>2, <2>3, <2>5, OldestReject, Zenon
  <2> QED
    BY <2>4, <2>5, Zenon
<1> QED
  BY <1>2, <1>3, <1>4, Zenon DEF EncodeField

LEMMA OldestEvolve ==
    ASSUME SchemaInv, OldestInv, Evolve, UNCHANGED <<configured, job, wires, meta, state>>
    PROVE  OldestInv'
<1>1. PICK e \in Subjects \X Texts : Post(e[1], e[2])
  BY RegistryAssumption, Zenon DEF Evolve
<1>2. e[1] \in Subjects /\ e[2] \in Texts
  BY Zenon
<1>3. schemas \in Seq(Texts) /\ versions \in [Subjects -> Seq(Nat)] /\ RegistryInv
  BY Zenon DEF SchemaInv, EncoderTypeOK
<1>4. RegistryGrows
  BY <1>1, <1>2, <1>3, PostKeeps, Zenon
<1> QED
  BY <1>4, OldestStays, Zenon

(***************************************************************************)
(* decodeProduceRequestWithSchema: when a v2 request leaves the schema to  *)
(* the registry, the id that the response reports is that of the oldest    *)
(* version that a payload of its side was encoded with, whatever others    *)
(* register between two of its records.                                    *)
(***************************************************************************)
THEOREM OldestReported == EncoderSpec => []ReportedIsOldest
<1>1. EncoderInit => OldestInv
  <2>1. ASSUME EncoderInit, NEW j \in Jobs PROVE wires[j] = <<>>
    BY <2>1, Zenon DEF EncoderInit
  <2>2. DOMAIN <<>> = {}
    OBVIOUS
  <2> QED
    BY <2>1, <2>2, Zenon DEF OldestInv
<1>2. SchemaInv /\ OldestInv /\ [EncoderNext]_encoderVars => OldestInv'
  <2>1. SchemaInv /\ OldestInv /\ UNCHANGED encoderVars => OldestInv'
    BY RegistryStays, OldestStays, Zenon DEF encoderVars
  <2> QED
    BY <2>1, OldestEncode, OldestEvolve, Zenon DEF EncoderNext
<1>3. ASSUME SchemaInv, OldestInv PROVE ReportedIsOldest
  <2>1. ASSUME NEW j \in Jobs, job[j].route = "v2", NEW i \in Framed(j),
               job[j].fields[i].text = NoText, job[j].fields[i].id = 0
        PROVE  NoNewer(AskedSubject(job[j].fields[i]), meta[j][job[j].fields[i].side], wires[j][i].id)
    <3>1. i \in DOMAIN wires[j] /\ i \in DOMAIN job[j].fields /\ wires[j][i].id # 0
      BY <1>3, FramedFacts, Zenon
    <3>2. V2Fields(job[j].fields)
      BY <1>3, <2>1, WorkAssumption, Zenon DEF SchemaInv, EncoderTypeOK
    <3>3. LeftOpen(job[j].fields[i])
      BY <2>1, <3>1, <3>2, Zenon DEF LeftOpen, V2Fields
    <3> QED
      BY <1>3, <2>1, <3>1, <3>3, Zenon DEF OldestInv, OldestAt
  <2> QED
    BY <2>1, Zenon DEF ReportedIsOldest, NoNewer
<1> QED
  BY <1>1, <1>2, <1>3, EncoderCorrect, PTL DEF EncoderSpec

=============================================================================
