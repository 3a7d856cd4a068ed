--------------------------- MODULE SchemaRegistry ---------------------------
(***************************************************************************)
(* internal/schema/registry.go: how HTTPRegistry.Resolve asks the Schema   *)
(* Registry service for a schema.                                          *)
(*                                                                         *)
(* The service is external and is modelled by what Resolve relies on: a    *)
(* schema gets one id, for good; registering it again, under any subject,  *)
(* yields that id; a subject's versions only grow; a text that is not of   *)
(* the type it is posted as is refused.  Other clients of the service      *)
(* register schemas too, and any call may fail, before or after the        *)
(* service has acted on it.                                                *)
(***************************************************************************)
EXTENDS Integers, FiniteSets, Sequences, SequencesExt

CONSTANTS
    Texts,      \* schema texts: [kind, name, fits, depth]
    Subjects,   \* the subjects that the service knows
    Seeded,     \* the versions of each subject at the start, as texts
    Evolutions, \* what other clients register: <<subject, text>> pairs
    Escaped,    \* what url.PathEscape makes of the names that it changes
    MaxSchemas  \* bound: ids the service gives out

VARIABLES
    schemas,    \* schemas[id]
    versions    \* versions[subject]: ids, oldest first

registryVars == <<schemas, versions>>

NoText == [kind |-> "", name |-> "", fits |-> {}, depth |-> 0]

Known == {schemas[id] : id \in DOMAIN schemas}
IdOf(text) == CHOOSE id \in DOMAIN schemas : schemas[id] = text
IdsOf(subject) == {versions[subject][v] : v \in DOMAIN versions[subject]}

SeededTexts == UNION {{Seeded[s][v] : v \in DOMAIN Seeded[s]} : s \in Subjects}

ASSUME TextAssumption ==
    Texts \subseteq [kind : STRING, name : STRING, fits : SUBSET STRING, depth : Nat]

ASSUME RegistryAssumption ==
    /\ <<>> \notin Subjects
    /\ Seeded \in [Subjects -> Seq(Texts)]
    /\ IsFiniteSet(SeededTexts)
    /\ Evolutions \subseteq Subjects \X Texts
    /\ MaxSchemas \in Nat

RegistryInit ==
    /\ schemas = SetToSeq(SeededTexts)
    /\ versions = [s \in Subjects |-> [v \in DOMAIN Seeded[s] |-> IdOf(Seeded[s][v])]]

\* The service handles POST /subjects/{subject}/versions.
Post(subject, text) ==
    LET id == IF text \in Known THEN IdOf(text) ELSE Len(schemas) + 1 IN
    /\ text \in Known \/ Len(schemas) < MaxSchemas
    /\ schemas' = IF text \in Known THEN schemas ELSE Append(schemas, text)
    /\ versions' = IF id \in IdsOf(subject) THEN versions
                   ELSE [versions EXCEPT ![subject] = Append(@, id)]

\* Another client of the service registers a schema.
Evolve ==
    \E e \in Evolutions :
        /\ e[2] \notin {schemas[id] : id \in IdsOf(e[1])}
        /\ Post(e[1], e[2])

-----------------------------------------------------------------------------
(***************************************************************************)
(* The subject that the service is asked about.  register and              *)
(* getSubjectVersion escape the name, and doJSON takes the result for a    *)
(* path that is not escaped yet: the "%" of an escape goes out as "%25",   *)
(* and the service, which undoes one of the two, sees the escaped name.    *)
(* path.Join makes /versions of /subjects/../versions, and likewise drops  *)
(* ".", which leaves the path of no subject.                               *)
(***************************************************************************)
PathEscape(subject) ==
    [i \in DOMAIN subject |-> IF subject[i] \in DOMAIN Escaped THEN Escaped[subject[i]] ELSE subject[i]]
NoSubject == <<>>
RequestedSubject(subject) == IF subject \in {<<".">>, <<"..">>} THEN NoSubject ELSE PathEscape(subject)

\* What Resolve answers; id 0 stands for an error.
Resolved(id, text) == [id |-> id, text |-> text, type |-> text.kind]
NotResolved == [id |-> 0, text |-> NoText, type |-> ""]

\* doJSON: the service is not reached, or it acts, and then its reply, which may
\* be an error status, arrives or does not.
DoJSON(Acts, reply, answer) ==
    \/ UNCHANGED registryVars /\ answer = NotResolved
    \/ Acts /\ answer \in {NotResolved, reply}

SubjectVersion(subject, v) ==
    IF subject # NoSubject /\ v \in DOMAIN versions[subject]
      THEN Resolved(versions[subject][v], schemas[versions[subject][v]])
      ELSE NotResolved
GetSubjectVersion(subject, v, answer) ==
    DoJSON(UNCHANGED registryVars, SubjectVersion(RequestedSubject(subject), v), answer)
GetLatest(subject, answer) ==
    LET asked == RequestedSubject(subject)
        latest == IF asked = NoSubject THEN 0 ELSE Len(versions[asked])
    IN DoJSON(UNCHANGED registryVars, SubjectVersion(asked, latest), answer)

SchemaById(id) == IF id \in DOMAIN schemas THEN Resolved(id, schemas[id]) ELSE NotResolved
GetSchemaById(id, answer) == DoJSON(UNCHANGED registryVars, SchemaById(id), answer)

\* register: the answer carries the id, the text and type are the caller's.
Register(subject, type, text, answer) ==
    LET asked == RequestedSubject(subject)
        id == IF text \in Known THEN IdOf(text) ELSE Len(schemas) + 1
    IN IF text.kind # type \/ asked = NoSubject
         THEN DoJSON(UNCHANGED registryVars, NotResolved, answer)
         ELSE DoJSON(Post(asked, text), [id |-> id, text |-> text, type |-> type], answer)

\* Mutant: a version or an id is not looked at.
ResolveLatestFirst(subject, type, ask, answer) ==
    IF ask.text # NoText THEN Register(subject, type, ask.text, answer)
    ELSE GetLatest(subject, answer)

\* Resolve: the text is registered if there is one; else the version is asked
\* for, else the id, else the subject's latest version.
Resolve(subject, type, ask, answer) ==
    CASE ask.text # NoText -> Register(subject, type, ask.text, answer)
      [] ask.text = NoText /\ ask.version # 0 -> GetSubjectVersion(subject, ask.version, answer)
      [] ask.text = NoText /\ ask.version = 0 /\ ask.id # 0 -> GetSchemaById(ask.id, answer)
      [] OTHER -> GetLatest(subject, answer)

=============================================================================
