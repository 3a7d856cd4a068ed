------------------------------ MODULE JsonText ------------------------------
(***************************************************************************)
(* The value of a JSON record, from the text in the request's body to the  *)
(* bytes that go to Kafka.  A text is a sequence of byte classes; what a   *)
(* byte is, beyond its class, plays no part.                               *)
(***************************************************************************)
EXTENDS Integers, Sequences, FiniteSets

Classes == {"quote", "escape", "space", "other"}

-----------------------------------------------------------------------------
\* One turn of the loop of jsonRawIsCompact.
Scanned(in, esc, ok) == [inString |-> in, escaped |-> esc, compact |-> ok]

\* Mutant: the byte after an escape is looked at like any other.
ScanForgetsEscape(s, b) ==
    IF s.inString THEN Scanned(b # "quote", FALSE, s.compact)
    ELSE Scanned(b = "quote", FALSE, s.compact /\ b # "space")

Scan(s, b) ==
    IF s.inString
      THEN IF s.escaped THEN [s EXCEPT !.escaped = FALSE]
           ELSE Scanned(b # "quote", b = "escape", s.compact)
      ELSE Scanned(b = "quote", FALSE, s.compact /\ b # "space")

JsonRawIsCompact(raw) ==
    LET after[n \in 0..Len(raw)] == IF n = 0 THEN Scanned(FALSE, FALSE, TRUE)
                                             ELSE Scan(after[n - 1], raw[n])
    IN after[Len(raw)].compact

\* bytes.TrimSpace.
TrimSpace(raw) ==
    LET ink == {i \in DOMAIN raw : raw[i] # "space"} IN
    IF ink = {} THEN <<>>
    ELSE SubSeq(raw, CHOOSE i \in ink : \A j \in ink : i <= j, CHOOSE i \in ink : \A j \in ink : i >= j)

-----------------------------------------------------------------------------
\* The length of the run of escapes that ends at i.
EscapesUpTo(raw, i) ==
    LET runs == {n \in 0..i : \A j \in (i - n + 1)..i : raw[j] = "escape"}
    IN CHOOSE n \in runs : \A m \in runs : n >= m

\* The quotes that open or close a string: an odd run of escapes hides one.
Delimiters(raw) == {i \in DOMAIN raw : raw[i] = "quote" /\ EscapesUpTo(raw, i - 1) % 2 = 0}
Inside(raw, i) == Cardinality({j \in Delimiters(raw) : j < i}) % 2 = 1

\* In a JSON text strings are closed and escapes are inside of strings.
WellFormed(raw) ==
    /\ Cardinality(Delimiters(raw)) % 2 = 0
    /\ \A i \in DOMAIN raw : raw[i] = "escape" => Inside(raw, i)

\* json.Compact: everything but the space between tokens, in order.
Compact(raw) ==
    LET kept == {i \in DOMAIN raw : raw[i] = "space" => Inside(raw, i)}
    IN [n \in 1..Cardinality(kept) |->
           raw[CHOOSE i \in kept : Cardinality({j \in kept : j < i}) = n - 1]]

DecodeJSONValue(raw) ==
    LET trimmed == TrimSpace(raw) IN
    IF JsonRawIsCompact(trimmed) THEN trimmed ELSE Compact(trimmed)

\* encodeJSON, of the v3 routes.
EncodeJSON(raw) == Compact(raw)

=============================================================================
