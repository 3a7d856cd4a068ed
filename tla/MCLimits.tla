------------------------------ MODULE MCLimits ------------------------------
(* Instances of Limits and Delivery for TLC. *)
EXTENDS Delivery, SequencesExt

CONSTANT MaxText   \* the longest value

Header(n, v) == [name |-> n, value |-> v]
SomeRecords ==
    [key : {None, 0, 3},
     value : {0, 2, 1024 * 1024},
     headers : {<<>>, <<Header(1, 0)>>, <<Header(1, None)>>, <<Header(0, 1)>>, <<Header(1, 2)>>,
                <<Header(1, 0), Header(1, 0), Header(1, 0)>>},
     partition : {None, -1, 0, 2}]
Values == {Unset, Garbage, -1, 0, 2}
Plain == [s \in Settings |-> Unset]

\* One or two settings at a time.
SomeEnvironments ==
    {[Plain EXCEPT ![s] = v] : s \in Settings, v \in Values} \cup
    {[Plain EXCEPT !.recordBytes = v, !.headers = w] : v \in Values, w \in Values} \cup
    {[Plain EXCEPT !.byteRate = v, !.byteBurst = w] : v \in Values, w \in Values} \cup
    {[Plain EXCEPT !.byteRate = 3, !.bytes = v] : v \in Values}

\* The paths that clients render: v2 with and without a partition, v3.
Topics == {<<"a">>, <<"a", "b">>, <<"c">>, <<"a", "/", "b">>, <<"a", "/", "partitions", "/", "0">>}
NumberOf == <<"0", "1", "2">>
Rendered(t, p) ==
    <<Word("topics"), Segment(t)>> \o
    (IF p = None THEN <<>> ELSE <<Word("partitions"), Word(NumberOf[p + 1])>>)
RenderedV3(c, t, w) ==
    <<Word("v3"), Word("clusters"), Word(c), Word("topics"), Segment(t), Word(w)>>

Request(path, asks) ==
    [method |-> "POST", path |-> path, token |-> "t", accept |-> <<>>,
     contentType |-> <<"json">>, asks |-> asks, body |-> <<>>]
Asks(c, t, p) == [cluster |-> c, topic |-> t, partition |-> p]
Produces ==
    {Request(Rendered(t, p), Asks(None, t, p)) : t \in Topics, p \in {None, 0, 1, 2}} \cup
    {Request(RenderedV3(c, t, w), Asks(<<c>>, t, None)) :
        c \in {"local", "k"}, t \in Topics, w \in {"records", "records:batch"}}

\* Paths that are not produce calls, and produce calls that fail a later test.
OtherPaths ==
    {<<Word("healthz")>>, <<Word("nowhere")>>, <<Word("topics")>>, <<Word("topics"), Segment(<<>>)>>,
     <<Word("topics"), Malformed>>, <<Word("topics"), Word("a"), Word("partitions")>>,
     <<Word("topics"), Word("a"), Word("x"), Word("0")>>,
     <<Word("topics"), Word("a"), Word("partitions"), Word("-1")>>,
     <<Word("topics"), Word("a"), Word("partitions"), Word("2147483648")>>,
     <<Word("topics"), Word("a"), Word("partitions"), Segment(<<>>)>>,
     <<Word("v3"), Word("clusters"), Word("k")>>, RenderedV3("local", <<"a">>, "record"),
     RenderedV3("local", <<>>, "records")}
Sample == Request(Rendered(<<"a">>, None), Asks(None, <<"a">>, None))
SampleV3 == Request(RenderedV3("local", <<"a">>, "records"), Asks(<<"local">>, <<"a">>, None))
Local == <<"local">>
Oddities ==
    {Request(p, None) : p \in OtherPaths} \cup
    {[Request(<<Word(w)>>, None) EXCEPT !.method = "GET", !.token = None] : w \in {"healthz", "readyz"}} \cup
    UNION {{[q EXCEPT !.method = "GET"], [q EXCEPT !.token = None], [q EXCEPT !.token = "u"],
            [q EXCEPT !.accept = <<"xml">>], [q EXCEPT !.accept = <<"xml", "v2">>],
            [q EXCEPT !.accept = <<"any">>], [q EXCEPT !.contentType = <<"text">>],
            [q EXCEPT !.contentType = <<"text", "json">>], [q EXCEPT !.contentType = <<"binary">>]}
           : q \in {Sample, SampleV3}}

Allowlists ==
    {{}, {<<"*">>}, {<<"a">>}, {<<"a", "*">>}, {<<"c">>, <<"a", "*">>}, {<<"*">>, <<"c">>}}

\* Every setting with every body, every request with some, every text.
With(requests, bodies) == {[q EXCEPT !.body = b] : q \in requests, b \in bodies}
Bodies(records, counts, texts) == [record : records, count : counts, text : texts]
FewRecords == [key : {None, 0, 2}, value : {2}, headers : {<<>>}, partition : {None, -1, 0, 2, 7}]
SomeTexts == {t \in BoundedSeq(Classes, MaxText) : WellFormed(t)}
SomeInstances ==
    [env : SomeEnvironments, allow : {{}},
     request : With({Sample, Request(Rendered(<<"a">>, 0), Asks(None, <<"a">>, 0))},
                    Bodies(SomeRecords, {1, 3}, {<<"other">>}))] \cup
    [env : {Plain}, allow : Allowlists,
     request : With(Produces \cup Oddities, Bodies(FewRecords, {1}, {<<"other">>}))] \cup
    [env : {Plain}, allow : {{}},
     request : With({Sample, SampleV3}, Bodies({[key |-> None, value |-> 2, headers |-> <<>>, partition |-> 0]},
                                     {1}, SomeTexts))]

=============================================================================
