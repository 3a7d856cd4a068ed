------------------------------ MODULE MCProxy ------------------------------
(* Small instances of Proxy for TLC. *)
EXTENDS Claims

Item(form, id) == [form |-> form, id |-> id]
Good == Item("good", "")
Bad == Item("bad", "")

Post(route, body, items) == [route |-> route, faults |-> {}, body |-> body, items |-> items]
Faulty(route, faults) == [route |-> route, faults |-> faults, body |-> "ok", items |-> <<Good>>]

V2Requests ==
    {Post("v2", "ok", items) :
        items \in {<<>>, <<Good, Good>>, <<Good, Bad>>, <<Good, Good, Good>>}}
    \cup {Post("v2", body, <<Good>>) : body \in Bodies}
    \cup {Faulty("v2", faults) :
             faults \in {{"auth", "topic"}, {"method", "path"}, {"topic", "contentType"}, {"accept"}}}

StreamRequests ==
    {Post("stream", "ok", items) :
        items \in {<<>>, <<Good, Good>>, <<Bad, Good>>, <<Good, Bad>>, <<Bad, Bad, Bad>>,
                   <<Good, Good, Good>>, <<Good, Item("malformed", "")>>,
                   <<Item("malformed", "")>>, <<Item("tooLarge", "")>>,
                   <<Bad, Item("tooLarge", "")>>}}

BatchRequests ==
    {Post("batch", "ok", items) :
        items \in {<<>>, <<Item("good", "a"), Item("good", "b")>>,
                   <<Item("good", "a"), Item("good", "a")>>,
                   <<Item("bad", "a"), Item("good", "a")>>,
                   <<Item("bad", "a"), Item("good", "b")>>,
                   <<Item("good", "long"), Item("good", "b")>>,
                   <<Item("good", ""), Item("good", "")>>,
                   <<Item("good", "a"), Item("good", "b"), Item("good", "c")>>}}
    \cup {Post("batch", "malformed", <<Item("good", "a")>>)}

\* Any kind of request, beside one that competes for admission.
MixedTraffic ==
    {<<r, s>> : r \in V2Requests \cup StreamRequests \cup BatchRequests,
                s \in {Post("v2", "ok", <<Good, Good>>), Post("stream", "ok", <<Good, Good>>)}}

\* One streamed request beside a short one, and one batch beside another.
StreamTraffic ==
    {<<Post("stream", "ok", <<Good, Good, Good>>), Post("v2", "ok", <<Good>>)>>,
     <<Post("stream", "ok", <<Bad, Good>>), Post("v2", "ok", <<Good>>)>>}
BatchTraffic ==
    {<<Post("batch", "ok", <<Item("good", "a"), Item("good", "b")>>),
       Post("batch", "ok", <<Item("good", "c")>>)>>}

=============================================================================
