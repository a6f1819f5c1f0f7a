--------------------------- MODULE MCSourceRecords ---------------------------
(* Two pages of one host, one of them reached in two ways, a second host, an   *)
(* IPv6 literal, and the two ports that belong to the other scheme.  The       *)
(* parameters are 1, 2 and, for tracking, 3.                                   *)
EXTENDS SourceRecords
CONSTANTS broad, academic, one, two, v6, p, q

Address(s, h, n, g, ps, detail) ==
    [scheme |-> s, userinfo |-> detail, host |-> h, port |-> n, path |-> g, query |-> ps, fragment |-> detail]
McAgents == <<broad, academic>>
McUrls == {Address("https", one, NoPort, p, <<2, 3, 1, 2>>, FALSE),
           Address("https", one, NoPort, p, <<1, 2, 2>>, TRUE),
           Address("https", one, NoPort, q, <<>>, FALSE),
           Address("http", two, NoPort, q, <<3>>, FALSE),
           Address("https", v6, 8080, p, <<>>, FALSE)}
McPortUrls == {Address("https", one, 80, p, <<2, 3, 1>>, TRUE), Address("http", two, 8080, p, <<3>>, FALSE)}
==============================================================================
