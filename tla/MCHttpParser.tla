---- MODULE MCHttpParser ----
(***************************************************************************)
(* A small instance of HttpRequests: targets of no, one, two and three     *)
(* parts, and header lines with the name "Host:" at any place.             *)
(***************************************************************************)
EXTENDS HttpRequests

MCPlain ==
    {"a", "b", "c", "d", "e", "f", "g", "k", "4", "8", "/", "http", "X-", "Connection:",
     "CONNECT", "GET", "PUT", "1.1"}

MCTargets ==
    {<<"a", ":", "4", "4">>, <<"http", ":", "/", "/", "a">>, <<"a">>, <<"a", ":">>, <<>>,
     <<"http", ":", "/", "/", "a", ":", "8", "/">>, <<"a", ":", ":", "4">>}

MCHeaderLines ==
    {<<"Host:", " ">>, <<"Host:", " ", "b">>, <<"Host:", " ", "c", "d", ":", "8">>, <<"Host:", "e", "f">>,
     <<"X-", "Host:", " ", "g">>, <<"Connection:", " ", "k">>}
====
