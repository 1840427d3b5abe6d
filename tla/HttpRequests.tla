---- MODULE HttpRequests ----
(***************************************************************************)
(* A request line, and lines that arrive one by one behind it, of the      *)
(* header and, behind the empty line that ends it, of a body: the parser   *)
(* of HttpParser, which looks at the text after each, knows no difference. *)
(***************************************************************************)
EXTENDS HttpParser, FiniteSets

CONSTANTS Plain,          \* symbols that are no delimiter and no header's name
          Methods,        \* of the request lines
          Targets,        \* of the request lines: texts without a blank
          HeaderLines,    \* of a header or a body, without their ends
          MaxHeaders      \* such lines of a request

ASSUME SymbolsAssumption ==
    /\ Plain \cap {" ", ":", "CR", "LF", "Host:"} = {}
    /\ Methods \subseteq Plain /\ "1.1" \in Plain

ASSUME TargetsAssumption == Targets \subseteq Seq(Plain \union {":"})

(* What follows the name "Host:" is part of its line.                      *)
ASSUME HeaderLinesAssumption ==
    \A line \in HeaderLines :
      /\ line \in Seq(Plain \union {" ", ":", "Host:"})
      /\ line # <<>> /\ line[Len(line)] # "Host:"

ASSUME MaxHeadersAssumption == MaxHeaders \in Nat

VARIABLES asked,      \* the request line: method, target, version or not
          headers,    \* the lines that follow it, but for the empty one
          text        \* all that was read: every line, each with its end

vars == <<asked, headers, text>>

RequestLine(line) ==
    <<line.method, " ">> \o line.target \o (IF line.version THEN <<" ", "1.1">> ELSE <<>>)

LineEnd == <<"CR", "LF">>

Init ==
    /\ asked \in [method : Methods, target : Targets, version : BOOLEAN]
    /\ headers = <<>>
    /\ text = RequestLine(asked) \o LineEnd

AddHeader ==
    /\ Len(headers) < MaxHeaders
    /\ \E line \in HeaderLines :
         /\ headers' = Append(headers, line)
         /\ text' = text \o line \o LineEnd
    /\ UNCHANGED asked

(* An empty line, once.                                                    *)
Ended == \E i \in 1 .. Len(text) - 3 : SubSeq(text, i, i + 3) = LineEnd \o LineEnd

EndHeaders ==
    /\ ~Ended
    /\ text' = text \o LineEnd
    /\ UNCHANGED <<asked, headers>>

Next == AddHeader \/ EndHeaders

Spec == Init /\ [][Next]_vars

----
(* Where a text has its maximal runs without a delimiter.                  *)
Runs(line, delimiters) ==
    LET inside == {i \in DOMAIN line : line[i] \notin delimiters}
    IN  {run \in inside \X inside :
           /\ run[1] <= run[2] /\ run[1] .. run[2] \subseteq inside
           /\ run[1] - 1 \notin inside /\ run[2] + 1 \notin inside}

(* split in http.cpp returns exactly the maximal runs without a delimiter, *)
(* in the order of the text, the last one too when no delimiter ends it.   *)
SplitIsRuns ==
    \A delimiters \in {{" "}, {":"}, {"CR", "LF"}} :
        LET runs  == Runs(text, delimiters)
            items == Split(text, delimiters)
        IN  /\ Len(items) = Cardinality(runs)
            /\ \A run \in runs :
                 items[Cardinality({other \in runs : other[1] <= run[1]})]
                   = SubSeq(text, run[1], run[2])

(* The parts of the target between its colons; whether there are two, and  *)
(* which is the first and which the second of them.                        *)
Parts == Runs(asked.target, {":"})
Part(run) == SubSeq(asked.target, run[1], run[2])
HasTwoParts == Cardinality(Parts) = 2
IsFirst(part) == \E one, two \in Parts : one[1] < two[1] /\ part = Part(one)
IsSecond(part) == \E one, two \in Parts : one[1] < two[1] /\ part = Part(two)

(* A CONNECT is served if and only if its target has a host and a port and *)
(* one more line follows that is not empty; the tunnel leads to this host  *)
(* and port, whatever Host: fields come behind (get_headers, get_host,     *)
(* get_service).                                                           *)
ConnectTarget ==
    LET request == GetHeaders(text)
    IN  asked.method = Connect =>
          IF asked.version /\ headers # <<>> /\ HasTwoParts
            THEN /\ Usable(request)
                 /\ IsFirst(Host(request)) /\ IsSecond(Service(request))
            ELSE ~Usable(request)

(* The lines with a host, those of a body among them.                      *)
HostFields == {i \in DOMAIN headers : Contains(headers[i], "Host:") /\ Len(headers[i]) > 2}

(* Any other known request goes to the host of its first Host: field that  *)
(* is not empty, by the scheme of its absolute uri, as long as every line  *)
(* with this word begins with it; the host is all behind the blank that    *)
(* follows the word.  Without such a field, or with a port in the uri, the *)
(* request is refused.                                                     *)
ForwardTarget ==
    LET request == GetHeaders(text)
    IN  asked.method \in Forwarded
          /\ (\A i \in HostFields : headers[i][1] = "Host:") =>
          IF asked.version /\ HostFields # {} /\ HasTwoParts
            THEN /\ Usable(request)
                 /\ \E i \in HostFields :
                      /\ \A j \in HostFields : i <= j
                      /\ Host(request) = SubSeq(headers[i], 3, Len(headers[i]))
                 /\ IsFirst(Service(request))
            ELSE ~Usable(request)

(* A request with another method is refused, although get_request_fields   *)
(* finds no fault with it and its Host: field is read.                     *)
UnknownRefused ==
    asked.method \notin Forwarded \union {Connect} => ~Usable(GetHeaders(text))
====
