---- MODULE HttpParser ----
(***************************************************************************)
(* The request of an HTTP session as http.cpp reads it: pure operators on  *)
(* a text.  A text is a sequence of symbols: single characters, and the    *)
(* words the parser looks for as one symbol each ("Host:", a method, the   *)
(* prefix of another header's name).  A blank, a colon, CR and LF are      *)
(* symbols of their own, so that the text splits where the code splits it. *)
(***************************************************************************)
EXTENDS Integers, SequencesExt

Forwarded == {"GET", "POST", "DELETE", "UPDATE", "HEAD"}
Connect == "CONNECT"
None == "none"

(* split: the maximal runs of a text without a delimiter.  Symbols after   *)
(* the last delimiter are an item too, empty items are none.               *)
Cut(split) ==
    IF split.item = <<>> THEN split
    ELSE [items |-> Append(split.items, split.item), item |-> <<>>]

Behind(split, symbol, delimiters) ==
    IF symbol \in delimiters THEN Cut(split)
    ELSE [split EXCEPT !.item = Append(@, symbol)]

Scan(text, delimiters) ==
    LET scan[i \in 0 .. Len(text)] ==
          IF i = 0 THEN [items |-> <<>>, item |-> <<>>]
          ELSE Behind(scan[i - 1], text[i], delimiters)
    IN  scan[Len(text)]

SplitNoTail(text, delimiters) == Scan(text, delimiters).items    \* bug

Split(text, delimiters) == Cut(Scan(text, delimiters)).items

(* The request line has three fields.  A CONNECT names its host there; of  *)
(* a request whose method is unknown nothing is kept, and yet it is no     *)
(* error: the code returns npos, which converts to true.                   *)
Request(method, uri, host) == [method |-> method, uri |-> uri, host |-> host]
NoRequest == Request(None, <<>>, <<>>)

RequestFieldsKeepUri(line) ==    \* bug: the uri is kept whatever the method is
    LET fields == Split(line, {" "})
        method == fields[1]
    IN  CASE method = <<Connect>> -> Request(Connect, fields[2], fields[2])
          [] Len(method) = 1 /\ method[1] \in Forwarded -> Request(method[1], fields[2], <<>>)
          [] OTHER -> Request(None, fields[2], <<>>)

RequestFields(line) ==
    LET fields == Split(line, {" "})
        method == fields[1]
    IN  CASE method = <<Connect>> -> Request(Connect, fields[2], fields[2])
          [] Len(method) = 1 /\ method[1] \in Forwarded -> Request(method[1], fields[2], <<>>)
          [] OTHER -> NoRequest

HasRequestFields(line) == Len(Split(line, {" "})) = 3

(* The value of a header begins one symbol behind its name, wherever in    *)
(* the line the name is.  A line that ends with the name is left out: the  *)
(* code computes a length below zero for it.                               *)
Find(name, line) ==
    CHOOSE i \in DOMAIN line : line[i] = name /\ \A j \in 1 .. i - 1 : line[j] # name

HeaderValueWithBlank(name, line) ==    \* bug: off by one
    SubSeq(line, Find(name, line) + 1, Len(line))

HeaderValue(name, line) ==
    SubSeq(line, Find(name, line) + 2, Len(line))

(* The first line with a Host: field gives the host of a request that has  *)
(* none yet; once there is one, no later line changes it.                  *)
HostOverrides(host, line) ==    \* bug: the last Host: field counts
    IF Contains(line, "Host:") THEN HeaderValue("Host:", line) ELSE host

HostBehind(host, line) ==
    IF host = <<>> /\ Contains(line, "Host:") THEN HeaderValue("Host:", line) ELSE host

HostFrom(request, lines) ==
    LET host[i \in 0 .. Len(lines)] ==
          IF i = 0 THEN request.host ELSE HostBehind(host[i - 1], lines[i])
    IN  host[Len(lines)]

(* get_headers: at least one line besides the request line, and a host.    *)
GetHeaders(text) ==
    LET lines   == Split(text, {"CR", "LF"})
        request == RequestFields(lines[1])
        host    == HostFrom(request, Tail(lines))
    IN  IF Len(lines) < 2 \/ ~HasRequestFields(lines[1]) \/ host = <<>>
          THEN NoRequest
          ELSE [request EXCEPT !.host = host]

----
(* One of two parts separated by a colon, or nothing.                      *)
PartOfTwo(text, i) ==
    LET parts == Split(text, {":"})
    IN  IF Len(parts) = 2 THEN parts[i] ELSE <<>>

Host(request) ==
    IF request.method = Connect THEN PartOfTwo(request.host, 1) ELSE request.host

Service(request) ==
    IF request.method = Connect THEN PartOfTwo(request.host, 2) ELSE PartOfTwo(request.uri, 1)

(* http_wait_request asks for both.                                        *)
Usable(request) == Host(request) # <<>> /\ Service(request) # <<>>
====
