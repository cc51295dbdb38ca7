----------------------------- MODULE RedpinWire -----------------------------
(***************************************************************************)
(* A request on its way through redpin.c, byte by byte: doit,              *)
(* read_requesthdrs, read_postquery and the queries of serve_request that  *)
(* take or return lists, and, when the asker is another redpin that serves *)
(* a /copy, get_server_results on the way back.  Reading is Rio, parsing   *)
(* MoreString.  The reply of the other redpin may break off anywhere.      *)
(*                                                                         *)
(* A client's request arrives whole; clients that leave within their       *)
(* request are in RedpinServer.  The Content-Length of a client, and the   *)
(* reply of a server that is no redpin, may be any text.                   *)
(***************************************************************************)
EXTENDS Rio

CONSTANTS
    Ask,     \* what is asked, see AskType
    Known    \* the keys of each person's dictionary, in dictionary_keys' order

\* Words on the wire.
GET == 256
POST == 257
HTTP10 == 258
HTTP11 == 259
W_pin == 260
W_places == 261
W_people_field == 262
W_places_field == 263
W_person_field == 264
W_host == 265
W_length == 266
W_type == 267
W_urlencoded == 268
W_other == 269

Name == Seq(1..255)
Entry == Seq(1..255 \ {LF}) \ {<<>>}    \* what split_string makes of a line

Text == Seq(1..255 \ {LF})

\* "pin" is a client's request with two lists, in the URL or as POST data,
\* whose last name is ended by a newline or not, and with or without a
\* Content-Type; "claim" is POST data of a client that writes anything as
\* its Content-Length, and closes the connection; "copy" is the request of
\* another redpin for the places of `name`; "foreign" is a /copy to a server
\* that is no redpin and replies with `status`, `length` and `data`.
AskType ==
    [op : {"pin"}, method : {GET, POST, W_other}, people : Seq(Entry), places : Seq(Entry),
     ended : BOOLEAN, typed : BOOLEAN]
    \cup [op : {"claim"}, length : Text, data : Name, typed : BOOLEAN]
    \cup [op : {"copy"}, name : Name]
    \cup [op : {"foreign"}, status : Text, length : Text, data : Name]

ASSUME WireAssumption ==
    /\ Ask \subseteq AskType
    /\ DOMAIN Known \subseteq Name
    /\ \A p \in DOMAIN Known : Known[p] \in Seq(Entry)

VARIABLES
    ask,
    pc,              \* where the server is, and then where the /copy is
    request,         \* method, uri and version
    headers, query,  \* dictionaries
    looked,          \* the name that was looked up
    content_length,
    whole,           \* the reply arrives completely
    list             \* what split_string made of a list

vars == <<rio, ask, pc, request, headers, query, looked, content_length, whole, list>>

(***************************************************************************)
(* What is asked.                                                          *)
(***************************************************************************)
Line(words) == append_strings(words) \o <<CR, LF>>

Listed(names, ended) ==
    LET lines == join_strings(names, LF)
    IN  IF ended \/ lines = <<>> THEN lines ELSE Front(lines)

\* A client encodes its lists as query_encode does.
Form(a) ==
    <<W_people_field, Equal>> \o query_encode(Listed(a.people, a.ended)) \o <<Amp>>
    \o <<W_places_field, Equal>> \o query_encode(Listed(a.places, a.ended))

\* The requests and replies count their bytes in an int, and so do
\* read_postquery and get_server_results, with one or two added.  Numbers that
\* atoi would cut to an int are not looked at.
INT_MAX == 2147483647
ASSUME LengthAssumption ==
    /\ MAXLINE < INT_MAX - 1
    /\ \A a \in Ask : a.op = "pin" => Len(Form(a)) < INT_MAX
    /\ \A p \in DOMAIN Known : Len(join_strings(Known[p], LF)) < INT_MAX - 1
    /\ \A a \in Ask : a.op \in {"claim", "foreign"} => atoi(a.length) \in -INT_MAX..INT_MAX

PostRequest(typed, length, data) ==
    Line(<<<<POST, SP, W_pin, SP, HTTP10>>>>)
    \o (IF typed THEN Line(<<<<W_type, Colon, W_urlencoded, SP>>>>) ELSE <<>>)
    \o Line(<<<<W_length, Colon, SP>>, length>>) \o <<CR, LF>>
    \o data

ClientRequest(a) ==
    IF a.method # POST
    THEN Line(<<<<a.method, SP, W_pin, Query>>, Form(a), <<SP, HTTP11>>>>)
         \o Line(<<<<W_host, Colon, SP, W_other>>>>) \o <<CR, LF>>
    ELSE PostRequest(a.typed, to_string(Len(Form(a))), Form(a))

ForeignReply(a) ==
    Line(<<a.status>>) \o Line(<<<<W_length, Colon, SP>>, a.length>>) \o <<CR, LF>> \o a.data

\* get_server_results sends the name as it is.
CopyRequest(a) ==
    LET query_of == append_strings(<<<<W_person_field, Equal>>, a.name>>)
        url == append_strings(<<<<W_places, Query>>, query_of>>)
    IN  append_strings(<<<<GET, SP>>, url, <<SP, HTTP11, CR, LF, CR, LF>>>>)

Sent(a) ==
    CASE a.op = "pin"     -> ClientRequest(a)
      [] a.op = "claim"   -> PostRequest(a.typed, a.length, a.data)
      [] a.op = "copy"    -> CopyRequest(a)
      [] a.op = "foreign" -> ForeignReply(a)

\* A foreign server has read its request and written its reply.
Init ==
    /\ ask \in Ask
    /\ wire = Sent(ask)
    /\ open = (ask.op \in {"pin", "copy"}) /\ rio_buf = <<>> /\ got = <<>>
    /\ call = ReadLine
    /\ pc = IF ask.op = "foreign" THEN "status" ELSE "request line"
    /\ request = <<>> /\ headers = <<>> /\ query = <<>>
    /\ looked = <<>> /\ content_length = MAXLINE
    /\ whole = TRUE
    /\ list = <<>>

(***************************************************************************)
(* The server.                                                             *)
(***************************************************************************)
At(label) == pc = label /\ Returned

ok_header(len) ==
    Line(<<<<HTTP10, SP>>, to_string(200), <<SP, W_other>>>>) \o Line(<<<<W_other>>>>)
    \o Line(<<<<W_length, Colon, SP>>, to_string(len)>>) \o Line(<<<<W_other>>>>) \o <<CR, LF>>

clienterror(errnum) ==
    Line(<<<<HTTP10, SP>>, to_string(errnum), <<SP, W_other>>>>) \o Line(<<<<W_other>>>>)
    \o Line(<<<<W_length, Colon, SP>>, to_string(1)>>) \o <<CR, LF, W_other>>

\* Not the code: the connection is not closed after the reply.
ReplyStaysOpen(reply) ==
    IF ask.op # "copy" THEN pc' = "done" /\ UNCHANGED <<rio, whole>>
    ELSE /\ \E n \in 0..Len(reply) :
              /\ Connection(SubSeq(reply, 1, n))
              /\ whole' = (n = Len(reply))
         /\ UNCHANGED open
         /\ pc' = "status"
         /\ Call(ReadLine)

\* Rio_writen of the reply and Close.  A client of /pin reads it with its own
\* means; another redpin reads it as far as it gets.
Reply(reply) ==
    IF ask.op # "copy" THEN pc' = "done" /\ UNCHANGED <<rio, whole>>
    ELSE /\ \E n \in 0..Len(reply) :
              /\ Connection(SubSeq(reply, 1, n))
              /\ whole' = (n = Len(reply))
         /\ open' = FALSE
         /\ pc' = "status"
         /\ Call(ReadLine)

\* In doit: a line that is none, another version, another method.
Refusal(parts) ==
    IF parts = <<>> THEN 400
    ELSE IF parts[3] \notin {<<HTTP10>>, <<HTTP11>>} \/ parts[1] \notin {<<GET>>, <<POST>>} THEN 501
    ELSE 0

Refuse ==
    /\ At("request line")
    /\ Refusal(parse_request_line(got)) # 0
    /\ looked' = <<>>
    /\ Reply(clienterror(Refusal(parse_request_line(got))))
    /\ UNCHANGED <<ask, request, headers, query, content_length, list>>

RequestLine ==
    /\ At("request line")
    /\ Refusal(parse_request_line(got)) = 0
    /\ request' = parse_request_line(got)
    /\ Call(ReadLine)
    /\ pc' = "headers"
    /\ UNCHANGED <<wire, open, rio_buf, ask, headers, query, looked, content_length, whole, list>>

HeaderLine ==
    /\ At("headers") /\ got # <<CR, LF>>
    /\ headers' = parse_header_line(got, headers)
    /\ Call(ReadLine)
    /\ UNCHANGED <<wire, open, rio_buf, ask, pc, request, query, looked, content_length, whole, list>>

\* The empty line; read_postquery asks for Content-Length bytes, for which it
\* allocates one more.  With INT_MAX that overflows and with a negative length
\* it is no size that malloc has, and writing through NULL ends the process;
\* with -1 malloc gets 0 and all that comes is written behind what it returns,
\* which may end the process or not.
EndOfHeaders ==
    /\ At("headers") /\ got = <<CR, LF>>
    /\ query' = parse_uriquery(request[2], <<>>)
    /\ LET len == atoi(Get(headers, <<W_length>>))
       IN  \/ /\ request[1] # <<POST>>
              /\ pc' = "serve" /\ UNCHANGED <<call, got>>
           \/ /\ request[1] = <<POST>> /\ len \in -1..INT_MAX - 1
              /\ pc' = "post data" /\ Call(ReadBytes(IF len = -1 THEN INT_MAX ELSE len))
           \/ /\ request[1] = <<POST>> /\ len \notin 0..INT_MAX - 1
              /\ pc' = "died" /\ UNCHANGED <<call, got>>
    /\ UNCHANGED <<wire, open, rio_buf, ask, request, headers, looked, content_length, whole, list>>

\* The comparison of a Content-Type that is missing ends the process.
PostData ==
    /\ At("post data")
    /\ query' = IF Get(headers, <<W_type>>) = <<W_urlencoded>> THEN parse_query(got, query) ELSE query
    /\ pc' = IF <<W_type>> \in DOMAIN headers THEN "serve" ELSE "died"
    /\ UNCHANGED <<rio, ask, request, headers, looked, content_length, whole, list>>

\* serve_request: /pin splits its two lists, and the body of its reply is two
\* counts; a query without the arguments is refused.
ServePin ==
    /\ At("serve") /\ starts_with(<<W_pin>>, request[2])
    /\ list' = IF {<<W_people_field>>, <<W_places_field>>} \subseteq DOMAIN query
               THEN <<split_string(query[<<W_people_field>>], LF),
                      split_string(query[<<W_places_field>>], LF)>>
               ELSE <<>>
    /\ pc' = "done"
    /\ UNCHANGED <<rio, ask, request, headers, query, looked, content_length, whole>>

\* The keys of a person's dictionary, nothing for one who is not tracked.
PlacesReply(person) ==
    LET body == IF person \in DOMAIN Known THEN join_strings(Known[person], LF) ELSE <<>>
    IN  ok_header(Len(body)) \o body

\* /places?person=; without a person the request is refused.
ServePlaces ==
    /\ At("serve") /\ starts_with(<<W_places>>, request[2])
    /\ IF <<W_person_field>> \in DOMAIN query
       THEN /\ looked' = query[<<W_person_field>>]
            /\ \E reply \in {PlacesReply(looked')} : Reply(reply)
       ELSE looked' = <<>> /\ Reply(clienterror(400))
    /\ UNCHANGED <<ask, request, headers, query, content_length, list>>

(***************************************************************************)
(* The other redpin: get_server_results and what /copy does with its       *)
(* result.                                                                 *)
(***************************************************************************)
\* Rio_readlineb returned more than 2: the empty line has two bytes, and a
\* word is longer than that.
More == Len(got) > 2 \/ \E i \in DOMAIN got : got[i] >= 256

\* Not the code: the reason is taken for the status.
StatusReason ==
    /\ At("status") /\ More
    /\ LET status == split_string(got, SP)
       IN  pc' = IF Len(status) < 3 THEN "died"
                 ELSE IF atoi(status[2]) # 200 THEN "refused" ELSE "fetch headers"
    /\ IF pc' = "fetch headers" THEN Call(ReadLine) ELSE UNCHANGED <<call, got>>
    /\ UNCHANGED <<wire, open, rio_buf, ask, request, headers, query, looked, content_length, whole, list>>

\* The second word of the status line.  If there is none, atoi(NULL) ends the
\* process.
Status ==
    /\ At("status") /\ More
    /\ LET status == split_string(got, SP)
       IN  pc' = IF Len(status) < 2 THEN "died"
                 ELSE IF atoi(status[2]) # 200 THEN "refused" ELSE "fetch headers"
    /\ IF pc' = "fetch headers" THEN Call(ReadLine) ELSE UNCHANGED <<call, got>>
    /\ UNCHANGED <<wire, open, rio_buf, ask, request, headers, query, looked, content_length, whole, list>>

FetchHeader ==
    /\ At("fetch headers") /\ More
    /\ content_length' = IF starts_with(<<W_length>>, got)
                         THEN atoi(SubSeq(got, 4, Len(got))) ELSE content_length
    /\ Call(ReadLine)
    /\ UNCHANGED <<wire, open, rio_buf, ask, pc, request, headers, query, looked, whole, list>>

\* The empty line, or the end of the connection.  One byte more than the body
\* is asked for, so that the call returns when the other server closes, and
\* two more are allocated: as in EndOfHeaders, that fails for a Content-Length
\* below -1 and near INT_MAX, except for -2, for which calloc gets 0.
FetchBody ==
    /\ At("status") \/ At("fetch headers")
    /\ ~More
    /\ \/ /\ content_length \in -2..INT_MAX - 2
          /\ pc' = "body"
          /\ Call(ReadBytes(IF content_length = -2 THEN INT_MAX ELSE content_length + 1))
       \/ /\ content_length \notin -1..INT_MAX - 2
          /\ pc' = "died" /\ UNCHANGED <<call, got>>
    /\ UNCHANGED <<wire, open, rio_buf, ask, request, headers, query, looked, content_length, whole, list>>

\* Not the code: malloc in place of calloc, with a letter behind the body.
ImportUnzeroed ==
    /\ At("body")
    /\ list' = split_string(Append(got, 122), LF)
    /\ pc' = "imported"
    /\ UNCHANGED <<rio, ask, request, headers, query, looked, content_length, whole>>

\* The zeros of calloc end what was read.
Import ==
    /\ At("body")
    /\ list' = split_string(CString(got), LF)
    /\ pc' = "imported"
    /\ UNCHANGED <<rio, ask, request, headers, query, looked, content_length, whole>>

Handler ==
    \/ Refuse \/ RequestLine \/ HeaderLine \/ EndOfHeaders \/ PostData \/ ServePin \/ ServePlaces
    \/ Status \/ FetchHeader \/ FetchBody \/ Import

Reader == RioStep /\ UNCHANGED <<ask, pc, request, headers, query, looked, content_length, whole, list>>

Ended == pc \in {"done", "refused", "imported", "died"}
Terminated == Ended /\ UNCHANGED vars

Next == Handler \/ Reader \/ Terminated

Spec == Init /\ [][Next]_vars

(***************************************************************************)
(* Properties.                                                             *)
(***************************************************************************)
\* The type invariant; a call in progress still has room for a byte.
TypeOK ==
    /\ ask \in Ask
    /\ call \in [op : {"none", "line", "bytes"}, n : Nat]
    /\ Len(rio_buf) <= RIO_BUFSIZE
    /\ Busy => Len(got) < call.n
    /\ open \in BOOLEAN /\ whole \in BOOLEAN
    /\ Len(request) \in {0, 3}
    /\ content_length \in Int

\* The lists of a /pin reach the loops of serve_request as the client wrote
\* them, whatever bytes the names have, in the URL or as POST data, however
\* the reads cut the request, and whether the last name is ended or not.  Only
\* a request line that does not fit doit's buffer, or another method, is
\* refused.
Fits(a) == LET bytes == ClientRequest(a) IN strchr(bytes, LF) <= MAXLINE - 1
PinAsSent ==
    pc = "done" /\ ask.op = "pin" =>
        list = IF Fits(ask) /\ ask.method # W_other THEN <<ask.people, ask.places>> ELSE <<>>

\* Server Assignment.html:172-174 asks that names sent through the query
\* interface come back intact, the perverse ones too: the server that is asked
\* by a /copy looks up the name that the /copy is for.
NamesIntact == pc = "imported" /\ ask.op = "copy" /\ whole => looked = ask.name

\* A name that /copy asks another server for, without query_encode, arrives
\* there as it is at least if it has no byte with a meaning in a query: no
\* # & ; + and no % before two hex digits.
Unchanged(name) ==
    \A i \in DOMAIN name : name[i] \notin {Hash, Amp, Semicolon, Plus} /\ ~Escape(name, i)
NamesArrive ==
    pc = "imported" /\ ask.op = "copy" /\ whole /\ Unchanged(ask.name) => looked = ask.name

\* A /copy imports exactly the places the other server has for the name it
\* looked up, however the reads cut them.  Of a list that breaks off it imports
\* the first names, of which the last may be cut: never anything else.
FirstOf(known) ==
    \/ list = <<>>
    \/ /\ Len(list) <= Len(known)
       /\ \A i \in 1..Len(list) - 1 : list[i] = known[i]
       /\ IsPrefix(Last(list), known[Len(list)])
CopyImports ==
    pc = "imported" /\ ask.op = "copy" =>
        LET known == IF looked \in DOMAIN Known THEN Known[looked] ELSE <<>>
        IN  IF whole THEN list = known ELSE FirstOf(known)

\* split_string never stores more pieces than it counted, whatever was asked or
\* replied.
SplitFits ==
    /\ \A f \in DOMAIN query : Len(split_string(query[f], LF)) <= split_room(query[f], LF)
    /\ pc = "body" => Len(split_string(got, LF)) <= split_room(got, LF)
    /\ pc = "status" => Len(split_string(got, SP)) <= split_room(got, SP)

\* What ends the process: POST data without a Content-Type; a Content-Length
\* that is negative or INT_MAX; a reply to a /copy that breaks off right after
\* its first word or has no second one; and one with a Content-Length below -1
\* or near INT_MAX.  Every other request and reply, broken or not, the server
\* survives.
DiesOnlyOf ==
    pc = "died" =>
        \/ ask.op = "pin" /\ ask.method = POST /\ ~ask.typed
        \/ ask.op = "claim" /\ (ask.typed => atoi(ask.length) \notin 0..INT_MAX - 1)
        \/ ask.op = "copy" /\ ~whole /\ Len(got) \in {1, 2} /\ got[1] = HTTP10
        \/ ask.op = "foreign" /\ (SP \in ToSet(ask.status) => atoi(ask.length) \notin -1..INT_MAX - 2)

\* Server Assignment.html:27-32 and 142-143: the server never crashes.
ServerSurvives == pc # "died"

\* What entity_encode returns can be put into a page: no < > " in it, and the
\* text is found again by taking every entity back.
EntityBytes == {Less, Greater, Amp, Quote}
Taken(s, i) == {c \in EntityBytes : IsPrefix(Entity(c), SubSeq(s, i, Len(s)))}
TextAt(s, i) == IF Taken(s, i) = {} THEN s[i] ELSE CHOOSE c \in Taken(s, i) : TRUE
EntityDecoded(s) ==
    LET from[i \in 1..Len(s) + 1] ==
            IF i > Len(s) THEN <<>>
            ELSE <<TextAt(s, i)>> \o from[i + IF Taken(s, i) = {} THEN 1 ELSE Len(Entity(TextAt(s, i)))]
    IN  from[1]
EntitySafe ==
    pc = "imported" /\ ask.op = "copy" =>
        LET e == entity_encode(ask.name)
        IN  ToSet(e) \cap {Less, Greater, Quote} = {} /\ EntityDecoded(e) = ask.name

\* The two ways a name is put into another text: into a query, and into a page.
NamesKept == NamesArrive /\ EntitySafe

\* Nobody asks for more than the other side has sent while that one keeps the
\* connection open: the two would wait for each other for ever.  For a /copy,
\* which asks for a byte too many, this is what the closing is good for.
NoWaiting == Busy /\ rio_buf = <<>> /\ wire = <<>> => ~open
=============================================================================
