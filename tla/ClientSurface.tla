--------------------------- MODULE ClientSurface ---------------------------
(***************************************************************************)
(* What a caller of a client library sees: how a response becomes a result *)
(* or a typed error, and which servers the library agrees to talk to.      *)
(* Error strings are the only form in which the server reports a cause, so *)
(* the libraries recognise prefixes and phrases of them.  A message is the *)
(* set of phrases it contains, the one it begins with, whether it is the   *)
(* bare "not found", and the cause the server had for it.                  *)
(***************************************************************************)
EXTENDS RustClient, PyClient, GoClient, TsClient

CONSTANTS Protocols,   \* protocol numbers a server may announce
          Misreads     \* include the inputs known to be misread?

VARIABLES u_lang, u_ask, u_out

surf_vars == <<u_lang, u_ask, u_out>>

Text(begins, has, bare, cause) ==
    [begins |-> begins, has |-> has, bare |-> bare, cause |-> cause]

(* The server's messages to single requests.                               *)
ServerTexts ==
    {Text("unauthorized", {}, FALSE, "Auth"),
     Text("forbidden", {}, FALSE, "Auth"),
     Text("WAL backpressure", {"group full"}, FALSE, "Retryable"),
     Text("row not found", {"not found"}, FALSE, "NotFound"),
     Text("not found", {"not found"}, TRUE, "NotFound"),
     Text("table not found", {"not found"}, FALSE, "NotFound"),
     Text("procedure not found", {"not found"}, FALSE, "NotFound"),
     Text("insert", {"requires values"}, FALSE, "Invalid"),
     Text("get", {"requires row_id"}, FALSE, "Invalid"),
     Text("blob", {"too large"}, FALSE, "Invalid"),
     Text("type error", {"type error", "schema error"}, FALSE, "Invalid"),
     Text("procedure aborted", {}, FALSE, "Server")}

(* Messages the phrases miss: a unique violation reads "duplicate key",    *)
(* and a procedure's own words may contain "not found".                    *)
MisreadTexts ==
    {Text("duplicate key", {"duplicate key"}, FALSE, "Invalid"),
     Text("procedure aborted", {"not found"}, FALSE, "Server")}

(* map_server_error of each library: the beginnings and the phrases it     *)
(* tests, in this order.                                                   *)
RustPhrases ==
    [auth |-> {"unauthorized", "forbidden"},
     retryable |-> {"WAL backpressure", "group full", "rotation in progress"},
     missing |-> {"not found"},
     invalid |-> {"requires values", "requires row_id", "too large", "DuplicateKey",
                  "duplicate value", "not supported", "not unique", "validation",
                  "schema error", "type error"}]

PyPhrases ==
    [auth |-> {"unauthorized", "forbidden"},
     retryable |-> {"WAL backpressure", "group full", "rotation in progress"},
     missing |-> {"not found"},
     invalid |-> {"requires values", "requires row_id", "too large", "DuplicateKey",
                  "duplicate value", "not supported", "not unique", "validation",
                  "schema error", "type error"}]

GoPhrases ==
    [auth |-> {"unauthorized", "forbidden"},
     retryable |-> {"WAL backpressure", "group full", "rotation in progress"},
     missing |-> {"not found"},
     invalid |-> {"requires values", "requires row_id", "too large", "DuplicateKey",
                  "duplicate value", "not supported", "not unique", "validation",
                  "schema error", "type error"}]

TsPhrases ==
    [auth |-> {"unauthorized", "forbidden"},
     retryable |-> {"WAL backpressure", "group full", "rotation in progress"},
     missing |-> {"not found"},
     invalid |-> {"requires values", "requires row_id", "too large", "DuplicateKey",
                  "duplicate value", "not supported", "not unique", "validation",
                  "schema error", "type error"}]

MapServerError(phrases, m) ==
    IF m.begins \in phrases.auth THEN "Auth"
    ELSE IF m.begins \in phrases.retryable THEN "Retryable"
    ELSE IF m.has \cap phrases.missing # {} THEN "NotFound"
    ELSE IF m.has \cap phrases.invalid # {} THEN "Invalid"
    ELSE "Server"

(* Variant: get takes any missing thing for a missing row. *)
IsMiss_any(rows, m) ==
    \/ rows = "unless_row_missing" /\ "not found" \in m.has
    \/ rows = "unless_not_found" /\ m.bare

(* The errors that get and find return as the absence of a row.            *)
IsMiss(rows, m) ==
    \/ rows = "unless_row_missing" /\ m.begins = "row not found"
    \/ rows = "unless_not_found" /\ m.bare

(* What a method makes of the rows of a good response.                     *)
OfRows(rows, resp) ==
    IF rows \in {"unit", "all"} THEN "value"
    ELSE IF resp.rows = 0
         THEN IF rows \in {"unless_row_missing", "unless_not_found"} THEN "none" ELSE "Server"
    ELSE IF rows = "table_name" /\ ~resp.named THEN "Server" ELSE "value"

(* What a method returns for a response: a value, the absence of a row, or *)
(* a kind of error.                                                        *)
Result(method, resp, phrases) ==
    IF resp.ok THEN OfRows(method.rows, resp)
    ELSE IF IsMiss(method.rows, resp.error) THEN "none"
    ELSE MapServerError(phrases, resp.error)

ResultOf(lang, op, resp) ==
    CASE lang = "rust" -> Result(RustOps[op], resp, RustPhrases)
      [] lang = "py" -> Result(PyOps[op], resp, PyPhrases)
      [] lang = "go" -> Result(GoOps[op], resp, GoPhrases)
      [] lang = "ts" -> Result(TsOps[op], resp, TsPhrases)

-----------------------------------------------------------------------------
(* The handshake.  A server names its release, three numbers with an       *)
(* optional suffix ("-pre", "+build", "+build-1"), and its protocol.       *)

Floor == <<0, 1, 0>>

AtLeast(v, w) ==
    \/ v = w
    \/ \E i \in 1 .. 3 : v[i] > w[i] /\ \A j \in 1 .. i - 1 : v[j] = w[j]

(* parse_version cuts at either sign; Go looks for "-" first, so a "-"     *)
(* inside build metadata leaves the "+" in and the number does not parse.  *)
RustParses(s) == s.nums # <<>>
PyParses(s) == s.nums # <<>>
GoParses(s) == s.nums # <<>> /\ s.suffix # "+build-1"
TsParses(s) == s.nums # <<>>

(* The Rust client reads the announced number into eight bits.             *)
RustCompat(s, p) == p % 256 = 2 /\ RustParses(s) /\ AtLeast(s.nums, Floor)
PyCompat(s, p) == p = 2 /\ PyParses(s) /\ AtLeast(s.nums, Floor)
GoCompat(s, p) == p = 2 /\ GoParses(s) /\ AtLeast(s.nums, Floor)
TsCompat(s, p) == p = 2 /\ TsParses(s) /\ AtLeast(s.nums, Floor)

CompatOf(lang, s, p) ==
    CASE lang = "rust" -> RustCompat(s, p)
      [] lang = "py" -> PyCompat(s, p)
      [] lang = "go" -> GoCompat(s, p)
      [] lang = "ts" -> TsCompat(s, p)

(* The answer to the version request: refused, without rows or fields, or  *)
(* a release and a protocol to judge.                                      *)
HandshakeOf(lang, a) ==
    IF a.shape # "good" THEN "Transport"
    ELSE IF CompatOf(lang, a.server, a.protocol) THEN "connected" ELSE "Server"

-----------------------------------------------------------------------------
Releases ==
    [nums : {<<0, 0, 9>>, <<0, 1, 0>>, <<1, 0, 0>>, <<>>}, suffix : {"", "-pre", "+build"}]
    \cup (IF Misreads THEN {[nums |-> <<1, 0, 0>>, suffix |-> "+build-1"]} ELSE {})

Responses ==
    [ok : {TRUE}, rows : 0 .. 2, named : BOOLEAN, error : {Text("", {}, FALSE, "Server")}]
    \cup [ok : {FALSE}, rows : {0}, named : {FALSE},
          error : ServerTexts \cup (IF Misreads THEN MisreadTexts ELSE {})]

NoAsk == [kind |-> "none"]

SurfInit == u_lang \in {"rust", "py", "go", "ts"} /\ u_ask = NoAsk /\ u_out = "none yet"

SurfHello ==
    /\ u_ask = NoAsk
    /\ \E shape \in {"refused", "empty", "malformed", "good"}, s \in Releases, p \in Protocols :
         /\ u_ask' = [kind |-> "hello", shape |-> shape, server |-> s, protocol |-> p]
         /\ u_out' = HandshakeOf(u_lang, u_ask')
    /\ UNCHANGED u_lang

SurfCall ==
    /\ u_ask.kind = "hello" /\ u_out = "connected"
    /\ \E op \in DOMAIN RustOps, resp \in Responses :
         /\ u_ask' = [kind |-> "call", op |-> op, resp |-> resp]
         /\ u_out' = ResultOf(u_lang, op, resp)
    /\ UNCHANGED u_lang

SurfNext == SurfHello \/ SurfCall

-----------------------------------------------------------------------------
(* A library never misreports the server: it connects exactly to servers   *)
(* of its protocol and of at least the floor release, a failed call keeps  *)
(* the cause the server had, and only a missing row (never a missing       *)
(* table, procedure or permission) is returned as the absence of a row.    *)
SurfaceKeepsMeaning ==
    /\ u_ask.kind = "hello" =>
         (u_out = "connected" <=> /\ u_ask.shape = "good" /\ u_ask.protocol = 2
                                  /\ u_ask.server.nums # <<>>
                                  /\ AtLeast(u_ask.server.nums, Floor))
    /\ u_ask.kind = "call" /\ ~u_ask.resp.ok =>
         \/ u_out = u_ask.resp.error.cause
         \/ /\ u_out = "none"
            /\ \/ u_ask.op = "get" /\ u_ask.resp.error.begins = "row not found"
               \/ u_ask.op = "find" /\ u_ask.resp.error.bare
    /\ u_ask.kind = "call" /\ u_ask.resp.ok =>
         \/ u_out = "value" \/ u_ask.resp.rows = 0 \/ ~u_ask.resp.named

=============================================================================
