------------------------------- MODULE Gateways -------------------------------
(***************************************************************************)
(* A request at the server's ports: the WebSocket's upgrade checks         *)
(* (websocket.rs, host.rs), the REST bridge (http/), the MCP bridges       *)
(* (mcp/) and the port they share (combined.rs), from the client that      *)
(* Forwarded names to the answer.                                          *)
(*                                                                         *)
(* One request is followed at a time: requests share nothing here but the  *)
(* quotas, which Sockets models.  What a check reads is chosen in the step *)
(* of that check, so a state holds only what a later step still reads.     *)
(* The session validator, the hub's routes and the stream a call gives are *)
(* outside the repository and may answer anything.                         *)
(***************************************************************************)
EXTENDS Forwarded

CONSTANTS
    MaxItems,     \* MAX_BUFFERED_ITEMS
    MaxBytes,     \* MAX_BUFFER_BYTES
    Sizes,        \* sizes of a data item
    Timeout,      \* METHOD_TIMEOUT, in ticks
    MaxBuffered,  \* bound: data items a stream gives a bridge with no limit
    MaxProgress   \* bound: progress items told apart

ASSUME GatewaysAssumption ==
    /\ {MaxItems, MaxBytes, Timeout, MaxBuffered, MaxProgress} \subseteq Nat
    /\ Sizes \subseteq Nat

VARIABLES
    stage,      \* where the request is
    kind,       \* the bridge it is at
    tls,        \* it came over the transport's own TLS
    client,     \* the ForwardedClient in its extensions
    origin,     \* where it really came from, as far as the port can know
    conf,       \* the port's configuration, as far as later steps read it
    cred,       \* the credentials it carries
    denied,     \* the Bearer the session validator refused
    caller,     \* who the call runs as
    sent,       \* sizes of the data items the stream gave
    failed,     \* the worst error the stream gave
    buf,        \* sizes of the data items the bridge holds
    progress,   \* progress items the bridge holds
    error,      \* the error the answer will tell
    cancelled,  \* the MCP client took its call back
    clock,      \* time since the bridge began to collect
    waits,      \* the stream had nothing ready when a body was last collected
    answer

requestVars == <<stage, kind, tls, client, origin, conf, cred, denied, caller>>
streamVars == <<sent, failed, buf, progress, error, cancelled, clock, waits, answer>>
vars == <<forwardedVars, requestVars, streamVars>>

Kinds == {"ws", "rest", "mcp", "mount", "combined"}
None == "none"
Nobody == "nobody"
User == "user"

Confs == [key : BOOLEAN, validator : BOOLEAN, anonymous : BOOLEAN, strict : BOOLEAN]
NoConf == [key |-> FALSE, validator |-> FALSE, anonymous |-> FALSE, strict |-> FALSE]

\* An Authorization header: a scheme as spelled, a token, and blanks around it.
\* "raw" is one that is no text.
Auths == [scheme : {"Bearer", "bearer", "Basic"}, token : {"key", "token"}, padded : BOOLEAN]
         \cup {[scheme |-> s, token |-> None, padded |-> FALSE] : s \in {None, "raw"}}
TheKey == [scheme |-> "Bearer", token |-> "key", padded |-> FALSE]

\* "session" is a declared credential cookie with a value, "other" is not.
Creds == [header : {None, "raw", "key", "wrong"}, auth : Auths, cookie : {None, "raw", "session", "other"}]
NoCred == [header |-> None, auth |-> [scheme |-> None, token |-> None, padded |-> FALSE], cookie |-> None]

NoClient == [ip |-> NotSet, via |-> FALSE, secure |-> FALSE]
NoOrigin == [ip |-> NotSet, https |-> FALSE, lost |-> {}]

Init ==
    /\ ForwardedInit
    /\ stage = "idle" /\ kind = None /\ tls = FALSE /\ client = NoClient /\ origin = NoOrigin
    /\ conf = NoConf /\ cred = NoCred /\ denied = FALSE /\ caller = Nobody
    /\ sent = <<>> /\ failed = None /\ buf = <<>> /\ progress = 0 /\ error = None
    /\ cancelled = FALSE /\ clock = 0 /\ waits = FALSE /\ answer = None

-----------------------------------------------------------------------------
(* Steps the bridges share. *)

\* The request goes on to a later check.
Goes(to) ==
    /\ stage' = to
    /\ UNCHANGED <<forwardedVars, streamVars, kind, tls, client, origin, conf, cred, denied, caller>>

\* The answer is written and the request is over.
Answers(a) ==
    /\ stage' = "answered" /\ answer' = a
    /\ UNCHANGED <<forwardedVars, kind, tls, client, origin, conf, cred, denied, caller,
                   sent, failed, buf, progress, error, cancelled, clock, waits>>

GoesOr(ok, to, a) == IF ok THEN Goes(to) ELSE Answers(a)

Travel ==
    /\ stage = "idle"
    /\ OnTheWay
    /\ UNCHANGED <<requestVars, streamVars>>

\* The request reaches a port.  The WebSocket's names its client first of all,
\* with the proxies it knows; the combined port does so for the host's routes,
\* with none; the other bridges do not ask.
Arrive ==
    /\ stage = "idle" /\ path # <<>>
    /\ stage' = "arrived"
    /\ \E k \in Kinds : kind' = k
    /\ \/ /\ kind' = "ws"
          /\ \E before, said \in Settings(NetSets), own \in NetSets :
               /\ nets' = PortNets(said, own)
               /\ trusted' = InitTrusted(before, said)
          /\ \E overTls \in BOOLEAN, form \in {"bare", "mapped"} :
               /\ tls' = overTls
               /\ client' = ClientOf(nets', overTls, Peer(form), xff, proto)
          /\ origin' = [ip |-> path[Origin(nets')], https |-> TrustedHttps(nets'), lost |-> lost]
          /\ UNCHANGED <<path, legs, xff, proto, noText, lost>>
       \/ /\ kind' = "combined"
          /\ \E overTls \in BOOLEAN, form \in {"bare", "mapped"} :
               client' = ClientOf({}, overTls, Peer(form), xff, proto)
          /\ origin' = [ip |-> path[Origin({})], https |-> FALSE, lost |-> {}]
          /\ Forget /\ UNCHANGED tls
       \/ /\ kind' \in {"rest", "mcp", "mount"}
          /\ Forget /\ UNCHANGED <<tls, client, origin>>
    /\ UNCHANGED <<streamVars, conf, cred, denied, caller>>

\* An answered request leaves the server as it found it.
Over ==
    /\ stage \in {"answered", "socket", "mounted"}
    /\ stage' = "idle" /\ kind' = None /\ tls' = FALSE /\ client' = NoClient /\ origin' = NoOrigin
    /\ conf' = NoConf /\ cred' = NoCred /\ denied' = FALSE /\ caller' = Nobody
    /\ sent' = <<>> /\ failed' = None /\ buf' = <<>> /\ progress' = 0 /\ error' = None
    /\ cancelled' = FALSE /\ clock' = 0 /\ waits' = FALSE /\ answer' = None
    /\ UNCHANGED forwardedVars

-----------------------------------------------------------------------------
(* The Host, the origin and the key. *)

\* A name as written, compared without regard to case (host.rs normalize) and,
\* for an origin, to a slash at its end (normalize_origin).
\* A header may be absent, or "raw": no text.
Written == [name : {"listed", "unlisted"}, dressed : BOOLEAN]
           \cup [name : {"raw", None}, dressed : {FALSE}]
Normalized(n) == [n EXCEPT !.dressed = FALSE].name

\* host::refused: with a list, the Host must be on it, or the authority of the
\* URI when there is no Host.
HostRefused(list, host, authority) ==
    LET named == IF host.name = None THEN authority ELSE host
    IN  list /\ Normalized(named) # "listed"

\* What it says of any of them.
HostVerdicts == {HostRefused(list, host, authority) : list \in BOOLEAN, host \in Written, authority \in Written}

\* origin_refused: with a list, an Origin that is there must be on it.
OriginRefused(list, o) == list /\ o.name # None /\ Normalized(o) # "listed"

\* The checks of the Host come first on the WebSocket's and the REST bridge's
\* ports.  The forwarded headers are not read again.
CheckHost ==
    /\ stage = "arrived" /\ kind \in {"ws", "rest"}
    /\ \E refused \in HostVerdicts :
         IF refused
         THEN stage' = "answered" /\ answer' = "421"
         ELSE stage' = (IF kind = "ws" THEN "path" ELSE "key") /\ answer' = None
    /\ Forget
    /\ UNCHANGED <<kind, tls, client, origin, conf, cred, denied, caller,
                   sent, failed, buf, progress, error, cancelled, clock, waits>>

\* Routed and metadata_response: the host's own routes, the RFC 9728 document,
\* or the socket.
CheckPath ==
    /\ stage = "path"
    /\ \E routes, metadata, get \in BOOLEAN, where \in {"socket", "metadata", "elsewhere"} :
         \/ routes /\ where = "elsewhere" /\ Answers("the host's")
         \/ metadata /\ get /\ where = "metadata" /\ Answers("200 metadata")
         \/ /\ ~(routes /\ where = "elsewhere") /\ ~(metadata /\ get /\ where = "metadata")
            /\ Goes("origin")

CheckOrigin ==
    /\ stage = "origin"
    /\ \E list \in BOOLEAN, o \in Written : GoesOr(~OriginRefused(list, o), "key", "403")

\* The WebSocket's key is in a header of its own; with no such header and no
\* validator a Bearer that is the key will do.
WsKeyPasses(f, c) ==
    \/ ~f.key
    \/ c.header = "key"
    \/ c.header \in {None, "raw"} /\ ~f.validator /\ c.auth = TheKey

\* Everywhere else the whole Authorization header must be the key's Bearer.
KeyPasses(f, c) == f.key => c.auth = TheKey

\* Mutant: build takes the mount as gated by the key.
BuildsAnyway(f) == TRUE

\* What build refuses: a key, and a mounted bridge that lets anyone in.
Builds(f) == kind = "mount" => ~(f.key /\ f.anonymous)

\* The mounted bridge has no key check of its own, and takes an Authorization
\* header of another shape for none.
KeyGate(f, c) ==
    \/ kind = "ws" /\ WsKeyPasses(f, c)
    \/ kind = "mount"
    \/ kind \notin {"ws", "mount"} /\ KeyPasses(f, c)

AfterKey(f, where) ==
    IF kind = "ws" THEN (IF f.validator THEN "cookie" ELSE "quota")
    ELSE IF kind = "combined" THEN where
    ELSE IF kind = "rest" THEN "lookup"
    ELSE IF kind = "mcp" THEN "call" ELSE "bearer"

\* The parts of its configuration each bridge has: only the upgrade's can be
\* strict, the mounted bridge's can be anonymous too, and the combined port and
\* the old MCP bridge name no caller.
Reads(f) ==
    /\ f.strict => kind = "ws"
    /\ f.anonymous => kind \in {"ws", "mount"}
    /\ f.validator => kind \in {"ws", "rest", "mount"}

\* The combined port's bridges stand behind the one key; its other paths are
\* the host's routes, asked before any key, or the socket.
CheckKey ==
    /\ stage = "key" \/ (stage = "arrived" /\ kind \in {"mcp", "mount", "combined"})
    /\ \E f \in Confs, c \in Creds, where \in {"call", "lookup", "quota", "host"} :
         /\ where # "call" => kind = "combined"
         /\ Builds(f)
         /\ Reads(f)
         /\ conf' = f /\ cred' = c
         /\ \/ /\ kind = "combined" /\ where = "host"
               /\ stage' = "answered" /\ answer' = "the host's"
            \/ /\ where # "host"
               /\ IF KeyGate(f, c)
                  THEN stage' = AfterKey(f, where) /\ answer' = None
                  ELSE stage' = "answered" /\ answer' = "401"
    /\ Forget
    /\ UNCHANGED <<kind, tls, client, origin, denied, caller,
                   sent, failed, buf, progress, error, cancelled, clock, waits>>

-----------------------------------------------------------------------------
(* Who is calling: the cookie first, then the Bearer. *)

\* The validator is asked and may name the user.
Asked(bearer, named, other) ==
    \E yes \in BOOLEAN :
        /\ stage' = IF yes THEN named ELSE other
        /\ caller' = IF yes THEN User ELSE Nobody
        /\ denied' = (bearer /\ ~yes)
        /\ UNCHANGED <<forwardedVars, streamVars, kind, tls, client, origin, conf, cred>>

Named == IF kind = "ws" THEN "quota" ELSE IF kind = "rest" THEN "body" ELSE "call"

AskCookie ==
    /\ stage = "cookie"
    /\ IF cred.cookie \in {"session", "other"} THEN Asked(FALSE, Named, "bearer") ELSE Goes("bearer")

\* The token a bridge reads in the header: the upgrade takes `Bearer ` to the
\* letter and what follows as it is; the REST bridge takes `bearer ` too, trims
\* the token, and does not take the key for one; the mounted bridge is handed
\* its credential by its own crate.
ReadsToken ==
    IF kind = "rest"
    THEN /\ cred.auth.scheme \in {"Bearer", "bearer"}
         /\ ~(conf.key /\ cred.auth.token = "key")
    ELSE cred.auth.scheme = "Bearer"

\* With no validator the REST bridge's callers are anonymous, and the mounted
\* bridge refuses every Bearer.
AskBearer ==
    /\ stage = "bearer"
    /\ \/ ReadsToken /\ conf.validator /\ Asked(TRUE, Named, "decide")
       \/ /\ ReadsToken /\ ~conf.validator
          /\ stage' = "decide" /\ denied' = TRUE
          /\ UNCHANGED <<forwardedVars, streamVars, kind, tls, client, origin, conf, cred, caller>>
       \/ ~ReadsToken /\ Goes("decide")

\* presents_credential: an Authorization header of any scheme, or a declared
\* credential cookie.
Presents == cred.auth.scheme # None \/ cred.cookie = "session"

\* Mutant: the REST bridge runs what the validator refused as anonymous.
DecideAnonymous ==
    /\ stage = "decide"
    /\ \/ /\ kind = "ws"
          /\ GoesOr(IF conf.anonymous THEN ~Presents ELSE ~conf.strict, "quota", "401")
       \/ kind = "rest" /\ Goes("body")
       \/ kind = "mount" /\ GoesOr(~denied /\ conf.anonymous, "call", "401")

\* Nobody was named: the upgrade's policies in their order, the REST bridge's
\* rule, the mount's.
Decide ==
    /\ stage = "decide"
    /\ \/ /\ kind = "ws"
          /\ GoesOr(IF conf.anonymous THEN ~Presents ELSE ~conf.strict, "quota", "401")
       \/ kind = "rest" /\ GoesOr(~denied, "body", "401")
       \/ kind = "mount" /\ GoesOr(~denied /\ conf.anonymous, "call", "401")

\* take_quota and Upgrade::upgrade: no upgrade, or one of another version or
\* without its key, is refused, as is one past the quotas, whose counts are
\* those of Sockets.
TakeQuota ==
    /\ stage = "quota"
    /\ \/ \E refusal \in {"426", "400", "429"} : Answers(refusal)
       \/ Goes("socket")

-----------------------------------------------------------------------------
(* The call of a REST request or of an MCP tool. *)

\* rest_method_handler: an unknown method or activation, then the verb, before
\* the caller is asked for; the body after.
Lookup ==
    /\ stage = "lookup"
    /\ \/ Answers("404")
       \/ Answers("405")
       \/ Goes(IF conf.validator THEN "cookie" ELSE "body")

ReadBody ==
    /\ stage = "body"
    /\ \/ Answers("400")
       \/ Answers("415")
       \/ Goes("route")

\* The route, through the service or to the one activation, refuses the call,
\* or the call runs and its stream is collected into a body or, at cardinality
\* many, forwarded as events.
Route ==
    /\ stage = "route"
    /\ \/ Answers("refused")
       \/ \E s \in {"one", "many"} : Goes(s)

\* call_tool's route.  The mounted bridge's calls go on in a crate of their own.
CallTool ==
    /\ stage = "call"
    /\ \/ Answers("refused")
       \/ kind # "mount" /\ Goes("tool")
       \/ kind = "mount" /\ Goes("mounted")

Calling == {"one", "many", "tool"}

\* The stream gives one item, with data or without, and the bridge takes it.
Given(data, fault) ==
    /\ sent' = sent \o data
    /\ failed' = IF fault = None \/ failed = "fatal" THEN failed ELSE fault

Total(s) ==
    LET sum[i \in 0 .. Len(s)] == IF i = 0 THEN 0 ELSE sum[i - 1] + s[i]
    IN  sum[Len(s)]

\* The bridge ends the call with an answer and what it holds.
Ends(a) ==
    /\ stage' = "answered" /\ answer' = a

\* Mutant: data past a limit is left out of the body.
DataCut(size) ==
    /\ Given(<<size>>, None)
    /\ Len(sent) < MaxItems + 1
    /\ buf' = IF stage = "many" \/ Len(buf) >= MaxItems \/ Total(buf) + size > MaxBytes
              THEN buf ELSE Append(buf, size)
    /\ UNCHANGED <<stage, answer, progress, error>>

\* collect_and_respond keeps data up to its limits; the tool's bridge keeps it
\* all; events are not kept.
Data(size) ==
    /\ Given(<<size>>, None)
    /\ \/ /\ stage = "one" /\ (Len(buf) >= MaxItems \/ Total(buf) + size > MaxBytes)
          /\ Ends("413") /\ UNCHANGED buf
       \/ /\ stage = "one" /\ ~(Len(buf) >= MaxItems \/ Total(buf) + size > MaxBytes)
          /\ buf' = Append(buf, size) /\ UNCHANGED <<stage, answer>>
       \/ /\ stage = "tool" /\ Len(sent) < MaxBuffered
          /\ buf' = Append(buf, size) /\ UNCHANGED <<stage, answer>>
       \/ /\ stage = "many" /\ Len(sent) < MaxBuffered
          /\ UNCHANGED <<stage, answer, buf>>
    /\ UNCHANGED <<progress, error>>

\* Progress is kept by the REST bridge, without a limit: the count goes round
\* past MaxProgress, so that a stream may give it for ever.
Progress ==
    /\ Given(<<>>, None)
    /\ progress' = IF stage = "one" THEN (progress + 1) % (MaxProgress + 1) ELSE progress
    /\ UNCHANGED <<stage, answer, buf, error>>

\* An error ends the REST answer, whatever it is; the tool's bridge goes on and
\* keeps the first that is fatal; an event tells it.
Fault(fault) ==
    /\ Given(<<>>, fault)
    /\ error' = IF stage = "one" \/ (stage = "tool" /\ fault = "fatal" /\ error = None) THEN fault ELSE error
    /\ IF stage = "one" THEN Ends("failed") ELSE UNCHANGED <<stage, answer>>
    /\ UNCHANGED <<buf, progress>>

\* The stream says it is done, or ends; the events just stop there.
Done ==
    /\ Ends(IF stage = "many" THEN "events" ELSE IF error = None THEN "ok" ELSE "failed")
    /\ UNCHANGED <<sent, failed, buf, progress, error>>

\* A request for the client: left out of a body, told in an event or a
\* notification.
Asks == Given(<<>>, None) /\ UNCHANGED <<stage, answer, buf, progress, error>>

\* A cancelled tool call ends at the next item, whatever that is.  A timeout
\* that is due does not let a body go on once its stream has nothing ready.
Takes ==
    /\ stage \in Calling /\ ~(waits /\ clock = Timeout)
    /\ IF stage = "tool" /\ cancelled
       THEN Ends("cancelled") /\ UNCHANGED <<sent, failed, buf, progress, error>>
       ELSE \/ \E size \in Sizes : Data(size)
            \/ Progress
            \/ \E fault \in {"recoverable", "fatal"} : Fault(fault)
            \/ Done
            \/ Asks
    /\ UNCHANGED <<forwardedVars, kind, tls, client, origin, conf, cred, denied, caller, cancelled>>

\* The bridge takes an item that is ready.  The REST bridge's collector takes
\* the next at once, within the same poll: the timeout around it is not asked.
Item == Takes /\ waits' = FALSE /\ UNCHANGED clock

\* The collector finds the stream with nothing ready and yields to the timeout.
Pends ==
    /\ stage = "one" /\ ~waits
    /\ waits' = TRUE
    /\ UNCHANGED <<forwardedVars, requestVars, sent, failed, buf, progress, error, cancelled, clock, answer>>

\* The MCP client sends notifications/cancelled.
Cancel ==
    /\ stage = "tool" /\ ~cancelled
    /\ cancelled' = TRUE
    /\ UNCHANGED <<forwardedVars, requestVars, sent, failed, buf, progress, error, clock, waits, answer>>

\* Time passes; past the timeout it makes no difference.  When it is due the
\* collector is polled once more, and first.
Tick ==
    /\ stage \in Calling /\ clock < Timeout
    /\ clock' = clock + 1
    /\ waits' = (waits /\ clock' < Timeout)
    /\ UNCHANGED <<forwardedVars, requestVars, sent, failed, buf, progress, error, cancelled, answer>>

\* handle_method_call: the timeout is around the collecting of a body and
\* around the making of an event stream, not around the events.  tokio asks the
\* timer only when the collector has yielded.
TimesOut ==
    /\ stage = "one" /\ waits /\ clock = Timeout
    /\ Ends("504")
    /\ UNCHANGED <<forwardedVars, kind, tls, client, origin, conf, cred, denied, caller,
                   sent, failed, buf, progress, error, cancelled, clock, waits>>

-----------------------------------------------------------------------------
Next ==
    \/ Travel \/ Arrive \/ Over
    \/ CheckHost \/ CheckPath \/ CheckOrigin \/ CheckKey
    \/ AskCookie \/ AskBearer \/ Decide \/ TakeQuota
    \/ Lookup \/ ReadBody \/ Route \/ CallTool
    \/ Item \/ Pends \/ Cancel \/ Tick \/ TimesOut

Spec == Init /\ [][Next]_vars

-----------------------------------------------------------------------------
(* Properties. *)

Stages == {"idle", "arrived", "path", "origin", "key", "cookie", "bearer", "decide", "quota",
           "lookup", "body", "route", "call", "one", "many", "tool",
           "socket", "mounted", "answered"}

TypeOK ==
    /\ ForwardedTypeOK
    /\ stage \in Stages /\ kind \in Kinds \cup {None}
    /\ conf \in Confs /\ cred \in Creds /\ caller \in {Nobody, User}
    /\ client.ip \in Addresses \cup {NotSet}
    /\ Len(buf) <= Len(sent) /\ clock \in 0 .. Timeout
    /\ answer # None <=> stage = "answered"

\* Whatever hops the client wrote in X-Forwarded-For, the address its socket is
\* counted under is the last one on its way that the port does not trust, as
\* the first trusted proxy after it saw it (TrustedProxies::resolve).  A client
\* whose proxy wrote into a line of it that is no text may be named as that
\* proxy, or as any hop of its own writing (list drops the line whole); one
\* that came through no trusted proxy is named rightly even so.  The types are
\* right with it.
NamesWhoConnected ==
    TypeOK /\ (client.ip = origin.ip \/ (client.via /\ "for" \in origin.lost))

\* A client that came through proxies is secure only when a trusted one took
\* the request over https from the client or from a proxy after it: never on
\* the client's own X-Forwarded-Proto, whichever entry the lengths of the two
\* lists select (TrustedProxies::resolve).  The entries of all its proxies were
\* read, in both headers.
SecureIsAProxysWord ==
    client.via /\ client.secure /\ origin.lost = {} => origin.https

\* Where the process's set of proxies is the port's, the extractors ClientIp and
\* SecureTransport say of a request what the upgrade said of it, legacy switch
\* or not.
ExtractorsAgree ==
    stage = "arrived" /\ kind = "ws" /\ trusted = {nets} =>
        /\ \A legacy \in BOOLEAN, real \in Clients \cup {NotSet} :
              ClientIp(legacy, real, Peer("bare"), xff) = client.ip
        /\ SecureTransport(tls, Peer("bare"), xff, proto) <=> client.secure

Runs == stage \in Calling \cup {"socket", "mounted"}

\* With a key configured, no bridge runs a call or opens a socket for a request
\* that does not carry the key; the mounted bridge, which does not read it,
\* only for a caller the validator named (build's refusal of an anonymous
\* mount behind a key).
NoCallWithoutKey ==
    Runs /\ conf.key =>
        \/ cred.header = "key" \/ cred.auth = TheKey
        \/ kind = "mount" /\ caller = User

\* A Bearer the validator refused never runs as the anonymous caller, on any
\* bridge, but for an upgrade that is neither strict nor has the anonymous view
\* (CombinedAuthMiddleware::call, identify, ServiceUpstream::transport_for).
RefusedIsNotAnonymous ==
    Runs /\ denied => kind = "ws" /\ ~conf.strict /\ ~conf.anonymous

\* An answer that says ok holds every data item the stream gave, in order, and
\* the stream gave no error that ends a call; a body that would pass a limit is
\* refused whole and never cut (collect_and_respond, call_tool).
OkIsWhole ==
    answer = "ok" => buf = sent /\ failed # "fatal"
=============================================================================
