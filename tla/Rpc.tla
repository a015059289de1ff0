-------------------------------- MODULE Rpc --------------------------------
(***************************************************************************)
(* A remote call (std/rpc.pa, std/sys/rpc.pa and the stub and dispatcher   *)
(* that ir/src/lower.rs synthesizes): the client encodes its arguments     *)
(* under its own build's types and sends them with the route's             *)
(* fingerprint; the server, which may be another build, checks the         *)
(* fingerprint, decodes, runs the handler and encodes the result.  A       *)
(* stream endpoint is followed to its first frame.                         *)
(***************************************************************************)
EXTENDS Wire

CONSTANTS Signatures,    \* endpoint types [kind, params, result] of the builds in the field
          SampleBytes,   \* contents of strings in the calls
          SampleInts, SampleFloats,
          Depth          \* bound on the nesting of recursive values

VARIABLES
    client,    \* the signature the client was built against
    server,    \* the one the server now runs, NoEndpoint when it has dropped the route
    request,   \* [fp, body, damaged] in flight
    response,  \* [status, body]
    ranAs,     \* the signature under which the handler ran
    argument,  \* the value the stub was called with
    seen,      \* what the dispatcher decoded
    answer,    \* what the handler returned
    outcome,   \* what the caller got
    phase

rpcVars == <<client, server, request, response, ranAs, argument, seen, answer, outcome, phase>>

NoEndpoint == [kind |-> "none", params |-> <<>>, result |-> <<"nothing">>]
NoMessage == <<"none">>

----------------------------------------------------------------------------
(* The representations values of a type have at run time *)

RECURSIVE Reps(_, _)
\* all choices of one member from each set of a sequence of sets
RECURSIVE Picks(_)
Picks(sets) ==
    IF sets = <<>> THEN {<<>>}
    ELSE {<<x>> \o rest : x \in Head(sets), rest \in Picks(Tail(sets))}

RepsOfShape(fields, vals) ==
    {RecordValue([i \in DOMAIN fields |-> fields[i][1]], vals)} \cup
    {ShapeValue(id, vals) : id \in {i \in DOMAIN RecordShapes :
        /\ Len(RecordShapes[i]) = Len(fields)
        /\ \A k \in DOMAIN fields : RecordShapes[i][k].name = fields[k][1]}}

Reps(t, d) ==
    CASE t[1] = "int" -> {box_int(n) : n \in SampleInts} \cup {<<"int", n>> : n \in SampleInts}
      [] t[1] = "duration" -> {<<"duration", n>> : n \in SampleInts}
      [] t[1] = "float" -> {<<"float", f>> : f \in SampleFloats}
      [] t[1] = "bool" -> {<<"bool", 0>>, <<"bool", 1>>}
      [] t[1] \in {"str", "bytes"} -> {<<t[1], b>> : b \in SampleBytes}
      [] t[1] = "nothing" -> {Null}
      [] t[1] = "list" ->
           {ListValue(<<>>, 0)} \cup
           {ListValue(<<v, w>>, n) : n \in 1 .. 2, v \in Reps(t[2], d), w \in {CHOOSE x \in Reps(t[2], d) : TRUE}}
      [] t[1] = "tuple" ->
           {tuple_from_array(c) : c \in Picks([i \in DOMAIN t[2] |-> Reps(t[2][i], d)])}
      [] t[1] = "record" ->
           UNION {RepsOfShape(t[2], c) : c \in Picks([i \in DOMAIN t[2] |-> Reps(t[2][i][2], d)])}
      [] t[1] = "dict" ->
           {<<"dict", <<>>>>} \cup
           {<<"dict", <<<<p[1], v>>, <<p[2], v>>>>>> : v \in Reps(t[3], d),
               p \in {q \in Reps(t[2], d) \X Reps(t[2], d) : ~Eq(q[1], q[2])}}
      [] t[1] = "enum" ->
           IF d = 0 THEN {}
           ELSE UNION {{variant_from_array(i - 1, c) :
                          c \in Picks([j \in DOMAIN EnumDefs[t[2]][i][2] |->
                                  Reps(subst_type(EnumDefs[t[2]][i][2][j], t[3]), d - 1)])} :
                       i \in DOMAIN EnumDefs[t[2]]}

----------------------------------------------------------------------------
(* The metadata of an endpoint *)

Shapes(params) == [i \in DOMAIN params |-> WireShape(params[i])]

\* validate_remote_endpoint: every type that crosses must be derivable
Valid(sig) == NoShape \notin ToSet(Shapes(sig.params)) \cup {WireShape(sig.result)}

arg_shape(sig) ==
    IF Len(sig.params) = 1 THEN WireShape(sig.params[1]) ELSE <<"tuple", Shapes(sig.params)>>

route_fp(sig) == fingerprint_shapes(sig.kind, arg_shape(sig), WireShape(sig.result))

Arguments(sig) ==
    CASE Len(sig.params) = 0 -> {Null}
      [] Len(sig.params) = 1 -> Reps(sig.params[1], Depth)
      [] OTHER -> Reps(<<"tuple", sig.params>>, Depth)

----------------------------------------------------------------------------
(* The call *)

RpcInit ==
    /\ client \in {s \in Signatures : Valid(s)}
    /\ server = client
    /\ request = NoMessage /\ response = NoMessage /\ ranAs = NoEndpoint
    /\ argument = Null /\ seen = Null /\ answer = Null
    /\ outcome = NoMessage /\ phase = "idle"

\* the synthesized stub; no argument is sent for arity 0
ClientStub ==
    /\ phase = "idle"
    /\ \E v \in Arguments(client) :
          \E encoded \in {IF Len(client.params) = 0 THEN EncStart ELSE wire_encode(arg_shape(client), v)} :
             /\ argument' = v
             /\ IF encoded.trap THEN phase' = "trapped" /\ UNCHANGED request
                ELSE /\ request' = [fp |-> route_fp(client), body |-> encoded.buf, damaged |-> FALSE]
                     /\ phase' = "sent"
    /\ UNCHANGED <<client, server, response, ranAs, seen, answer, outcome>>

\* a rolling deploy changes the server between two calls or under one
Redeploy ==
    /\ phase \in {"idle", "sent"}
    /\ \E s \in {s \in Signatures : Valid(s)} \cup {NoEndpoint} : s # server /\ server' = s
    /\ UNCHANGED <<client, request, response, ranAs, argument, seen, answer, outcome, phase>>

\* the body arrives cut short or with something after it
Damage ==
    /\ phase = "sent" /\ ~request.damaged
    /\ \E b \in {SubSeq(request.body, 1, n) : n \in 0 .. Len(request.body) - 1} \cup {Append(request.body, 0)} :
          request' = [request EXCEPT !.body = b, !.damaged = TRUE]
    /\ UNCHANGED <<client, server, response, ranAs, argument, seen, answer, outcome, phase>>

\* the connection fails before a response: send answers rpc-error.transport
Lose ==
    /\ phase \in {"sent", "answered"}
    /\ outcome' = <<"err", "transport">> /\ phase' = "lost"
    /\ UNCHANGED <<client, server, request, response, ranAs, argument, seen, answer>>

Respond(status, body) == response' = [status |-> status, body |-> body] /\ phase' = "answered"

\* mutant: a server takes a call of any build
Mutfingerprint_ok(fp, sig) == TRUE

fingerprint_ok(fp, sig) == fp = route_fp(sig)

\* respond: the handler's value, the status it rejected with, or its failure
respond(sig) ==
    /\ ranAs' = sig
    /\ \/ \E v \in Reps(sig.result, Depth) :
             \E encoded \in {wire_encode(WireShape(sig.result), v)} :
                /\ answer' = v
                /\ IF encoded.trap THEN phase' = "trapped" /\ UNCHANGED response
                   ELSE Respond(200, encoded.buf)
       \/ \E status \in {401, 403, 500} : Respond(status, <<>>) /\ UNCHANGED answer

\* a body that does not decode answers 400 before the handler runs
dispatch_invoke(sig) ==
    IF sig.params = <<>> THEN respond(sig) /\ UNCHANGED seen
    ELSE \E decoded \in {wire_decode(arg_shape(sig), request.body)} :
            IF decoded.err # 0 THEN Respond(400, <<>>) /\ UNCHANGED <<ranAs, seen, answer>>
            ELSE seen' = decoded.value /\ respond(sig)

dispatch_arm(sig) ==
    \/ fingerprint_ok(request.fp, sig) /\ dispatch_invoke(sig)
    \/ ~fingerprint_ok(request.fp, sig) /\ Respond(409, <<>>) /\ UNCHANGED <<ranAs, seen, answer>>

Dispatch ==
    /\ phase = "sent"
    /\ \/ server = NoEndpoint /\ Respond(404, <<>>) /\ UNCHANGED <<ranAs, seen, answer>>
       \/ server # NoEndpoint /\ dispatch_arm(server)
    /\ UNCHANGED <<client, server, request, argument, outcome>>

status_error ==
    [s \in {400, 401, 403, 404, 409, 500} |->
        CASE s = 400 -> "bad-request" [] s = 401 -> "unauthorized"
          [] s = 403 -> "forbidden" [] s = 404 -> "not-found"
          [] s = 409 -> "schema-skew" [] s = 500 -> "server-fault"]

\* send, then the stub's decode callback and lift
Receive ==
    /\ phase = "answered" /\ phase' = "done"
    /\ IF response.status # 200 THEN outcome' = <<"err", status_error[response.status]>>
       ELSE \E decoded \in {wire_decode(WireShape(client.result), response.body)} :
              outcome' = IF decoded.err # 0 THEN <<"err", "transport">> ELSE <<"ok", decoded.value>>
    /\ UNCHANGED <<client, server, request, response, ranAs, argument, seen, answer>>

RpcNext == ClientStub \/ Redeploy \/ Damage \/ Lose \/ Dispatch \/ Receive

RpcSpec == RpcInit /\ [][RpcNext]_rpcVars

----------------------------------------------------------------------------
(* Properties *)

\* both fingerprints tell the schemas of any two builds apart
FingerprintsSeparate ==
    server # NoEndpoint =>
        LET a == arg_shape(client)
            b == arg_shape(server)
        IN /\ (wire_fp(a) = wire_fp(b)) <=> (a = b)
           /\ (render_shape(a) = render_shape(b)) <=> (a = b)

\* "a positional decode never runs against mismatched types": a handler runs
\* only for a call of a client built against its own types, since "two shapes
\* render identically iff they're the same wire schema".
NoDecodeUnderSkew == (ranAs # NoEndpoint => ranAs = client) /\ FingerprintsSeparate

\* every helper takes the decoded value for the one that was sent, although its
\* ints, records and lists are represented differently: __eq, __hash and the
\* reading, updating and splitting of records
Indistinguishable(v, w) ==
    /\ Eq(v, w) /\ Hash(v) = Hash(w)
    /\ v[1] = "record" => \A n \in ToSet(v[2]) :
          /\ Eq(getfield(v, n), getfield(w, n))
          /\ Eq(record_update(v, n, Null), record_update(w, n, Null))
          /\ Eq(record_rest(v, <<n>>), record_rest(w, <<n>>))

\* The handler gets the argument of the call, to the last field and for every
\* helper of the runtime, and no handler runs for a body that was cut short or
\* that has bytes after it.
ArgumentArrives ==
    ranAs = client /\ client.params # <<>> =>
        /\ Meaning(seen) = Meaning(argument)
        /\ ~request.damaged
        /\ Eq(argument, argument) => Indistinguishable(seen, argument)

\* A call the analyzer accepted is encoded without a trap, and a reply that
\* arrives is the handler's answer, never an error of the codec.
OutcomeIsAnswer ==
    /\ phase # "trapped"
    /\ phase = "done" => IF response.status = 200
                         THEN outcome[1] = "ok" /\ Meaning(outcome[2]) = Meaning(answer)
                         ELSE outcome[1] = "err"
=============================================================================
