---------------------------- MODULE WorkerProtocol ----------------------------
(***************************************************************************)
(* The frames of the worker protocol, one JSON object per line, and the    *)
(* two readers of a request: parse_worker_request (worker_protocol.rs) and *)
(* read_request (protocol.py).  A raw frame records what the readers look  *)
(* at, not its text.                                                       *)
(***************************************************************************)
EXTENDS Checks

VARIABLE
    received  \* a request line and how each end read it

Method == {"initialize", "capabilities", "health", "synthesize", "cancel", "shutdown"}
Event ==
    {"initialized", "capabilities", "health", "progress", "synthesis_succeeded",
     "cancelled", "shutdown", "failure"}
WorkerFailureCode ==
    {"invalid_request", "initialization_failed", "synthesis_failed", "output_failed",
     "timeout", "cancellation_failed", "resource_exhausted", "internal"}

Version == {"2.0", "2.1", "other", "notText"}
AcceptedVersions == {"2.0", "2.1"}
RequestId == {"ascii", "empty", "wide", "long", "notText", "missing"}

\* json: "positional" is an array of the frame's values, its method first, "array"
\* any other array, "deep" an object nested past what either end reads, "twice" one
\* that names a field twice.
\* body: the parameters of the method.  "positional" is an array of their values,
\* "negativeZero" the number -0, "surrogate" a lone surrogate escape in a text.
\* trace: parameters.trace_context.
Oddity == {"lacking", "extended", "mistyped", "zeroThreads", "negativeZero", "wideNumber", "surrogate", "positional"}
RawRequest ==
    [fits : BOOLEAN, single : BOOLEAN,
     json : {"object", "positional", "array", "broken", "deep", "twice"},
     method : Method \cup {"other", "notText"}, version : Version, id : RequestId,
     active : RequestId, body : {"good"} \cup Oddity,
     trace : {"absent", "null", "object", "mistyped", "surrogate", "positional"}]

SoundRequest(method) ==
    [fits |-> TRUE, single |-> TRUE, json |-> "object", method |-> method, version |-> "2.0",
     id |-> "ascii", active |-> "ascii", body |-> "good", trace |-> "absent"]

\* Requests that differ from a sound one in two places.
Bent(r) ==
    {r} \cup {[r EXCEPT !.fits = FALSE], [r EXCEPT !.single = FALSE]}
    \cup {[r EXCEPT !.json = j] : j \in {"positional", "array", "broken", "deep", "twice"}}
    \cup {[r EXCEPT !.method = m] : m \in {"other", "notText"}}
    \cup {[r EXCEPT !.version = v] : v \in Version}
    \cup {[r EXCEPT !.id = i] : i \in RequestId}
    \cup {[r EXCEPT !.active = i] : i \in RequestId}
    \cup {[r EXCEPT !.body = b] : b \in Oddity}
    \cup {[r EXCEPT !.trace = t] : t \in {"null", "object", "mistyped", "surrogate", "positional"}}
Requests == UNION {UNION {Bent(q) : q \in Bent(SoundRequest(m))} : m \in Method}

\* The methods whose frame has parameters.
HasParameters(r) == r.method \in {"initialize", "synthesize"}

-----------------------------------------------------------------------------
(* worker_protocol.rs *)

ValidateFrameBytes(r) == << <<~r.fits, "TooLarge">>, <<~r.single, "NotSingleFrame">> >>

ValidateVersion(version) == <<version \notin AcceptedVersions, "UnsupportedVersion">>

ValidateRequestIdentity(id) ==
    << <<id = "empty", "EmptyRequestId">>, <<id = "wide", "NonAsciiRequestId">>,
       <<id = "long", "RequestIdTooLong">> >>

\* The derived readers of the parameters: a structure may be written as an array of its
\* fields, -0 is no unsigned integer, and a text must be Unicode.
DerivedReadersRefuse(r) ==
    \/ r.body \in {"lacking", "mistyped", "wideNumber", "negativeZero", "surrogate"} /\ HasParameters(r)
    \/ r.body = "extended"
    \/ r.body = "zeroThreads" /\ r.method = "initialize"
    \/ r.trace \in {"mistyped", "surrogate"} /\ r.method = "synthesize"

\* serde_json::from_slice, with deny_unknown_fields on every type of the frame.
IsMalformed(r) ==
    \/ r.json \notin {"object", "positional"} \/ r.method \notin Method
    \/ r.version = "notText" \/ r.id \in {"notText", "missing"}
    \/ r.method = "cancel" /\ r.active \in {"notText", "missing"}
    \/ DerivedReadersRefuse(r)

\* uses_trace_extension sees a trace in the frame it has read, trace_context_is_present
\* the name of the field, which only an object has.
UsesTrace(r) ==
    /\ r.method = "synthesize"
    /\ \/ r.trace \in {"object", "positional"}
       \/ r.trace # "absent" /\ r.json = "object" /\ r.body # "positional"

ParseWorkerRequest(r) ==
    FirstFault(ValidateFrameBytes(r) \o << <<IsMalformed(r), "Malformed">> >>
               \o << ValidateVersion(r.version) >> \o ValidateRequestIdentity(r.id)
               \o (IF r.method = "cancel" THEN ValidateRequestIdentity(r.active) ELSE <<>>)
               \o << <<UsesTrace(r) /\ r.version # "2.1", "ExtensionRequiresVersion">> >>)

\* parse_worker_response; outside: a progress that is not between zero and one.
RawResponse ==
    [fits : BOOLEAN, single : BOOLEAN, malformed : BOOLEAN, version : Version,
     outside : BOOLEAN]
SoundResponse ==
    [fits |-> TRUE, single |-> TRUE, malformed |-> FALSE, version |-> "2.0", outside |-> FALSE]

ParseWorkerResponse(r) ==
    FirstFault(ValidateFrameBytes(r) \o << <<r.malformed, "Malformed">>,
                                           ValidateVersion(r.version),
                                           <<r.outside, "InvalidProgress">> >>)

-----------------------------------------------------------------------------
(* protocol.py *)

\* request_identity
IdentityFails(id) == id # "ascii"

\* Mutant: an integer has no width.
ParametersFailOfNoWidth(r) ==
    \/ r.body \in {"lacking", "mistyped", "positional"} /\ HasParameters(r)
    \/ r.body = "extended"
    \/ r.body \in {"zeroThreads", "negativeZero"} /\ r.method = "initialize"
    \/ r.trace \in {"mistyped", "positional"} /\ r.method = "synthesize"

\* The checks of _INITIALIZE_PARAMETERS and _SYNTHESIZE_PARAMETERS: an object is a dict,
\* -0 is the integer zero, and any str is text.
ParametersFail(r) ==
    \/ r.body \in {"lacking", "mistyped", "wideNumber", "positional"} /\ HasParameters(r)
    \/ r.body = "extended"
    \/ r.body \in {"zeroThreads", "negativeZero"} /\ r.method = "initialize"
    \/ r.trace \in {"mistyped", "positional"} /\ r.method = "synthesize"

\* check_object, with _REQUEST_FRAMES.
CheckObject(r) ==
    \/ IdentityFails(r.id)
    \/ r.method = "cancel" /\ IdentityFails(r.active)
    \/ ParametersFail(r)

\* _check_extension_version
CarriesTrace(r) == r.method = "synthesize" /\ r.trace # "absent"

\* The identity a refusal is written under: None (written as "unknown") before the
\* frame is an object, or when it is no text of at most the allowed length.
RecoveredId(r) ==
    IF r.fits /\ r.single /\ r.json = "object" /\ r.id = "ascii" THEN "own" ELSE "unknown"

ReadRequest(r) ==
    FirstFault(<< <<~r.fits, "ceiling">>, <<~r.single, "terminator">>,
                  <<r.json # "object", "notAnObject">>,
                  <<r.method = "notText", "methodNotText">>,
                  <<r.method = "other", "unsupportedMethod">>,
                  <<r.version = "notText", "versionNotText">>,
                  <<r.version \notin AcceptedVersions, "unsupportedVersion">>,
                  <<CheckObject(r), "object">>,
                  <<CarriesTrace(r) /\ r.version # "2.1", "extension">> >>)

-----------------------------------------------------------------------------
NothingReceived == [request |-> SoundRequest("health"), rust |-> "none", python |-> "none", under |-> "none"]

\* A line reaches both ends: the Rust reader of the conformance fixtures, and the
\* worker, whose main loop answers a refusal and goes on.
ReceiveRequest ==
    /\ received.rust = "none"
    /\ \E r \in Requests :
         received' = [request |-> r, rust |-> ParseWorkerRequest(r), python |-> ReadRequest(r),
                      under |-> RecoveredId(r)]

ProtocolInit == received = NothingReceived
ProtocolSpec == ProtocolInit /\ [][ReceiveRequest]_received

\* The encodings only serde reads, and those only json.loads does.
IsPositional(r) == r.json = "positional" \/ r.body = "positional" \/ r.trace = "positional"
OnlyPythonReads(r) == r.body \in {"negativeZero", "surrogate"} \/ r.trace = "surrogate"

\* The two ends accept the same requests but for these encodings, which no writer of
\* the project produces: the worker accepts what Rust accepts unless an array stands
\* for an object, Rust what the worker accepts unless a number is written -0 or a text
\* holds a lone surrogate.  And an object whose identity Rust would accept is refused
\* under that identity, so that the refusal reaches its request.
BothEndsAgree ==
    received.rust # "none" =>
      /\ received.rust = "ok" /\ ~IsPositional(received.request) => received.python = "ok"
      /\ received.python = "ok" /\ ~OnlyPythonReads(received.request) => received.rust = "ok"
      /\ /\ received.rust \in {"UnsupportedVersion", "ExtensionRequiresVersion"}
         /\ received.request.json = "object" /\ received.request.id = "ascii"
         => received.under = "own"
==============================================================================
