---------------------------- MODULE WorkerSession ----------------------------
(***************************************************************************)
(* One worker process and the executor that talks to it:                   *)
(* WorkerTtsExecutor (worker_executor.rs) over WorkerClient                *)
(* (worker_client.rs) on one side of two pipes, the Python worker          *)
(* (worker.py) on the other.  A reader thread moves the worker's lines     *)
(* into a channel of depth one.  The worker may hang, die between any two  *)
(* steps or in the middle of a line, leave descendants behind, and write   *)
(* frames nobody asked for; the model root may be replaced after the gate  *)
(* has verified it.                                                        *)
(*                                                                         *)
(* A frame's work and a file's content are the model's own records of      *)
(* which request they were made for.  The client's mutex admits one call   *)
(* at a time.                                                              *)
(***************************************************************************)
EXTENDS ProcessTree, WorkerProtocol

CONSTANTS
    MaxSyntheses,  \* bound: calls of synthesize
    MaxFaults,     \* bound: forks, frames nobody asked for, replaced models, failed reads
    PipeFrames,    \* bound: lines the pipe holds before a write blocks
    Revisions,     \* model revisions an acquisition record may state
    Verified,      \* the revision whose artifacts the gate verified
    Voices         \* voice profiles the worker has loaded

ASSUME SessionAssumption ==
    /\ MaxSyntheses \in Nat /\ MaxFaults \in Nat /\ PipeFrames \in Nat \ {0}
    /\ Verified \in Revisions

VARIABLES
    client,     \* the executor's call and its WorkerClient
    stdin,      \* the request pipe
    wire,       \* the response pipe, as lines
    responses,  \* the channel between the reader thread and the client
    listener,     \* spawn_protocol_reader's thread
    worker,     \* the Python process
    staged,     \* the assigned output files
    record,     \* the model root's bundle-manifest.json
    faults      \* how many of MaxFaults have happened

sessionVars == <<client, stdin, wire, responses, listener, worker, staged, record, faults>>

\* An assigned output: the request it was rendered for, and with what.
Rendered(request, revision) ==
    [id |-> request.id, voice |-> request.voice, revision |-> revision]

\* A fault the environment is charged for.
Fault == faults < MaxFaults /\ faults' = faults + 1

RESPONSE_CHANNEL_DEPTH == 1
Nothing == "nothing"
NoVoice == "no voice"
Partial == "partial"

\* A request's output names the call of synthesize it belongs to.
Request(method, id, voice, output) ==
    [method |-> method, id |-> id, voice |-> voice, output |-> output]
NoRequest == Request("none", <<0, "none">>, NoVoice, 0)
InitializeRequest == Request("initialize", <<0, "initialize">>, NoVoice, 0)
CapabilitiesRequest == Request("capabilities", <<0, "capabilities">>, NoVoice, 0)
ShutdownRequest == Request("shutdown", <<0, "shutdown">>, NoVoice, 0)

Frame(event, id, revision, voice) ==
    [event |-> event, id |-> id, revision |-> revision, voice |-> voice, raw |-> SoundResponse]
\* ProtocolEvent::{Oversized, Unterminated, Unreadable}: no frame, and the last event.
StreamEvent(event) == Frame(event, NoRequest.id, Nothing, NoVoice)
NoFrame == StreamEvent("none")
BrokenEvents == {"oversized", "unterminated", "unreadable"}

-----------------------------------------------------------------------------
(* The worker: main, _respond *)

NoFile == Rendered(NoRequest, Nothing)

NewWorker == [step |-> "boot", loaded |-> Nothing, job |-> NoRequest, reply |-> NoFrame]

DeadWorker == [NewWorker EXCEPT !.step = "dead"]

WorkerTo(step) == worker' = [worker EXCEPT !.step = step]
WorkerMay(step) == Running(Root) /\ worker.step = step

\* _load_launcher and _apply_offline_environment; they may also refuse (WorkerDies).
WorkerBoots ==
    /\ WorkerMay("boot") /\ WorkerTo("read")
    /\ UNCHANGED <<tree, stdin, wire, staged>>

WorkerReads ==
    /\ WorkerMay("read") /\ stdin.lines # <<>>
    /\ worker' = [worker EXCEPT !.step = "work", !.job = Head(stdin.lines)]
    /\ stdin' = [stdin EXCEPT !.lines = Tail(@)]
    /\ UNCHANGED <<tree, wire, staged>>

WorkerReply(reply, loaded) ==
    worker' = [worker EXCEPT !.step = "write", !.reply = reply, !.loaded = loaded]
Answer(event) == Frame(event, worker.job.id, Nothing, NoVoice)
Refusal(code) == [Answer("failure") EXCEPT !.revision = code]

\* _staging_root, then _load_backend: the revision is what the record states now.
RespondInitialize ==
    /\ WorkerMay("work") /\ worker.job.method = "initialize"
    /\ IF worker.loaded # Nothing THEN WorkerReply(Refusal("internal"), worker.loaded)
       ELSE \/ WorkerReply(Refusal("initialization_failed"), Nothing)
            \/ WorkerReply([Answer("initialized") EXCEPT !.revision = record], record)
    /\ UNCHANGED <<tree, stdin, wire, staged>>

RespondCapabilities ==
    /\ WorkerMay("work") /\ worker.job.method = "capabilities"
    /\ WorkerReply(Answer("capabilities"), worker.loaded)
    /\ UNCHANGED <<tree, stdin, wire, staged>>

\* _render: O_EXCL, so never over a file that is there.  Any fault is a refusal, and one
\* of soundfile.write leaves what was written.
RespondSynthesize ==
    LET job == worker.job
        done == Frame("synthesis_succeeded", job.id, worker.loaded, job.voice)
    IN  /\ WorkerMay("work") /\ job.method = "synthesize"
        /\ \/ /\ WorkerReply(Refusal(IF worker.loaded = Nothing THEN "initialization_failed"
                                     ELSE "synthesis_failed"), worker.loaded)
              /\ UNCHANGED staged
           \/ /\ worker.loaded # Nothing /\ staged[job.output] = NoFile
              /\ \/ /\ staged' = [staged EXCEPT ![job.output] = Rendered(job, worker.loaded)]
                    /\ WorkerReply(done, worker.loaded)
                 \/ /\ staged' = [staged EXCEPT ![job.output] = Rendered(job, Partial)]
                    /\ WorkerReply(Refusal("synthesis_failed"), worker.loaded)
        /\ UNCHANGED <<tree, stdin, wire>>

RespondShutdown ==
    /\ WorkerMay("work") /\ worker.job.method = "shutdown"
    /\ WorkerReply(Answer("shutdown"), worker.loaded)
    /\ UNCHANGED <<tree, stdin, wire, staged>>

WorkerWrites ==
    /\ WorkerMay("write") /\ Len(wire) < PipeFrames
    /\ wire' = Append(wire, worker.reply)
    /\ worker' = [worker EXCEPT !.step = IF worker.reply.event = "shutdown" THEN "leave" ELSE "read",
                                !.job = NoRequest, !.reply = NoFrame]
    /\ UNCHANGED <<tree, stdin, staged>>

\* main returns: after a shutdown, or at the end of its input.
WorkerLeaves ==
    /\ WorkerMay("leave") \/ (WorkerMay("read") /\ stdin.lines = <<>> /\ ~stdin.open)
    /\ tree' = Ended(Root, "itself") /\ worker' = DeadWorker
    /\ UNCHANGED <<stdin, wire, staged>>

\* The process dies, perhaps in the middle of a line.
WorkerDies ==
    /\ Running(Root)
    /\ \/ UNCHANGED wire
       \/ worker.step = "write" /\ wire' = Append(wire, StreamEvent("unterminated"))
    /\ tree' = Ended(Root, "itself") /\ worker' = DeadWorker
    /\ UNCHANGED <<stdin, staged>>

\* Lines the worker writes before the answer to a synthesize: progress, the answer itself, an answer
\* under another revision or voice, an unreadable line, a line past the ceiling.
StrayFrames ==
    LET progress == Answer("progress")
        done == Frame("synthesis_succeeded", worker.job.id, Verified, worker.job.voice)
    IN  {worker.reply, progress, [progress EXCEPT !.raw.outside = TRUE], StreamEvent("oversized")}
        \cup {[done EXCEPT !.revision = r] : r \in Revisions \ {Verified}}
        \cup {[done EXCEPT !.voice = v] : v \in (Voices \cup {NoVoice}) \ {done.voice}}

WorkerStrays ==
    /\ WorkerMay("write") /\ worker.job.method = "synthesize"
    /\ Fault /\ Len(wire) < PipeFrames
    /\ \E frame \in StrayFrames : wire' = Append(wire, frame)
    /\ UNCHANGED <<tree, worker, stdin, staged>>

WorkerMoves ==
    /\ \/ /\ \/ WorkerBoots \/ WorkerReads \/ RespondInitialize \/ RespondCapabilities
             \/ RespondSynthesize \/ RespondShutdown \/ WorkerWrites \/ WorkerLeaves \/ WorkerDies
          /\ UNCHANGED faults
       \/ WorkerStrays
    /\ UNCHANGED <<owned, term, client, responses, listener, record>>

\* The backend's descendants, forked while a request is worked on, and the kernel that
\* delivers a kill.
ProcessesMove ==
    /\ client.step \notin {"idle", "over"}
    /\ \/ WorkerMay("work") /\ Fault /\ Fork(Root) /\ UNCHANGED worker
       \/ DieOfSignal(Root) /\ worker' = DeadWorker /\ UNCHANGED faults
       \/ /\ \E p \in Descendants :
               LeaveGroup(p) \/ ExitItself(p) \/ DieOfSignal(p)
          /\ UNCHANGED <<worker, faults>>
    /\ UNCHANGED <<owned, term, client, stdin, wire, responses, listener, staged, record>>

\* An operator installs another model under the root the gate has verified; nobody
\* reads the record after the load.
ModelIsReplaced ==
    /\ Fault /\ worker.loaded = Nothing /\ worker.step \in {"boot", "read", "work"}
    /\ record' \in Revisions \ {record}
    /\ UNCHANGED <<client, stdin, wire, responses, listener, worker, staged, treeVars>>

-----------------------------------------------------------------------------
(* spawn_protocol_reader *)

NoListener == [step |-> "reading", item |-> NoFrame]
\* Mutant: the readers are joined while the channel is still open.
ResponsesAreKept == client.step = "over" \/ ~client.child
ResponsesAreDropped == client.step \in {"join", "over"} \/ ~client.child

\* The last event ends the thread; an unterminated line is one only at the end of
\* the stream.
ListenerReads ==
    /\ listener.step = "reading" /\ wire # <<>>
    /\ Head(wire).event = "unterminated" => ~PipesAreOpen
    /\ listener' = [step |-> "holding", item |-> Head(wire)]
    /\ wire' = Tail(wire)
    /\ UNCHANGED responses

ListenerSeesEnd ==
    /\ listener.step = "reading" /\ wire = <<>> /\ ~PipesAreOpen
    /\ listener' = [step |-> "done", item |-> NoFrame]
    /\ UNCHANGED <<wire, responses>>

ListenerFails ==
    /\ Fault /\ listener.step = "reading"
    /\ listener' = [step |-> "holding", item |-> StreamEvent("unreadable")]
    /\ UNCHANGED <<wire, responses>>

ListenerSends ==
    /\ listener.step = "holding"
    /\ \/ ResponsesAreDropped /\ UNCHANGED responses
       \/ /\ ~ResponsesAreDropped /\ Len(responses) < RESPONSE_CHANNEL_DEPTH
          /\ responses' = Append(responses, listener.item)
    /\ listener' = [step |-> IF ResponsesAreDropped \/ listener.item.event \in BrokenEvents
                           THEN "done" ELSE "reading",
                  item |-> NoFrame]
    /\ UNCHANGED wire

ListenerMoves ==
    /\ client.step # "idle"
    /\ ListenerFails \/ ((ListenerReads \/ ListenerSeesEnd \/ ListenerSends) /\ UNCHANGED faults)
    /\ UNCHANGED <<client, stdin, worker, staged, record, treeVars>>

Disconnected == responses = <<>> /\ listener.step = "done"

-----------------------------------------------------------------------------
(* WorkerClient, and the executor above it *)

\* child: not yet taken by shutdown.  last: what the executor's last call returned.
\* inspection: refresh failed at shutdown.  epilogue: how the stream ended.
NoClient ==
    [step |-> "idle", request |-> NoRequest, poisoned |-> FALSE, exchanges |-> 0, child |-> FALSE,
     cause |-> "close", inspection |-> FALSE, answered |-> FALSE, epilogue |-> "ok",
     last |-> [kind |-> "none", request |-> NoRequest]]

Outcome(kind) == [kind |-> kind, request |-> client.request]

\* An error of start drops the client, and Drop shuts it down; after an error of
\* synthesize the executor stays.
CallFails(kind, poisoned) ==
    client' = [client EXCEPT
                 !.step = IF client.request.output = 0 THEN "close" ELSE "ready",
                 !.poisoned = poisoned, !.last = Outcome(kind),
                 !.request = IF client.request.output = 0 THEN @ ELSE NoRequest]

\* WorkerClient::spawn, called by start.
Spawn ==
    /\ client.step = "idle"
    /\ \/ /\ client' = [client EXCEPT !.step = "send", !.child = TRUE,
                                      !.request = InitializeRequest]
          /\ tree' = FreshTree
       \/ /\ client' = [client EXCEPT !.step = "over", !.last = Outcome("protocol")]
          /\ UNCHANGED tree
    /\ owned' = {} /\ term' = Idle
    /\ UNCHANGED <<stdin, wire, responses, listener, worker, staged, record, faults>>

\* request, as far as the write: the poison is set before and taken off by an answer.  A
\* line that fits the pipe is written at once; one that carries a segment's text may be
\* longer than the pipe, and its write blocks.
SendRequest ==
    /\ client.step = "send"
    /\ \/ (client.poisoned \/ ~PipesAreOpen) /\ CallFails("protocol", TRUE) /\ UNCHANGED stdin
       \/ /\ ~client.poisoned /\ PipesAreOpen
          /\ client' = [client EXCEPT !.step = "await", !.poisoned = TRUE]
          /\ stdin' = [stdin EXCEPT !.lines = Append(@, client.request)]
       \/ /\ ~client.poisoned /\ PipesAreOpen /\ client.request.method = "synthesize"
          /\ client' = [client EXCEPT !.step = "write", !.poisoned = TRUE]
          /\ UNCHANGED stdin
    /\ UNCHANGED <<wire, responses, listener, worker, staged, record, faults, treeVars>>

\* The rest of a long line, under no deadline: a worker in its readline takes it, a
\* closed pipe fails it, and nothing else ends the write.
WriteRest ==
    /\ client.step = "write"
    /\ \/ ~PipesAreOpen /\ CallFails("protocol", TRUE) /\ UNCHANGED stdin
       \/ /\ WorkerMay("read")
          /\ client' = [client EXCEPT !.step = "await"]
          /\ stdin' = [stdin EXCEPT !.lines = Append(@, client.request)]
    /\ UNCHANGED <<wire, responses, listener, worker, staged, record, faults, treeVars>>

\* start: the bundle hash is echoed as it was sent; the revision is compared.
StartAccepts(frame) ==
    CASE client.request.method = "initialize" ->
           IF frame.event # "initialized" THEN CallFails("protocol", FALSE)
           ELSE IF frame.revision # Verified THEN CallFails("invalid", FALSE)
           ELSE client' = [client EXCEPT !.step = "send", !.poisoned = FALSE,
                                         !.request = CapabilitiesRequest]
      [] client.request.method = "capabilities" ->
           IF frame.event # "capabilities" THEN CallFails("protocol", FALSE)
           ELSE \/ client' = [client EXCEPT !.step = "ready", !.poisoned = FALSE,
                                            !.last = Outcome("started"), !.request = NoRequest]
                \/ CallFails("invalid", FALSE)  \* another language or audio format

\* synthesize_through_worker: check_identity, then the destination.
CheckIdentity(frame) ==
    FirstFault(<< <<frame.event # "synthesis_succeeded", "protocol">>,
                  <<frame.revision # Verified, "drift">>,
                  <<frame.voice # client.request.voice, "drift">>,
                  <<staged[client.request.output] = NoFile, "destination">> >>)

CallAccepts(frame) ==
    IF client.request.output = 0 THEN StartAccepts(frame) ELSE CallFails(CheckIdentity(frame), FALSE)

\* request, after recv_timeout.
ReceiveResponse ==
    LET frame == Head(responses)
        broken == frame.event \in BrokenEvents \/ ParseWorkerResponse(frame.raw) # "ok"
    IN  /\ client.step = "await" /\ responses # <<>>
        /\ IF broken \/ frame.id # client.request.id THEN CallFails("protocol", TRUE)
           ELSE IF frame.event = "progress" THEN UNCHANGED client
           ELSE IF frame.event = "failure" THEN CallFails("execution", FALSE)
           ELSE CallAccepts(frame)
        /\ responses' = Tail(responses)
        /\ UNCHANGED <<stdin, wire, listener, worker, staged, record, faults, treeVars>>

ResponsesDisconnect ==
    /\ client.step = "await" /\ Disconnected
    /\ CallFails("protocol", TRUE)
    /\ UNCHANGED <<stdin, wire, responses, listener, worker, staged, record, faults, treeVars>>

ResponseTimesOut ==
    /\ client.step = "await" /\ responses = <<>>
    /\ client' = [client EXCEPT !.step = "close", !.cause = "timeout"]
    /\ UNCHANGED <<stdin, wire, responses, listener, worker, staged, record, faults, treeVars>>

\* Mutant: the identity is the caller's, which a second take of a segment repeats.
CallerRequestId(exchanges, caller) == <<1, caller>>

\* next_request_id
NextRequestId(exchanges, caller) == <<exchanges, caller>>

\* What validate looks at in a SynthesisRequest.
SynthesisRequest ==
    [style : BOOLEAN, voice : BOOLEAN, request_id : BOOLEAN, segment_id : BOOLEAN,
     language : {"en", "en-GB", "de"}, fits : BOOLEAN, canonical : BOOLEAN]

\* BackendDescriptor::speaks: the tag itself, or its primary subtag.
Primary(language) == IF language = "en-GB" THEN "en" ELSE language
Speaks(declared, language) == language \in declared \/ Primary(language) \in declared

\* validate, then validate_executor_request.
Validate(r) ==
    FirstFault(<< <<~r.style, "UndeclaredStyle">>, <<~r.voice, "UndeclaredVoiceProfile">>,
                  <<~r.request_id, "EmptyRequestId">>, <<~r.segment_id, "EmptySegmentId">>,
                  <<~Speaks({"en"}, r.language), "UnsupportedLanguage">>,
                  <<~r.fits, "TextTooLarge">>, <<~r.canonical, "NonCanonicalFormat">> >>)

\* synthesize, of a request validate accepts (one it refuses changes nothing); a segment synthesized again has the same
\* caller_request_id and a new destination.
Synthesize ==
    LET n == client.exchanges + 1
    IN  /\ client.step = "ready" /\ n <= MaxSyntheses 
        /\ \E r \in SynthesisRequest : Validate(r) = "ok"
        /\ \E voice \in Voices :
             client' = [client EXCEPT
                          !.step = "send", !.exchanges = n,
                          !.request = Request("synthesize", NextRequestId(n, "segment"), voice, n)]
        /\ UNCHANGED <<stdin, wire, responses, listener, worker, staged, record, faults, treeVars>>

\* shutdown of the executor, or its Drop.
Close ==
    /\ client.step = "ready"
    /\ client' = [client EXCEPT !.step = "close", !.cause = "close"]
    /\ UNCHANGED <<stdin, wire, responses, listener, worker, staged, record, faults, treeVars>>

-----------------------------------------------------------------------------
(* WorkerClient::shutdown *)

\* refresh, ask_to_leave, and the end of the worker's input.
BeginShutdown ==
    LET asks == ~client.poisoned /\ PipesAreOpen
    IN  /\ client.step = "close" /\ client.child
        /\ \/ owned' = Refreshed /\ client' = [client EXCEPT !.step = "wait"]
           \/ owned' = owned /\ client' = [client EXCEPT !.step = "wait", !.inspection = TRUE]
        /\ stdin' = [open |-> FALSE,
                     lines |-> IF asks THEN Append(stdin.lines, ShutdownRequest) ELSE stdin.lines]
        /\ UNCHANGED <<tree, term, wire, responses, listener, worker, staged, record, faults>>

ShutdownAgain ==
    /\ client.step = "close" /\ ~client.child
    /\ client' = [client EXCEPT !.step = "over"]
    /\ UNCHANGED <<stdin, wire, responses, listener, worker, staged, record, faults, treeVars>>

\* wait_for_voluntary_exit: the worker has left, or the grace is over.
WaitForVoluntaryExit ==
    /\ client.step = "wait"
    /\ client' = [client EXCEPT !.step = "terminate"] /\ BeginTerminate
    /\ UNCHANGED <<tree, owned, stdin, wire, responses, listener, worker, staged, record, faults>>

ClientTerminates ==
    /\ client.step = "terminate"
    /\ \/ TerminateStep /\ UNCHANGED client
       \/ /\ term.step = "done" /\ client' = [client EXCEPT !.step = "epilogue"]
          /\ UNCHANGED treeVars
    /\ UNCHANGED <<stdin, wire, responses, listener, worker, staged, record, faults>>

\* epilogue_was_only_the_shutdown_response
Epilogue ==
    LET frame == Head(responses)
        ends(how) == client' = [client EXCEPT !.step = "join", !.epilogue = how]
        isTheAnswer == /\ ~client.answered /\ frame.event = "shutdown"
                       /\ ParseWorkerResponse(frame.raw) = "ok"
    IN  /\ client.step = "epilogue"
        /\ \/ /\ responses # <<>> /\ responses' = Tail(responses)
              /\ IF isTheAnswer THEN client' = [client EXCEPT !.answered = TRUE]
                 ELSE ends("Epilogue")
           \/ Disconnected /\ ends("ok") /\ UNCHANGED responses
           \/ responses = <<>> /\ ~Disconnected /\ ends("Containment") /\ UNCHANGED responses
        /\ UNCHANGED <<stdin, wire, listener, worker, staged, record, faults, treeVars>>

\* Mutant: how the stream ended comes before containment.
ShutdownResultOfStream ==
    IF client.epilogue # "ok" THEN client.epilogue
    ELSE IF term.failed \/ client.inspection THEN "Containment" ELSE "ok"

\* Containment comes first, however the stream ended.
ShutdownResult ==
    IF term.failed \/ client.inspection THEN "Containment" ELSE client.epilogue

\* Both readers are joined; the diagnostic reader ends with the pipes.  A shutdown
\* called by request becomes its Timeout, with into_containment_detail.
JoinReaders ==
    LET timeout == IF ShutdownResult = "Containment" THEN "timeout, uncontained" ELSE "timeout"
    IN  /\ client.step = "join" /\ listener.step = "done" /\ ~PipesAreOpen
        /\ client' = [client EXCEPT
                        !.child = FALSE,
                        !.step = IF client.cause = "timeout" /\ client.request.output # 0
                                 THEN "ready" ELSE "over",
                        !.request = NoRequest, !.inspection = FALSE, !.answered = FALSE,
                        !.epilogue = "ok",
                        !.last = IF client.cause = "timeout" THEN Outcome(timeout) ELSE @]
        /\ stdin' = [stdin EXCEPT !.lines = <<>>] /\ wire' = <<>> /\ responses' = <<>>
        /\ UNCHANGED <<listener, worker, staged, record, faults, treeVars>>

ClientStep ==
    \/ SendRequest \/ WriteRest \/ ReceiveResponse \/ ResponsesDisconnect
    \/ ResponseTimesOut \/ BeginShutdown \/ ShutdownAgain \/ WaitForVoluntaryExit \/ ClientTerminates
    \/ Epilogue \/ JoinReaders
ClientCalls == Spawn \/ Synthesize \/ Close

SessionInit ==
    /\ TreeInit /\ client = NoClient /\ stdin = [open |-> TRUE, lines |-> <<>>]
    /\ wire = <<>> /\ responses = <<>> /\ listener = NoListener /\ worker = NewWorker
    /\ staged = [n \in 0 .. MaxSyntheses |-> NoFile]
    /\ record = Verified /\ faults = 0

SessionNext == ClientStep \/ ClientCalls \/ ListenerMoves \/ WorkerMoves \/ ProcessesMove \/ ModelIsReplaced
SessionSpec == SessionInit /\ [][SessionNext]_<<sessionVars, treeVars>>

-----------------------------------------------------------------------------
(* Properties. *)

\* What synthesize returns as a success is the answer to this call: its file was
\* rendered for this request, with this voice, by the model the gate verified, and by
\* no late answer to an earlier call and no model installed in between.
AnswerIsOwn ==
    client.last.kind = "ok" =>
      LET request == client.last.request
      IN  staged[request.output] = Rendered(request, Verified)

\* A timeout that does not say the tree was not contained leaves nobody who could
\* still write to the assigned path: the worker is reaped, its group and every
\* descendant met are dead.
TimeoutLeavesNoWriter == client.last.kind = "timeout" => TreeIsContained /\ ~PipesAreOpen

\* Every call returns, but for two cases.  A process that left the worker's group before
\* it was met, or that could not be killed, keeps the pipes open; or the request is longer
\* than the pipe and the worker never reads it: request writes the line before it starts
\* the clock of the deadline, so no timeout ends that wait.
WorkerCallsReturn ==
    client.step = "send" ~>
      \/ client.step \in {"ready", "over"}
      \/ \E p \in TreeProc :
           Live(p) /\ tree[p].piped /\ (term.failed \/ ~(tree[p].grouped \/ p \in owned))
      \/ [](client.step = "write" /\ worker.step # "read")
===============================================================================
