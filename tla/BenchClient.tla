---------------------------- MODULE BenchClient ----------------------------
(***************************************************************************)
(* The bench commands of the CLI: how a machine is dialled, what a         *)
(* failure is called and whether it may be tried again, how a job is       *)
(* submitted under its key, and how its artifacts are fetched.             *)
(* (metralectl/src/commands/bench/, agent/src/peer/{bench,reach}.rs, and   *)
(* BenchHost::submit and chunk, which answer them.)  The event stream in   *)
(* between is BenchJournal.                                                *)
(*                                                                         *)
(* A dial has a fate: where it ends.  A walk over addresses is a sequence  *)
(* of fates.                                                               *)
(***************************************************************************)
EXTENDS Integers, Sequences, FiniteSets, SequencesExt

LOCAL Ok(x)  == <<"ok", x>>
LOCAL Err(e) == <<"err", e>>

-----------------------------------------------------------------------------
(***************************************************************************)
(* Failures.                                                               *)
(***************************************************************************)
BenchError(exit, code, retryable) == [exit |-> exit, code |-> code, retryable |-> retryable]

BadArgs     == BenchError("Usage", "bad_args", FALSE)
IoError     == BenchError("Usage", "io", FALSE)
Unreachable == BenchError("Unreachable", "unreachable", TRUE)
NotPaired   == BenchError("NotPaired", "not_paired", FALSE)
Unsupported == BenchError("Unsupported", "unsupported_version", FALSE)

\* BenchError::refused, refusal_code.
RefusedBy(refusal) ==
    BenchError(IF refusal = "not_granted" THEN "NotPaired" ELSE "Refused", refusal,
               refusal \in {"busy", "queue_full", "rate_limited", "memory_pressure"})

\* BenchError::outcome, and finish: only a pass is a success.
Finish(outcome) ==
    CASE outcome = "pass"      -> Ok("")
      [] outcome = "cancelled" -> Err(BenchError("Cancelled", "job_cancelled", FALSE))
      [] OTHER                 -> Err(BenchError("JobFailed", "job_failed", FALSE))

\* DialError::transient.
TransientDials == {"Timeout", "Connect", "HandshakeTimeout"}

\* The other DialErrors; NotPinned is the handshake that says so.
BrokenDials == {"NotPinned", "Handshake", "NoCertificate", "Identity"}

\* Ends of a link that was made: a peer too old, a link that breaks before the
\* request is read or before it is answered, and an answer.
LinkEnds == {"Old", "Broken", "Silent", "Answers"}

Fates == TransientDials \cup BrokenDials \cup LinkEnds

\* BenchError::from_link.
FromLink(fate) ==
    CASE fate \in BrokenDials -> NotPaired
      [] fate = "Old"         -> Unsupported
      [] OTHER                -> Unreachable

-----------------------------------------------------------------------------
(***************************************************************************)
(* Reaching a machine to pair with.                                        *)
(***************************************************************************)

(***************************************************************************)
(* dial_and_pair: where a dial ends, and with what.  OwnTimeout is the     *)
(* program's own five seconds, the other errors are the system's, which    *)
(* may also give up a link that was made.                                  *)
(***************************************************************************)
Dials ==
    ({"connect"} \X {"ConnectionRefused", "TimedOut", "HostUnreachable", "OwnTimeout"})
    \cup ({"handshake"} \X {"ConnectionReset", "TimedOut", "Alert"})
    \cup ({"ceremony"} \X {"Paired", "Refused", "ConnectionReset", "TimedOut"})

\* serve_join charges an attempt as soon as the handshake is done.
Heard(dial) == dial[1] = "ceremony"

\* never_reached: only what the system says counts, wherever the dial ended.
NeverReached(e) ==
    e \in {"ConnectionRefused", "TimedOut", "HostUnreachable", "NetworkUnreachable",
           "AddrNotAvailable", "NotFound"}

(***************************************************************************)
(* walk, walk_async: the addresses a pairing tries, up to the first that   *)
(* answers or may have heard the code.                                     *)
(***************************************************************************)
Walk(dials) ==
    LET stops == {i \in DOMAIN dials : ~NeverReached(dials[i][2])}
        last  == IF stops = {} THEN Len(dials) ELSE CHOOSE i \in stops : \A j \in stops : i <= j
    IN  [tried |-> SubSeq(dials, 1, last),
         out   |-> CASE dials = <<>> -> Err("no address to try")
                     [] dials # <<>> /\ stops = {} -> Err("NeverReached")
                     [] OTHER -> IF dials[last][2] = "Paired" THEN Ok(last) ELSE Err("failed")]

-----------------------------------------------------------------------------
(***************************************************************************)
(* Submitting.  A node is its jobs, the submits of the last minute, the    *)
(* depth of its queue, whether its disk has room, its class, and the       *)
(* parameters that check_params lets through.                              *)
(***************************************************************************)
\* derived_key: the same command is the same key.
DerivedKey(spec) == <<"cli", spec.sha, spec.gate, spec.params>>

\* submit_request: a parameter is a key and a value, and no key comes twice.
SubmitRequest(args) ==
    LET keys == [i \in DOMAIN args.params |-> args.params[i][1]]
        spec == [sha |-> args.sha, gate |-> args.gate, params |-> Range(args.params),
                 checkpoint |-> args.checkpoint]
    IN  IF "" \in Range(keys) \/ ~IsInjective(keys) THEN Err(BadArgs)
        ELSE Ok([key |-> IF args.job_key # "" THEN <<args.job_key>> ELSE DerivedKey(spec),
                 spec |-> spec, hardware |-> args.hardware])

\* Mutant: the key alone decides.
AdmitByKey(node, req) ==
    LET same == {j \in node.jobs : j.key = req.key}
        job  == [key |-> req.key, spec |-> req.spec, queued |-> TRUE]
    IN  IF same # {} THEN [node |-> node, rep |-> Ok(CHOOSE j \in same : TRUE)]
        ELSE [node |-> [node EXCEPT !.jobs = @ \cup {job}], rep |-> Ok(job)]

\* BenchHost::submit; the answer is the job, or the refusal.
Admit(node, req) ==
    LET same    == {j \in node.jobs : j.key = req.key}
        counted == [node EXCEPT !.recent = @ + 1]
        job     == [key |-> req.key, spec |-> req.spec, queued |-> TRUE]
        Refuse(why) == [node |-> counted, rep |-> Err(why)]
    IN  IF node.recent >= node.per_minute THEN [node |-> node, rep |-> Err("rate_limited")]
        ELSE IF \E p \in req.spec.params : p[1] \notin node.params THEN Refuse("bad_params")
        ELSE IF req.hardware \notin {"", node.hardware}            THEN Refuse("not_configured")
        ELSE IF \E j \in same : j.spec = req.spec
             THEN [node |-> counted, rep |-> Ok(CHOOSE j \in same : j.spec = req.spec)]
        ELSE IF same # {}                                          THEN Refuse("key_conflict")
        ELSE IF Cardinality({j \in node.jobs : j.queued}) >= node.depth
             THEN Refuse("queue_full")
        ELSE IF ~node.disk                                         THEN Refuse("disk_low")
        ELSE [node |-> [counted EXCEPT !.jobs = @ \cup {job}], rep |-> Ok(job)]

\* What one dial does: send_bench, with the node's part of it.
Send(node, req, fate) ==
    IF fate \notin {"Silent", "Answers"} THEN [node |-> node, out |-> Err(FromLink(fate))]
    ELSE LET done == Admit(node, req) IN
         [node |-> done.node,
          out  |-> CASE fate = "Silent"        -> Err(FromLink(fate))
                     [] fate = "Answers" /\ done.rep[1] = "err" -> Err(RefusedBy(done.rep[2]))
                     [] OTHER                  -> done.rep]

\* Session::request: the next address is tried while the last was unreachable.
Request(node, req, fates) ==
    FoldLeft(LAMBDA acc, fate :
                IF acc.out[1] = "err" /\ acc.out[2].code = "unreachable"
                THEN Send(acc.node, req, fate) ELSE acc,
             [node |-> node, out |-> Err(Unreachable)], fates)

\* do_submit.
SubmitCommand(node, args, fates) ==
    LET req == SubmitRequest(args) IN
    IF req[1] = "err" THEN [node |-> node, out |-> req] ELSE Request(node, req[2], fates)

-----------------------------------------------------------------------------
(***************************************************************************)
(* Fetching.  An artifact has a path, and is promised with its length and  *)
(* its digest, which is as good as its bytes; MaxChunk bytes come at once. *)
(***************************************************************************)
MaxChunk == 2

\* BenchHost::chunk.
ServeChunk(file, offset) ==
    LET upto == IF offset + MaxChunk < Len(file) THEN offset + MaxChunk ELSE Len(file)
        data == SubSeq(file, offset + 1, upto)
    IN  [offset |-> offset, data |-> data, eof |-> offset + Len(data) >= Len(file)]

\* The destination of a plain path.
Destination(meta) == IF meta.plain THEN Ok(meta.path) ELSE Err(BadArgs)

\* One answer of a download: the bytes so far, or how it ended.
Take(acc, meta, chunk) ==
    LET data == acc.data \o chunk.data IN
    CASE chunk.offset # Len(acc.data)           -> [acc EXCEPT !.out = Err(IoError)]
      [] Len(data) > meta.bytes                 -> [acc EXCEPT !.out = Err(IoError)]
      [] chunk.eof                              -> [data |-> data, out |-> Ok(data)]
      [] ~chunk.eof /\ chunk.data = <<>>        -> [acc EXCEPT !.out = Err(IoError)]
      [] OTHER                                  -> [acc EXCEPT !.data = data]

Pending == <<"pending", "">>

\* download: replies answer the requests, each at the offset reached; a link
\* that fails ends it.
Download(meta, replies) ==
    LET end == FoldLeft(LAMBDA acc, r :
                    CASE acc.out # Pending -> acc
                      [] OTHER -> IF r.lost THEN [acc EXCEPT !.out = Err(Unreachable)]
                                  ELSE Take(acc, meta, [offset |-> Len(acc.data) + r.skew,
                                                        data |-> r.data, eof |-> r.eof]),
                    [data |-> <<>>, out |-> Pending], replies)
    IN  IF end.out = Pending THEN Err(Unreachable) ELSE end.out

\* What a node that keeps the file says to each request.
HonestReplies(file) ==
    LET n == (Len(file) + MaxChunk - 1) \div MaxChunk IN
    [i \in 1 .. (IF n = 0 THEN 1 ELSE n) |->
        LET c == ServeChunk(file, (i - 1) * MaxChunk) IN
        [lost |-> FALSE, skew |-> 0, data |-> c.data, eof |-> c.eof]]

\* verify.
VerifyArtifact(meta, data) == Len(data) = meta.bytes /\ data = meta.sha256

(***************************************************************************)
(* fetch_all: each artifact in turn, up to the first that fails; a file    *)
(* that is there already is left alone, and a write that is cut off leaves *)
(* what it had written.  files are the pairs of a path and its bytes under *)
(* the output directory, replies what a node answers of each artifact,     *)
(* room the bytes that the disk will still take.                           *)
(***************************************************************************)
FetchAll(files, items, replies, room) ==
    FoldLeft(LAMBDA acc, meta :
        LET dest == Destination(meta)
            data == Download(meta, replies[meta])
            Fail(e) == [acc EXCEPT !.out = Err(e)]
        IN  CASE acc.out[1] = "err"                   -> acc
              [] OTHER ->
            CASE dest[1] = "err"                      -> Fail(dest[2])
              [] dest[1] = "ok" /\ data[1] = "err"    -> Fail(data[2])
              [] OTHER ->
                 IF ~VerifyArtifact(meta, data[2]) \/ \E f \in acc.files : f[1] = dest[2] THEN Fail(IoError)
                 ELSE IF Len(data[2]) > acc.room
                 THEN [Fail(IoError) EXCEPT !.files = @ \cup {<<dest[2], SubSeq(data[2], 1, acc.room)>>}]
                 ELSE [acc EXCEPT !.files = @ \cup {<<dest[2], data[2]>>}, !.room = @ - Len(data[2])],
        [files |-> files, out |-> Ok(""), room |-> room], items)

(***************************************************************************)
(* `bench run`: submit, follow to the job's outcome, fetch what it left.   *)
(***************************************************************************)
RunCommand(node, args, fates, followed, files, items, replies, room) ==
    LET submitted == SubmitCommand(node, args, fates)
        fetched   == FetchAll(files, items, replies, room)
        Ended(fs, out) == [node |-> submitted.node, files |-> fs, out |-> out]
    IN  CASE submitted.out[1] = "err" -> Ended(files, submitted.out)
          [] submitted.out[1] = "ok" /\ followed[1] = "err" -> Ended(files, followed)
          [] OTHER -> Ended(fetched.files,
                            IF fetched.out[1] = "err" THEN fetched.out ELSE Finish(followed[2]))
=============================================================================
