----------------------------- MODULE Transport ------------------------------
(***************************************************************************)
(* The collector's two ways to ask: an ssh run raced against its deadline  *)
(* and killed past it, and a GET raced against its deadline and its        *)
(* caller's signal. Each ends in one result: what was answered, or the     *)
(* reason there is nothing. Node runs each step below to its next await.   *)
(***************************************************************************)
EXTENDS Integers, FiniteSets

CONSTANTS Exits,       \* how a run may end of itself, [code, stderr]
          Statuses,    \* the statuses a server may answer
          MaxAsked     \* runs and requests begun

ASSUME TransportAssumption ==
  /\ \A exit \in Exits : exit.code \in Int
  /\ Statuses \subseteq Nat /\ MaxAsked \in Nat

VARIABLES
  asked,       \* the runs and requests begun
  capture,     \* the ssh run: its process and what the race made of it
  fetch        \* the GET

transportVars == <<asked, capture, fetch>>

---------------------------------------------------------------------------
\* The ssh run.

NoExit == [code |-> -1, stderr |-> "none"]
IdleCapture == [phase |-> "idle", child |-> "none", exit |-> NoExit, late |-> FALSE, reason |-> "none"]

\* What ssh says of a failure of its own, and the name the page has for it.
REASONS == {<<"timed_out", "timeout">>, <<"permission_denied", "auth">>, <<"host_key_failed", "auth">>,
            <<"connection_refused", "refused">>, <<"no_route", "unreachable">>,
            <<"network_unreachable", "unreachable">>}
classifyExit(exit) ==
  IF exit.code = 0 THEN "ok"
  ELSE IF exit.code # 255 THEN "command_failed"
  ELSE IF \E r \in REASONS : r[1] = exit.stderr THEN (CHOOSE r \in REASONS : r[1] = exit.stderr)[2]
  ELSE "ssh_error"

settled(reason) == [capture EXCEPT !.phase = "settled", !.reason = reason]
CanAsk == asked < MaxAsked /\ asked' = asked + 1

\* Spawning succeeds, or this side cannot start a process at all.
start ==
  /\ capture.phase \in {"idle", "settled"} /\ CanAsk
  /\ \/ capture' = [IdleCapture EXCEPT !.phase = "racing", !.child = "running"]
     \/ capture' = [IdleCapture EXCEPT !.phase = "settled", !.reason = "spawn_error"]
  /\ UNCHANGED fetch

\* The process ends of itself, or by the signal sent to it; its status is the negated
\* signal then.
ChildExits ==
  /\ capture.child = "running"
  /\ \E exit \in Exits \union {[code |-> -9, stderr |-> "none"]} :
       capture' = [capture EXCEPT !.child = "exited", !.exit = exit]
  /\ UNCHANGED <<asked, fetch>>

\* Its streams end, which a process it left behind may delay: the run is judged.
ChildCloses ==
  /\ capture.phase = "racing" /\ capture.child = "exited"
  /\ capture' = settled(classifyExit(capture.exit))
  /\ UNCHANGED <<asked, fetch>>

CaptureDeadline ==
  /\ capture.phase = "racing"
  /\ capture' = [capture EXCEPT !.phase = "killing", !.late = TRUE]
  /\ UNCHANGED <<asked, fetch>>

\* Mutant: the process is not waited for.
ChildLeft ==
  /\ capture.phase = "killing"
  /\ capture' = settled("timeout")
  /\ UNCHANGED <<asked, fetch>>

\* The killed process is waited for, its streams are not.
ChildGone ==
  /\ capture.phase = "killing" /\ capture.child = "exited"
  /\ capture' = settled("timeout")
  /\ UNCHANGED <<asked, fetch>>

---------------------------------------------------------------------------
\* The GET. An error is the causes found in it and beneath it: one, or one for each
\* address tried.

NoAnswer == [status |-> 0, body |-> "none", causes |-> {}]
IdleFetch == [phase |-> "idle", signal |-> FALSE, deadline |-> FALSE, aborted |-> FALSE,
              wire |-> NoAnswer, reason |-> "none"]

TimedOut == {"TimeoutError", "ETIMEDOUT"}
ConnectFailures == {"ECONNREFUSED", "ENOTFOUND", "EAI_NODATA", "CERT_HAS_EXPIRED", "ETIMEDOUT"}
Failures == {{"ECONNRESET"}, {"ECONNREFUSED"}, {"ENOTFOUND"}, {"EAI_NODATA"}, {"CERT_HAS_EXPIRED"},
             {"ECONNREFUSED", "ETIMEDOUT"}}

classifyError(causes) ==
  IF causes \intersect TimedOut # {} THEN "timeout"
  ELSE IF causes \intersect ConnectFailures = {} THEN "transport_error"
  ELSE IF "ENOTFOUND" \in causes THEN "dns" ELSE "refused"

judge(wire) ==
  IF wire.status < 200 \/ wire.status >= 300 THEN "http_status" ELSE IF wire.body # "json" THEN "bad_json" ELSE "ok"

\* With a signal as the Plex client asks, without one as the docker probe does.
get ==
  /\ fetch.phase \in {"idle", "returned"} /\ CanAsk
  /\ \E signal \in BOOLEAN : fetch' = [IdleFetch EXCEPT !.phase = "inflight", !.signal = signal]
  /\ UNCHANGED capture

send ==
  /\ fetch.phase = "inflight" /\ ~fetch.deadline /\ ~fetch.aborted
  /\ \E status \in Statuses, body \in {"json", "page"} :
       fetch' = [fetch EXCEPT !.phase = "answered", !.wire = [NoAnswer EXCEPT !.status = status, !.body = body]]
  /\ UNCHANGED <<asked, capture>>

\* The deadline and the caller's signal both cut the request short, by a reason of
\* their own over fetch, as a reset over node:https.
WireFails ==
  /\ fetch.phase = "inflight"
  /\ \E causes \in IF ~fetch.deadline /\ ~fetch.aborted THEN Failures
                   ELSE {{"ECONNRESET"}, {IF fetch.deadline THEN "TimeoutError" ELSE "AbortError"}} :
       fetch' = [fetch EXCEPT !.phase = "failed", !.wire = [NoAnswer EXCEPT !.causes = causes]]
  /\ UNCHANGED <<asked, capture>>

FetchDeadline ==
  /\ fetch.phase = "inflight" /\ ~fetch.deadline
  /\ fetch' = [fetch EXCEPT !.deadline = TRUE]
  /\ UNCHANGED <<asked, capture>>

CallerAborts ==
  /\ fetch.signal /\ fetch.phase \in {"inflight", "answered", "failed"} /\ ~fetch.aborted
  /\ fetch' = [fetch EXCEPT !.aborted = TRUE]
  /\ UNCHANGED <<asked, capture>>

attempted ==
  IF fetch.phase = "answered" THEN judge(fetch.wire)
  ELSE IF fetch.deadline THEN "timeout" ELSE classifyError(fetch.wire.causes)

getJson ==
  /\ fetch.phase \in {"answered", "failed"}
  /\ fetch' = [fetch EXCEPT !.phase = "returned", !.reason = IF fetch.aborted THEN "AbortError" ELSE attempted]
  /\ UNCHANGED <<asked, capture>>

---------------------------------------------------------------------------

TransportInit == asked = 0 /\ capture = IdleCapture /\ fetch = IdleFetch

TransportNext ==
  \/ start \/ ChildExits \/ ChildCloses \/ CaptureDeadline \/ ChildGone
  \/ get \/ send \/ WireFails \/ FetchDeadline \/ CallerAborts \/ getJson

TransportSpec == TransportInit /\ [][TransportNext]_transportVars

TransportTypeOK ==
  /\ asked \in 0..MaxAsked
  /\ capture.phase \in {"idle", "racing", "killing", "settled"}
  /\ capture.child \in {"none", "running", "exited"} /\ capture.late \in BOOLEAN
  /\ fetch.phase \in {"idle", "inflight", "answered", "failed", "returned"}
  /\ fetch.signal \in BOOLEAN /\ fetch.deadline \in BOOLEAN /\ fetch.aborted \in BOOLEAN

\* A result says what happened: no process is left behind by one; an answer is one that
\* ended well before the deadline; a run that never started, one that was too slow, a
\* request cut short by its deadline and one its caller gave up are each told apart
\* from a target that failed (ssh.ts:38-42, 189-203; http.ts:115-129, 163-203).
ResultsAreTold ==
  /\ capture.phase = "settled" =>
       /\ capture.child # "running"
       /\ capture.reason = "ok" <=> (capture.exit.code = 0 /\ ~capture.late)
       /\ capture.reason = "spawn_error" <=> capture.child = "none"
       /\ capture.late => capture.reason = "timeout"
  /\ fetch.phase = "returned" =>
       /\ fetch.reason = "AbortError" <=> fetch.aborted
       /\ ~fetch.aborted => /\ fetch.deadline => fetch.reason = "timeout"
                            /\ fetch.reason = "ok" => fetch.wire.status \in 200..299 /\ fetch.wire.body = "json"
=============================================================================
