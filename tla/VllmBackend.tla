----------------------------- MODULE VllmBackend -----------------------------
(***************************************************************************)
(* One call of VLLMBackend.generate (app/backends/vllm_backend.py) and the *)
(* server behind it: how far the exchange got when it failed, and which    *)
(* class of app/backends/errors.py the failure becomes, "other" for an     *)
(* exception that generate does not catch.  Between the gateway and vLLM   *)
(* there may be a proxy, which answers 502, 503 or 504 by itself.          *)
(***************************************************************************)
EXTENDS Naturals

VARIABLES
  exchange,  \* how far the exchange is
  upstream,  \* what vLLM does with the request
  status,    \* the status line received, 0 before
  failure,   \* what went wrong, "none" if nothing did
  raised     \* the exception of generate; "result" if it returned one

callVars == <<exchange, upstream, status, failure, raised>>

CallFailures == {"unsent", "timeout", "reset", "cut", "not_json", "not_object", "no_choices"}
Raised == {"unavailable", "timeout", "exhausted", "protocol", "other"}
Statuses == {200, 400, 500, 502, 503, 504}

CallTypeOK ==
  /\ exchange \in {"connect", "head", "body", "over"}
  /\ upstream \in {"idle", "working", "finished"}
  /\ status \in Statuses \cup {0}
  /\ failure \in CallFailures \cup {"none", "status"}
  /\ raised \in Raised \cup {"none", "result"}

CallInit ==
  /\ exchange = "connect"
  /\ upstream = "idle"
  /\ status = 0
  /\ failure = "none"
  /\ raised = "none"

Fails(what, error) ==
  /\ exchange' = "over" /\ failure' = what /\ raised' = error
  /\ UNCHANGED <<upstream, status>>

(* urlopen connects and sends: its OSErrors are URLErrors, among them a    *)
(* timeout by its reason.                                                  *)
Connect ==
  /\ exchange = "connect"
  /\ \/ exchange' = "head" /\ UNCHANGED <<upstream, status, failure, raised>>
     \/ Fails("unsent", "unavailable")
     \/ Fails("unsent", "timeout")

(* Mutant: any broken connection counts as an unavailable server.          *)
OSErrorIsUnavailable(what) == IF what = "timeout" THEN "timeout" ELSE "unavailable"

(* Once the request is sent an OSError comes as it is: only a timeout is   *)
(* caught, a connection that is reset or cut short is not.                 *)
ErrorAfterSending(what) == IF what = "timeout" THEN "timeout" ELSE "other"

(* The server's part: it gets the request, works and finishes.             *)
Upstream ==
  /\ \/ /\ upstream = "idle" /\ exchange # "connect" /\ failure # "unsent"
        /\ upstream' = "working"
     \/ upstream = "working" /\ upstream' = "finished"
  /\ UNCHANGED <<exchange, status, failure, raised>>

(* Mutant: the head of the answer is waited for without a timeout.         *)
AwaitHeadForever ==
  /\ exchange = "head" /\ upstream = "finished"
  /\ status' \in {200, 500} /\ exchange' = "body"
  /\ UNCHANGED <<upstream, failure, raised>>

(* The status line: 200 from vLLM when it has finished, 500 when it fails, *)
(* 400 before it starts, the others from a proxy at any time.              *)
AwaitHead ==
  /\ exchange = "head"
  /\ \/ \E s \in Statuses :
          /\ s \in {200, 500} => upstream = "finished"
          /\ s = 400 => upstream = "idle"
          /\ status' = s
          /\ exchange' = "body"
          /\ UNCHANGED <<upstream, failure, raised>>
     \/ \E what \in {"timeout", "reset"} : Fails(what, ErrorAfterSending(what))

(* Mutant: the markers count with any status.                              *)
ErrorOfMarkers(marked) ==
  CASE marked                      -> "exhausted"
    [] status \in {502, 503, 504}  -> "unavailable"
    [] OTHER                       -> "protocol"

(* HTTPError: the class goes by the status and, for 500, by markers in the *)
(* body, which is empty if an OSError kept it from being read.             *)
ErrorOfStatus(marked) ==
  CASE status = 500 /\ marked      -> "exhausted"
    [] status \in {502, 503, 504}  -> "unavailable"
    [] OTHER                       -> "protocol"

ReadErrorBody ==
  /\ exchange = "body" /\ status # 200
  /\ \/ \E marked \in BOOLEAN : Fails("status", ErrorOfStatus(marked))
     \/ Fails("cut", "other")

(* The body of an answer is read and parsed.                               *)
ReadBody ==
  /\ exchange = "body" /\ status = 200
  /\ \/ \E what \in {"timeout", "reset", "cut"} : Fails(what, ErrorAfterSending(what))
     \/ Fails("not_json", "protocol")
     \/ Fails("not_object", "other")
     \/ Fails("no_choices", "protocol")
     \/ Fails("none", "result")

CallStep == Connect \/ AwaitHead \/ ReadErrorBody \/ ReadBody

CallNext == CallStep \/ Upstream

CallSpec == CallInit /\ [][CallNext]_callVars

-----------------------------------------------------------------------------
(* What the gateway tries again or sends to the fallback is done twice     *)
(* only after a timeout or a proxy's answer: whenever else the error is    *)
(* one of those, vLLM is not at work on the request and never was.         *)
RepeatsAreAmbiguous ==
  raised \in {"unavailable", "timeout"} /\ upstream # "idle" =>
    failure = "timeout" \/ status \in {502, 503, 504}

(* A result is vLLM's, and a request that ran it out of memory was tried.  *)
ResultIsUpstreams ==
  raised \in {"result", "exhausted"} => upstream = "finished"

(* The call ends: every wait of the exchange has the socket's timeout.     *)
CallEnds == []<>(raised # "none")

(* Why: what is known of the other side at each point of the exchange.     *)
CallFits ==
  /\ exchange = "connect" => upstream = "idle"
  /\ exchange # "over" => failure = "none" /\ raised = "none"
  /\ exchange \in {"connect", "head"} => status = 0
  /\ failure = "unsent" => upstream = "idle" /\ status = 0
  /\ status \in {200, 500} => upstream = "finished"
  /\ raised \in {"unavailable", "timeout"} =>
       failure \in {"unsent", "timeout"} \/ status \in {502, 503, 504}
  /\ raised \in {"result", "exhausted"} => status \in {200, 500}

(* What the caller of generate may conclude from how it ended.             *)
CallInvariant == CallTypeOK /\ CallFits /\ RepeatsAreAmbiguous /\ ResultIsUpstreams

=============================================================================
