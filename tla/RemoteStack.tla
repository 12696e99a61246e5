------------------------------ MODULE RemoteStack ------------------------------
(***************************************************************************)
(* The remote middleware stack of transports/streamable_http.wrap_remote_  *)
(* app, outermost first: protected-resource metadata, bearer validation,   *)
(* RateLimit, RequestLimits (declared size, streamed size, timeout), and   *)
(* the session-manager app, an external handler that may start a response, *)
(* end, fail or never finish.                                              *)
(*                                                                         *)
(* RateLimit's variables are its state; the ones below follow each call    *)
(* through the other layers.  status[r] is what the outermost send saw: the *)
(* statuses of every http.response.start of the call, in order.            *)
(***************************************************************************)
EXTENDS RateLimit

CONSTANT Timeout      \* request_timeout_seconds, in ticks; positive

ASSUME RemoteStackAssumption == Timeout \in Nat \ {0}

VARIABLES at,        \* per call: the layer that is working on it
          method,    \* per call: its HTTP method
          deadline,  \* per call: when move_on_after cancels it
          status     \* per call: response starts sent so far

ownVars   == <<at, method, deadline, status>>
stackVars == <<vars, ownVars>>

Methods == {"GET", "POST"}
Layers  == {"client", "verifying", "refusing", "handler", "leaving", "closed"}

StackInit ==
  /\ Init
  /\ at = [r \in Requests |-> "client"]
  /\ method = [r \in Requests |-> "GET"]
  /\ deadline = [r \in Requests |-> 0]
  /\ status = [r \in Requests |-> <<>>]

To(r, layer)     == at' = [at EXCEPT ![r] = layer]
Respond(r, code) == status' = [status EXCEPT ![r] = Append(@, code)]
Started(r)       == status[r] # <<>>

(***************************************************************************)
(* Outside the limiter: the well-known document is served without a token, *)
(* a call without one is challenged, and the others wait for a worker      *)
(* thread to verify theirs.                                                *)
(***************************************************************************)
AnsweredOutside(r) ==
  /\ at[r] = "client"
  /\ \E code \in {200, 401} : Respond(r, code)
  /\ To(r, "closed")
  /\ UNCHANGED <<vars, method, deadline>>

Present(r) ==
  /\ at[r] = "client"
  /\ \E m \in Methods : method' = [method EXCEPT ![r] = m]
  /\ To(r, "verifying")
  /\ UNCHANGED <<vars, deadline, status>>

VerifyFails(r) ==
  /\ at[r] = "verifying"
  /\ \E code \in {401, 403} : Respond(r, code)
  /\ To(r, "closed")
  /\ UNCHANGED <<vars, method, deadline>>

(* No await separates the principal from the limiter's critical section,   *)
(* nor that from the request limits.  The bound keeps deadlines in range.  *)
Verified(r) ==
  /\ at[r] = "verifying"
  /\ now + Timeout <= MaxTime
  /\ \E p \in Principals : Reserve(r, p)
  /\ IF pc'[r] = "running"
     THEN \/ /\ To(r, "handler")
             /\ deadline' = [deadline EXCEPT ![r] = now + Timeout]
             /\ UNCHANGED status
          \/ /\ Respond(r, 413)     \* the declared Content-Length is over the cap
             /\ To(r, "leaving")
             /\ UNCHANGED deadline
     ELSE /\ To(r, "refusing")
          /\ UNCHANGED <<deadline, status>>
  /\ UNCHANGED method

Refused(r) ==
  /\ at[r] = "refusing"
  /\ Refuse(r) \/ RefuseFails(r)
  /\ Respond(r, 429)
  /\ To(r, "closed")
  /\ UNCHANGED <<method, deadline>>

(***************************************************************************)
(* RequestLimits and the handler inside it                                 *)
(***************************************************************************)
HandlerStarts(r) ==
  /\ at[r] = "handler"
  /\ ~Started(r)
  /\ Respond(r, 200)
  /\ UNCHANGED <<vars, at, method, deadline>>

HandlerEnds(r) ==
  /\ at[r] = "handler"
  /\ To(r, "leaving")
  /\ UNCHANGED <<vars, method, deadline, status>>

(* The limits layer answers for a handler that has not started to. *)
AnswerFor(r, code) == IF Started(r) THEN UNCHANGED status ELSE Respond(r, code)

(* The streamed body crossed the cap and the handler let the error through. *)
BodyTooLarge(r) ==
  /\ at[r] = "handler"
  /\ AnswerFor(r, 413)
  /\ To(r, "leaving")
  /\ UNCHANGED <<vars, method, deadline>>

(* Slip: 504 whatever has been sent. *)
TimesOutLoudly(r) ==
  /\ at[r] = "handler"
  /\ method[r] # "GET"
  /\ now >= deadline[r]
  /\ Respond(r, 504)
  /\ To(r, "leaving")
  /\ UNCHANGED <<vars, method, deadline>>

(* Slip: a call whose response has started is no longer timed. *)
TimesOutUnstarted(r) ==
  /\ at[r] = "handler"
  /\ method[r] # "GET"
  /\ now >= deadline[r]
  /\ ~Started(r)
  /\ Respond(r, 504)
  /\ To(r, "leaving")
  /\ UNCHANGED <<vars, method, deadline>>

(* move_on_after covers everything but the long-lived GET stream. *)
TimesOut(r) ==
  /\ at[r] = "handler"
  /\ method[r] # "GET"
  /\ now >= deadline[r]
  /\ AnswerFor(r, 504)
  /\ To(r, "leaving")
  /\ UNCHANGED <<vars, method, deadline>>

Leave(r) ==
  /\ at[r] = "leaving"
  /\ Release(r)
  /\ To(r, "closed")
  /\ UNCHANGED <<method, deadline, status>>

StackNext ==
  \/ Tick /\ UNCHANGED ownVars
  \/ \E r \in Requests :
       \/ AnsweredOutside(r) \/ Present(r) \/ VerifyFails(r) \/ Verified(r) \/ Refused(r)
       \/ HandlerStarts(r) \/ HandlerEnds(r) \/ BodyTooLarge(r) \/ TimesOut(r)
       \/ Leave(r)

(* The event loop runs timers and unwinds finished calls; time passes.     *)
(* Nothing is assumed of the handler or of the client.                     *)
StackSpec ==
  /\ StackInit /\ [][StackNext]_stackVars
  /\ WF_stackVars(Tick /\ UNCHANGED ownVars)
  /\ \A r \in Requests : WF_stackVars(TimesOut(r)) /\ WF_stackVars(Leave(r))

(***************************************************************************)
(* Properties                                                              *)
(***************************************************************************)

(* request_limits.py: a 504 or 413 is synthesized only if the handler has  *)
(* not committed a response, whichever of start, end, oversized chunk and  *)
(* timeout comes first: no call ever starts two responses.                 *)
OneResponse == \A r \in Requests : Len(status[r]) <= 1

(* The timeout bounds how long a call other than a GET holds its           *)
(* principal's slot, even if its handler never returns.                    *)
TimeoutFreesSlot ==
  \A r \in Requests :
    (pc[r] = "running" /\ method[r] = "POST") ~> (pc[r] = "done")
================================================================================
