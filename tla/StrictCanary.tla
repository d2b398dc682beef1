------------------------------ MODULE StrictCanary ------------------------------
(* The canaries an operator runs against a live gateway to see that unmapped  *)
(* identities are refused: scripts/telegram-strict-canary.py and              *)
(* scripts/slack-strict-canary.py.  Each binds an identity, sends a webhook   *)
(* from it and one from an identity that is not bound, reads the gateway's    *)
(* counter of refusals before and after, and says by its exit code whether    *)
(* enforcement works.  Meanwhile others send messages and edit bindings, the  *)
(* cache ages and the gateway may restart.                                    *)
EXTENDS InboundIdentity, Integers

CONSTANTS
    Mapped, Unmapped, \* the deliveries the script sends; the rest is traffic
    TrafficKinds,     \* kinds of the other messages on Telegram
    MaxRejected,      \* bound of the refusals on other channels
    Binding           \* its own edit; the rest is other people's

(* The script binds the identity its mapped message comes from; None is no    *)
(* reading of the counter and no answer of the binding routes.                *)
ASSUME CanaryAssumption ==
    /\ Mapped \in Deliveries /\ Unmapped \in Deliveries /\ Mapped # Unmapped
    /\ Binding \in Edits /\ EditOf[Binding].kind = "upsert" /\ EditOf[Binding].id = IdOf[Mapped]
    /\ Deliveries \cap Edits = {}
    /\ None \notin Int /\ None \notin {"idle", "changed", "ok", "failed", "lost"}

VARIABLES
    channel,  \* which of the two scripts: "telegram" or "slack"
    step,     \* the request it is about to make, or awaits
    sent,     \* requests that have been made, the script's and the others'
    binding_resp, \* what it got for each request: an answer, or None
    mapped_resp,
    unmapped_resp,
    strict_before, \* the counter, or None when diagnostics failed
    strict_after,
    exit      \* None while it runs

canaryVars == <<channel, step, sent, binding_resp, mapped_resp, unmapped_resp, strict_before, strict_after, exit>>
gateway == <<kind, strict, stored, cache, rejected, now, restarted, lookup, edit>>
responses == <<binding_resp, mapped_resp, unmapped_resp>>
vars == <<identityVars, canaryVars>>

(* Telegram's mapped message comes from a private chat, the unmapped one from *)
(* a chat of the type the operator chose; Slack's are direct messages.        *)
KindsOf(w) ==
    CASE channel = "slack" -> {"slack"}
      [] channel = "telegram" /\ w = Mapped -> {"private"}
      [] channel = "telegram" /\ w = Unmapped -> {"private", "group"}
      [] OTHER -> TrafficKinds

(* update_id_base may be one that was used before.                            *)
Init ==
    /\ channel \in {"telegram", "slack"}
    /\ IdentityInit
    /\ \A w \in Deliveries : kind[w] \in KindsOf(w)
    /\ step = IF channel = "telegram" THEN "secret" ELSE "binding"
    /\ sent = (Deliveries \ {Mapped, Unmapped}) \cup (Edits \ {Binding})
    /\ binding_resp = None /\ mapped_resp = None /\ unmapped_resp = None
    /\ strict_before = None /\ strict_after = None /\ exit = None

-----------------------------------------------------------------------------
(* The secret token: given on the command line, or looked up with psql and,   *)
(* when that yields nothing, with libpq.  A psql that times out raises, and   *)
(* so does a libpq that cannot connect.                                       *)
Exit(code) == step' = "exited" /\ exit' = code
ResolveSecret ==
    /\ step = "secret"
    /\ \/ step' = "binding" /\ exit' = exit
       \/ Exit(1)
    /\ UNCHANGED <<identityVars, channel, sent, responses, strict_before, strict_after>>

Send(from, to, request) ==
    /\ step = from /\ step' = to
    /\ sent' = sent \cup {request}
    /\ UNCHANGED <<identityVars, channel, responses, strict_before, strict_after, exit>>

(* A response comes once the gateway has answered; without one, the request   *)
(* times out or fails, whatever the gateway goes on to do with it.            *)
Response(resp, ready, value) ==
    \/ ready /\ NoFault /\ resp = value
    \/ Fail /\ resp = None

SendBinding == Send("binding", "await_binding", Binding)
BindingAnswered == edit[Binding] \in {"ok", "failed"}
AwaitBinding ==
    /\ step = "await_binding" /\ step' = "before"
    /\ Response(binding_resp', BindingAnswered, edit[Binding])
    /\ UNCHANGED <<gateway, channel, sent, mapped_resp, unmapped_resp, strict_before, strict_after, exit>>

DiagBefore ==
    /\ step = "before" /\ step' = "mapped"
    /\ Response(strict_before', TRUE, rejected)
    /\ UNCHANGED <<gateway, channel, sent, responses, strict_after, exit>>

Answered(w) == answer[w] \notin {None, "lost"}
SendMapped == Send("mapped", "await_mapped", Mapped)
AwaitMapped ==
    /\ step = "await_mapped" /\ step' = "unmapped"
    /\ Response(mapped_resp', Answered(Mapped), answer[Mapped])
    /\ UNCHANGED <<gateway, channel, sent, binding_resp, unmapped_resp, strict_before, strict_after, exit>>
SendUnmapped == Send("unmapped", "await_unmapped", Unmapped)
AwaitUnmapped ==
    /\ step = "await_unmapped" /\ step' = "after"
    /\ Response(unmapped_resp', Answered(Unmapped), answer[Unmapped])
    /\ UNCHANGED <<gateway, channel, sent, binding_resp, mapped_resp, strict_before, strict_after, exit>>

DiagAfter ==
    /\ step = "after" /\ step' = "report"
    /\ Response(strict_after', TRUE, rejected)
    /\ UNCHANGED <<gateway, channel, sent, responses, strict_before, exit>>

Accepted(resp) == resp \in {"ok", "duplicate", "unauthorized"}      \* all are 2xx
MutantIsStrictReject(resp) == resp \in {"strict_reject", "forbidden"}       \* any 403
IsStrictReject(resp) == resp = "strict_reject"
StrictDelta == IF strict_before # None /\ strict_after # None THEN strict_after - strict_before ELSE None

(* Telegram's script takes a rise of the counter for a sign as well.          *)
StrictSignal ==
    \/ IsStrictReject(unmapped_resp)
    \/ channel = "telegram" /\ StrictDelta # None /\ StrictDelta > 0

ExitCode ==
    CASE binding_resp # "ok" -> 2
      [] binding_resp = "ok" /\ ~Accepted(mapped_resp) -> 3
      [] binding_resp = "ok" /\ Accepted(mapped_resp) /\ ~StrictSignal -> 4
      [] OTHER -> 0
Report ==
    /\ step = "report"
    /\ Exit(ExitCode)
    /\ UNCHANGED <<identityVars, channel, sent, responses, strict_before, strict_after>>

Canary ==
    \/ ResolveSecret \/ SendBinding \/ AwaitBinding \/ DiagBefore \/ SendMapped \/ AwaitMapped
    \/ SendUnmapped \/ AwaitUnmapped \/ DiagAfter \/ Report

-----------------------------------------------------------------------------
(* A message on another channel that is strict is refused; the counter is one *)
(* for all channels.                                                          *)
RefuseElsewhere ==
    /\ strict \ {channel} # {} /\ rejected < MaxRejected
    /\ rejected' = rejected + 1
    /\ UNCHANGED <<kind, strict, stored, cache, now, restarted, faults, lookup, edit>>

(* The gateway is followed for as long as the script runs.                    *)
Gateway ==
    /\ exit = None
    /\ \/ \E w \in Deliveries \cap sent : Receive(w)
       \/ \E w \in Deliveries : Webhook(w)
       \/ \E e \in Edits \cap sent : ChangeBinding(e)
       \/ \E e \in Edits : Invalidate(e)
       \/ Tick \/ Restart \/ RefuseElsewhere
    /\ UNCHANGED canaryVars

Next == Gateway \/ Canary
Spec == Init /\ [][Next]_vars

-----------------------------------------------------------------------------
(* A canary that reports success has seen enforcement: the gateway refuses    *)
(* unmapped identities on a strict channel, on Slack's own channel for        *)
(* Slack's script, and the mapped message was let through.  A 403 for another *)
(* reason, a restart in between or a lost answer does not make it succeed.    *)
SuccessMeansStrict ==
    exit = 0 =>
        /\ IF channel = "slack" THEN "slack" \in strict ELSE strict # {}
        /\ binding_resp = "ok" /\ mapped_resp # "strict_reject"

(* A binding that was acknowledged takes effect at once: the mapped message   *)
(* is refused as unmapped only if somebody else changed the binding since, or *)
(* a lookup already under way put the old answer back into the cache.         *)
Others == Edits \ {Binding}
BindingTakesEffect ==
    mapped_resp = "strict_reject" /\ binding_resp = "ok"
        => \/ IdOf[Mapped] \in raced
           \/ \E e \in Others : edit[e] \notin {"idle", "failed"}

(* The counter agrees with the answers: when the gateway did not restart, a   *)
(* refusal the script was told of lies between its two readings.              *)
RefusalsCounted ==
    /\ exit # None /\ ~restarted /\ StrictDelta # None
    => StrictDelta >= (IF IsStrictReject(mapped_resp) THEN 1 ELSE 0) + (IF IsStrictReject(unmapped_resp) THEN 1 ELSE 0)
=============================================================================
