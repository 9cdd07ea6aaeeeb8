----------------------------- MODULE ModuleCall -----------------------------
(***************************************************************************)
(* The calling side of the module bus, ModuleCaller of                     *)
(* bus/module_caller.go, composed with the serving side (ModuleRuntime)    *)
(* and with the host that relays between them.  The caller makes its calls *)
(* one at a time: it sends the fragments of the request without ever       *)
(* waiting for room, then polls for the reply, and on the way out of a     *)
(* failed call it tries to cancel it.                                      *)
(*                                                                         *)
(* The path from the caller to the module is the FIFO inbound: whether the *)
(* host or the module is slow makes no difference to either end.  On the   *)
(* way back the two rings are kept apart, because the host answers some    *)
(* calls itself and a reply may still be on its way when the caller finds  *)
(* its own ring empty.                                                     *)
(***************************************************************************)
EXTENDS ModuleRuntime

CONSTANTS
    Refused,        \* the calls the host refuses: not served, or not granted
    InboxCap        \* capacity of the caller's inbound ring

(* The correlation of a call is its number: Call counts them.  It refuses a *)
(* request that is too long before it sends any of it.                      *)
ASSUME NumberedAssumption ==
    /\ Calls = 1 .. Cardinality(Calls)
    /\ \A c \in Calls : CallOf[c].corr = c /\ CallOf[c].type = "request"
                        /\ CallOf[c].frags <= MaxBody
ASSUME CallerAssumption == Refused \subseteq Calls /\ InboxCap \in Nat \ {0}

VARIABLES
    transit,    \* the replies in the module's outbound ring: records with a call, a
                \* status, the number of the part and whether more parts follow
    inbox,      \* the caller's inbound ring
    cpc,        \* where the caller is
    current,    \* m.correlation: the number of the latest call
    got,        \* the response so far, in fragments
    outcome,    \* what each call returned: [Calls -> record of status and body]
    refusal     \* [Calls -> status]: how the host first refused it, history

caller == <<cpc, current, got, outcome>>
served == <<outbound, env, mpc, now, assemblies, jobs, done, reply, replies, exit>>
callVars == <<vars, transit, inbox, caller, refusal>>

Refusals == {"capability_absent", "rejected"}
Reasons == {"unsent", "ctx", "expired", "epoch", "runtime"}
-----------------------------------------------------------------------------
(* ModuleCaller. *)

Begin ==
    /\ cpc = "idle" /\ current + 1 \in Calls
    /\ ~Expired(current + 1, clock)
    /\ current' = current + 1
    /\ cpc' = "send"
    /\ got' = <<>>
    /\ UNCHANGED <<vars, transit, inbox, outcome, refusal>>

Ends(label, status, body) ==
    /\ cpc' = label
    /\ outcome' = [outcome EXCEPT ![current] = [status |-> status, body |-> body]]

(* emit has no room, or finds the host restarted. *)
CannotSend == epochChanged \/ Len(inbound) = InboundCap

(* send: one RequestFragment. *)
Send ==
    /\ cpc = "send" /\ ~epochChanged
    /\ SendFragment(current)
    /\ cpc' = IF sent'[current] = CallOf[current].frags THEN "wait" ELSE "send"
    /\ UNCHANGED <<transit, inbox, current, got, outcome, refusal>>

(* A bug: a fragment that does not fit is lost, and Call goes on. *)
SendLoses ==
    /\ cpc = "send" /\ CannotSend
    /\ cpc' = "wait"
    /\ UNCHANGED <<vars, transit, inbox, current, got, outcome, refusal>>

(* send fails: Call returns, without a cancel. *)
SendFails ==
    /\ cpc = "send" /\ CannotSend
    /\ Ends("idle", "unsent", <<>>)
    /\ UNCHANGED <<vars, transit, inbox, current, got, refusal>>

(* awaitReply: Poll reports that the host has restarted. *)
AwaitEpoch ==
    /\ cpc = "wait" /\ epochChanged
    /\ Ends("cancel", "epoch", <<>>)
    /\ UNCHANGED <<vars, transit, inbox, current, got, refusal>>

(* awaitReply finds nothing: only then it looks at its context and deadline. *)
AwaitNothing(reason) ==
    /\ cpc = "wait" /\ ~epochChanged /\ inbox = <<>>
    /\ Ends("cancel", reason, <<>>)
    /\ UNCHANGED <<vars, transit, inbox, current, got, refusal>>

AwaitCtx == AwaitNothing("ctx")

(* A bug: the deadline bounds the wait for the rest of a reply only. *)
AwaitDeadlineBegun == got # <<>> /\ AwaitNothing("expired") /\ Expired(current, clock)

AwaitDeadline == AwaitNothing("expired") /\ Expired(current, clock)

(* A bug: the correlation of a frame is not looked at. *)
MineUnfiltered(f) == TRUE

Mine(f) == f.call = current

(* awaitReply takes a frame: another call's, a refusal, or a fragment. *)
AwaitFrame ==
    /\ cpc = "wait" /\ ~epochChanged /\ inbox # <<>>
    /\ inbox' = Tail(inbox)
    /\ LET f == Head(inbox)
           body == Append(got, [call |-> f.call, part |-> f.part])
       IN
        \/ ~Mine(f) /\ UNCHANGED <<cpc, got, outcome>>
        \/ Mine(f) /\ f.status # "ok" /\ Ends("cancel", f.status, <<>>) /\ UNCHANGED got
        \/ /\ Mine(f) /\ f.status = "ok"
           /\ got' = body
           /\ IF Len(body) > MaxBody THEN Ends("cancel", "runtime", <<>>)
              ELSE IF ~f.more THEN Ends("idle", "ok", body)
              ELSE UNCHANGED <<cpc, outcome>>
    /\ UNCHANGED <<vars, transit, current, refusal>>

(* Call, on the way out of a failed call; the result of Cancel is ignored. *)
Cancel ==
    /\ cpc = "cancel"
    /\ cpc' = "idle"
    /\ \/ ~epochChanged /\ SendCancel(current)
       \/ CannotSend /\ UNCHANGED vars
    /\ UNCHANGED <<transit, inbox, current, got, outcome, refusal>>
-----------------------------------------------------------------------------
(* The host. *)

(* It relays a reply, which thereby leaves the module's ring ... *)
Relay ==
    /\ transit # <<>> /\ Len(inbox) < InboxCap
    /\ HostTakes
    /\ transit' = Tail(transit)
    /\ inbox' = Append(inbox, Head(transit))
    /\ UNCHANGED <<caller, refusal>>

(* ... and answers a request it refuses itself, on a kind of its own. *)
HostRefuses ==
    /\ inbound # <<>> /\ Head(inbound).call \in Refused
    /\ inbound' = Tail(inbound)
    /\ LET c == Head(inbound).call IN
        \/ Head(inbound).type = "cancel" /\ UNCHANGED <<inbox, refusal>>
        \/ /\ Head(inbound).type = "request" /\ Len(inbox) < InboxCap
           /\ \E status \in Refusals :
                /\ inbox' = Append(inbox, [call |-> c, status |-> status,
                                           part |-> 1, more |-> FALSE])
                /\ refusal' = [refusal EXCEPT ![c] = IF @ = "none" THEN status ELSE @]
    /\ UNCHANGED <<served, transit, caller>>

(* The module takes its step; a reply that it emits is in its ring. *)
Emitted == [call |-> reply.call, status |-> reply.status,
            part |-> IF reply.status = "ok" THEN CallOf[reply.call].resp - reply.left + 1 ELSE 1,
            more |-> reply.left > 1]

Module ==
    /\ \/ /\ mpc = "poll" /\ ~epochChanged /\ inbound # <<>>
                => Head(inbound).call \notin Refused
          /\ Loop
       \/ Returned
    /\ transit' = IF outbound' = outbound THEN transit ELSE Append(transit, Emitted)
    /\ UNCHANGED <<inbox, caller, refusal>>

Idle(A) == A /\ UNCHANGED <<transit, inbox, caller, refusal>>
-----------------------------------------------------------------------------
CallInit ==
    /\ Init
    /\ transit = <<>> /\ inbox = <<>>
    /\ cpc = "idle" /\ current = 0 /\ got = <<>>
    /\ outcome = [c \in Calls |-> [status |-> "none", body |-> <<>>]]
    /\ refusal = [c \in Calls |-> "none"]

(* What the caller does by itself, once it is in a call. *)
Caller == Send \/ SendFails \/ AwaitEpoch \/ AwaitDeadline \/ AwaitFrame \/ Cancel

CallNext ==
    \/ Begin \/ Caller \/ AwaitCtx
    \/ Relay \/ HostRefuses \/ Module
    \/ Idle(HostRestart) \/ Idle(Stop) \/ Idle(Tick)
    \/ \E k \in Corrs : Idle(Handler(k))

(* The caller, the module and the host run, and time passes. *)
CallSpec ==
    /\ CallInit /\ [][CallNext]_callVars
    /\ WF_callVars(Caller) /\ WF_callVars(Relay) /\ WF_callVars(HostRefuses)
    /\ WF_callVars(Module) /\ WF_callVars(Idle(Tick))
    /\ \A k \in Corrs : WF_callVars(Idle(Handler(k)))
-----------------------------------------------------------------------------
(* A call returns the whole answer to itself: the module's first reply, or the *)
(* host's first refusal, whatever late replies of earlier calls arrive before  *)
(* it, or the reason why the caller gave up.  An ok outcome that is not the    *)
(* response of this very call, complete and in order, is no answer.            *)
WholeResponse(c) == [n \in 1 .. CallOf[c].resp |-> [call |-> c, part |-> n]]

phaseOf == [c \in Calls |->
                IF c > current THEN "new"
                ELSE IF outcome[c].status = "none" THEN "open" ELSE "closed"]
answerOf == [c \in Calls |->
                IF c \in Refused THEN refusal[c]
                ELSE IF replies[c] = <<>> THEN "none" ELSE Head(replies[c])]
outcomeOf == [c \in Calls |->
                IF outcome[c].status = "ok" /\ outcome[c].body # WholeResponse(c) THEN "garbled"
                ELSE outcome[c].status]

Promise == INSTANCE RemoteCall WITH
                Answers <- Status \cup Refusals,
                phase <- phaseOf, answer <- answerOf, outcome <- outcomeOf

ImplementsRemoteCall == Promise!Spec

(* The module sees of the path to it, and of the calls that were made, what    *)
(* the host passes on, and is otherwise the runtime by itself.                 *)
PassedOn(frames) ==
    LET upTo[n \in 0 .. Len(frames)] ==
            IF n = 0 THEN <<>>
            ELSE IF frames[n].call \in Refused THEN upTo[n - 1]
            ELSE Append(upTo[n - 1], frames[n])
    IN  upTo[Len(frames)]

sentOn == [c \in Calls |-> IF c \in Refused THEN 0 ELSE sent[c]]

Serving == INSTANCE ModuleRuntime WITH
                inbound <- PassedOn(inbound), sent <- sentOn, gaveUp <- gaveUp \ Refused

ImplementsRuntime == Serving!Spec

(* A request that was given up in the middle of its send takes one of the     *)
(* moduleMaxInFlight places for assemblies for good.  As long as there are    *)
(* fewer of those, no call is answered twice, and no handler gets a body with *)
(* a piece missing or of another call, however the calls that time out and    *)
(* are cancelled overlap with the next ones.                                  *)
Abandoned == {c \in Calls : outcome[c].status = "unsent"}

ServedWhole ==
    Cardinality(Abandoned) < moduleMaxInFlight => AnsweredAtMostOnce /\ WholeBody

InFlight(k) == \E i \in 1 .. Len(inbound) : CallOf[inbound[i].call].corr = k

(* A request that the module holds in part is still being sent, or has frames *)
(* on the way, or was abandoned in the middle because a ring was full (no     *)
(* cancel follows then): nothing else leaves an assembly behind, which would  *)
(* take one of the moduleMaxInFlight places for good.                         *)
OnlyUnsentIsOrphaned ==
    \A k \in Assemblies :
        InFlight(k) \/ outcome[k].status = "unsent" \/ (current = k /\ cpc = "send")

(* Once the cancel of a call has gone out, the handler of that call learns of *)
(* it: it is not left working with a cancel that has passed it by.            *)
CancelReachesHandler ==
    \A k \in Jobs \cap gaveUp : jobs[k].phase = "running" => jobs[k].cancelled \/ InFlight(k)

(* A call with a deadline returns, even if the module stops, dies or never    *)
(* answers, as long as the replies for others that keep it busy are finitely  *)
(* many: the deadline is only looked at when there is nothing to read.        *)
CallReturns ==
    \A c \in Calls :
        current = c /\ CallOf[c].deadline # 0 ~> outcome[c].status # "none"
=============================================================================
