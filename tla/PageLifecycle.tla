---------------------------- MODULE PageLifecycle ----------------------------
(***************************************************************************)
(* The page across the repeated runs of its effects: the connection cached *)
(* by initPolkadot (swarmbase-ui/app/lib/polkadot.ts) and the two effects  *)
(* of Home that connect and subscribe (swarmbase-ui/app/page.tsx).         *)
(*                                                                         *)
(* In development React runs the effects of a component, their clean-up    *)
(* and the effects again when the page is mounted (strict mode), and again *)
(* whenever a source file is saved (Fast Refresh); the state of the page   *)
(* is kept.  Each such run is numbered.  React, Next.js and @polkadot/api  *)
(* are external.                                                           *)
(***************************************************************************)
EXTENDS Naturals, FiniteSets

CONSTANT MaxRuns    \* bound: how often the effects run

ASSUME RunsAssumption == MaxRuns \in Nat \ {0}

Run == 1..MaxRuns
NoApi == 0          \* the connection that a run opens has the run's number
NoSub == 0

VARIABLES
    cached,     \* the module variable: an api or NoApi
    run,        \* runs of the effects so far; the last one is not cleaned up
    call,       \* each run's call of initPolkadot
    alive,      \* each run's variable of that name
    opened,     \* connections that were opened
    api,        \* the page's state
    effectSub,  \* the subscription of the effect for api, or NoSub
    subs,       \* all subscriptions: their api and status
    firstReady, \* history: runs begun when the first connection was ready
    hasty       \* history: a clean-up found a subscription unanswered

subVars == <<effectSub, subs, hasty>>
lifecycleVars == <<cached, run, call, alive, opened, api, subVars, firstReady>>

Idle == [pc |-> "none", result |-> NoApi]

LifecycleInit ==
    /\ cached = NoApi
    /\ run = 0
    /\ call = [r \in Run |-> Idle]
    /\ alive = [r \in Run |-> FALSE]
    /\ opened = {}
    /\ api = NoApi
    /\ effectSub = NoSub
    /\ subs = <<>>
    /\ firstReady = 0
    /\ hasty = FALSE

-----------------------------------------------------------------------------
(* initPolkadot *)

\* The connection is opened whether or not there is one.
initPolkadot_Uncached ==
    [pc |-> "cryptoWaitReady", result |-> NoApi]

\* The call up to its first await: a cached connection is returned.
initPolkadot ==
    IF cached # NoApi
    THEN [pc |-> "returned", result |-> cached]
    ELSE [pc |-> "cryptoWaitReady", result |-> NoApi]

CryptoReady(r) ==
    /\ call[r].pc = "cryptoWaitReady"
    /\ call' = [call EXCEPT ![r].pc = "isReady"]
    /\ opened' = opened \cup {r}
    /\ UNCHANGED <<cached, run, alive, api, subVars, firstReady>>

\* The cache keeps the connection that was ready last.
IsReady(r) ==
    /\ call[r].pc = "isReady"
    /\ cached' = r
    /\ call' = [call EXCEPT ![r] = [pc |-> "returned", result |-> r]]
    /\ firstReady' = IF cached = NoApi THEN run ELSE firstReady
    /\ UNCHANGED <<run, alive, opened, api, subVars>>

-----------------------------------------------------------------------------
(* The effect for api *)

\* The clean-up ends the subscription if its promise has been resolved;
\* until then unsub is undefined, and the subscription stays.
Unsubscribed ==
    [s \in DOMAIN subs |->
        IF s = effectSub /\ subs[s].status = "active"
        THEN [subs[s] EXCEPT !.status = "ended"] ELSE subs[s]]

Hasty == effectSub # NoSub /\ subs[effectSub].status = "asking"

\* The clean-up forgets to unsubscribe.
ResubscribeTo_NoCleanup(new) ==
    LET s == Cardinality(DOMAIN subs) + 1
    IN  /\ effectSub' = s
        /\ hasty' = (hasty \/ Hasty)
        /\ subs' = [i \in DOMAIN subs \cup {s} |->
                       IF i = s THEN [api |-> new, status |-> "asking"] ELSE subs[i]]

\* Clean-up of the last effect and the effect for the api of this render.
ResubscribeTo(new) ==
    LET s == Cardinality(DOMAIN subs) + 1
    IN  /\ effectSub' = s
        /\ hasty' = (hasty \/ Hasty)
        /\ subs' = [i \in DOMAIN subs \cup {s} |->
                       IF i = s THEN [api |-> new, status |-> "asking"]
                       ELSE Unsubscribed[i]]

Subscribed(s) ==
    /\ subs[s].status = "asking"
    /\ subs' = [subs EXCEPT ![s].status = "active"]
    /\ UNCHANGED <<cached, run, call, alive, opened, api, effectSub, firstReady, hasty>>

-----------------------------------------------------------------------------
(* The effect that connects *)

\* One variable alive for all runs.
RunEffects_SharedAlive ==
    /\ run < MaxRuns
    /\ run' = run + 1
    /\ alive' = [r \in Run |-> run = 0]
    /\ call' = [call EXCEPT ![run'] = initPolkadot]
    /\ IF api # NoApi THEN ResubscribeTo(api) ELSE UNCHANGED subVars
    /\ UNCHANGED <<cached, opened, api, firstReady>>

\* Clean-up of the last run, then both effects.
RunEffects ==
    /\ run < MaxRuns
    /\ run' = run + 1
    /\ alive' = [r \in Run |-> r = run']
    /\ call' = [call EXCEPT ![run'] = initPolkadot]
    /\ IF api # NoApi THEN ResubscribeTo(api) ELSE UNCHANGED subVars
    /\ UNCHANGED <<cached, opened, api, firstReady>>

\* The state is set by a run that is alive; the page is rendered, and the
\* effect for api runs if the connection is another one.
Connected(r) ==
    /\ call[r].pc = "returned"
    /\ call' = [call EXCEPT ![r].pc = "done"]
    /\ LET new == IF alive[r] THEN call[r].result ELSE api
       IN  /\ api' = new
           /\ IF new # api THEN ResubscribeTo(new) ELSE UNCHANGED subVars
    /\ UNCHANGED <<cached, run, alive, opened, firstReady>>

-----------------------------------------------------------------------------
Answers ==
    \/ \E r \in Run : CryptoReady(r) \/ IsReady(r) \/ Connected(r)
    \/ \E s \in DOMAIN subs : Subscribed(s)

LifecycleNext == RunEffects \/ Answers

\* The websocket answers; nobody has to save a file.
LifecycleSpec ==
    LifecycleInit /\ [][LifecycleNext]_lifecycleVars /\ WF_lifecycleVars(Answers)

-----------------------------------------------------------------------------
(* Properties *)

Active == {s \in DOMAIN subs : subs[s].status = "active"}

\* Racing calls of initPolkadot open a connection each, but only the runs
\* that had begun when the first connection was ready: from then on every
\* run lives on what is cached, however often a file is saved.
ConnectionsBounded == cached # NoApi => \A r \in opened : r <= firstReady

\* As long as no clean-up came before its subscription was answered, the page
\* hears every event once, through changes of the connection and repeated
\* runs of the effects alike.
HearsEventsOnce == ~hasty => Cardinality(Active) <= 1

\* Whichever call of initPolkadot is answered first, and however many runs
\* are cleaned up in between, a page that was mounted comes to hear events on
\* the connection in its state.
PageListens == (run > 0) ~> (api # NoApi /\ effectSub \in Active)
=============================================================================
