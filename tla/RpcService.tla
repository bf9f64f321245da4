----------------------------- MODULE RpcService -----------------------------
(***************************************************************************)
(* What a client is promised about its calls, with no endpoint, queue or   *)
(* request id in sight: calls are issued one after the other; a call is    *)
(* served at most once, and only after it was issued; the client ends it   *)
(* with the answer to this very call or gives it up, and a call given up   *)
(* may still be served.                                                    *)
(***************************************************************************)
EXTENDS Integers

CONSTANT Calls  \* the calls, numbered from 1 in the order they are issued

VARIABLES
    issued,  \* how many calls were issued
    open,    \* the calls the client waits for
    served,  \* the calls whose handler ran
    answers  \* the calls ended with an answer: <<call, call it answers>>

serviceVars == <<issued, open, served, answers>>

ServiceInit == issued = 0 /\ open = {} /\ served = {} /\ answers = {}

Issue ==
    /\ issued + 1 \in Calls
    /\ issued' = issued + 1
    /\ open' = open \cup {issued + 1}
    /\ UNCHANGED <<served, answers>>

Serve(n) ==
    /\ n \in 1..issued /\ n \notin served
    /\ served' = served \cup {n}
    /\ UNCHANGED <<issued, open, answers>>

Finish(n) ==
    /\ n \in open /\ n \in served
    /\ open' = open \ {n}
    /\ answers' = answers \cup {<<n, n>>}
    /\ UNCHANGED <<issued, served>>

GiveUp(n) ==
    /\ n \in open
    /\ open' = open \ {n}
    /\ UNCHANGED <<issued, served, answers>>

ServiceNext == Issue \/ \E n \in Calls : Serve(n) \/ Finish(n) \/ GiveUp(n)

ServiceSpec == ServiceInit /\ [][ServiceNext]_serviceVars
=============================================================================
