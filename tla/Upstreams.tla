----------------------------- MODULE Upstreams ------------------------------
(***************************************************************************)
(* One `engram mcp` process and its child processes: how the supervisor    *)
(* connects them (upstream/supervisor.py, upstream/client.py), how their   *)
(* tools become tools of Engram (tools/registry.py, tools/proxy.py,        *)
(* server.py), proxied calls, engram.health, and the way down.             *)
(*                                                                         *)
(* Nothing is reconnected: an upstream that dies stays in the table of     *)
(* clients, and calls to it raise.  No call has a timeout: an upstream     *)
(* that hangs keeps whoever awaits it.                                     *)
(***************************************************************************)
EXTENDS Integers, Sequences, FiniteSets

CONSTANTS
  Order,     \* the names of the upstreams, in the order of specs_from_config
  Listings,  \* Listings[u]: the lists of tools u may announce
  Short,     \* Short[u][t]: the short name of tool t in the namespace of u
  Probe,     \* PROBE_TOOL
  Call,
  MaxTrouble, \* how many upstreams may die or hang
  None

Upstream == {Order[i] : i \in DOMAIN Order}

ASSUME UpstreamsAssumption ==
  /\ Order \in Seq(Upstream) /\ Cardinality(Upstream) = Len(Order) /\ "serena" \in Upstream
  /\ \A u \in Upstream : \A l \in Listings[u] : l \subseteq DOMAIN Short[u]
  /\ MaxTrouble \in Nat
  /\ None \notin Upstream /\ None \notin {"ok", "degraded", "down"}

VARIABLES
  phase,    \* "connect", "activate", "check", "onboard", "register", "serve", "close", "down";
            \* "aborted": interrupted before __aenter__ returned
  turn,     \* the position in Order of the upstream that is being connected
  child,    \* the process of each upstream: "none", "up", "hung", "dead", "gone" (closed)
  session,  \* upstreams with a ClientSession
  clients,  \* keys of supervisor.clients
  tools,    \* UpstreamClient.tools
  pc,       \* what each call is doing
  at,       \* the upstream it awaits
  report,   \* engram.health: what it found
  status,
  began     \* history: the upstreams that were up when the call began

process == <<phase, turn, session, clients, tools>>
health  == <<report, status>>
upvars  == <<process, child, pc, at, health, began>>

Ended == {"ok", "failed", "lost"}
Finding == {"pending", "ok", "assumed", "raised", "error", "absent"}

UpstreamsTypeOK(labels) ==
  /\ phase \in {"connect", "activate", "check", "onboard", "register", "serve", "close", "down",
               "aborted"}
  /\ turn \in DOMAIN Order
  /\ child \in [Upstream -> {"none", "up", "hung", "dead", "gone"}]
  /\ session \subseteq Upstream /\ clients \subseteq Upstream
  /\ \A u \in Upstream : tools[u] = {} \/ tools[u] \in Listings[u]
  /\ pc \in [Call -> {"new"} \cup labels \cup Ended]
  /\ at \in [Call -> Upstream \cup {None}]
  /\ report \in [Call -> [Upstream -> Finding]]
  /\ status \in [Call -> {"ok", "degraded", "down", None}]
  /\ began \in [Call -> SUBSET Upstream]

UpstreamsInit ==
  /\ phase = "connect" /\ turn = 1
  /\ child = [u \in Upstream |-> "none"]
  /\ session = {} /\ clients = {} /\ tools = [u \in Upstream |-> {}]
  /\ pc = [r \in Call |-> "new"] /\ at = [r \in Call |-> None]
  /\ report = [r \in Call |-> [u \in Upstream |-> "pending"]]
  /\ status = [r \in Call |-> None]
  /\ began = [r \in Call |-> {}]

-----------------------------------------------------------------------------
(* A request to an upstream *)

Replies(u) == u \in clients /\ child[u] = "up"
Raises(u)  == u \in clients /\ child[u] \in {"dead", "gone"}
Silent(u)  == u \in clients /\ child[u] = "hung"

Up == {u \in Upstream : child[u] = "up"}
Goto(r, l) == pc' = [pc EXCEPT ![r] = l]
Awaits(r, u) == at' = [at EXCEPT ![r] = u]

-----------------------------------------------------------------------------
(* Supervisor.__aenter__ *)

Current == Order[turn]

FaultyNextSpec == turn' = turn + 1 /\ phase' = (IF turn > Len(Order) THEN "activate" ELSE phase)
NextSpec ==
  IF turn < Len(Order) THEN turn' = turn + 1 /\ UNCHANGED phase
  ELSE phase' = "activate" /\ UNCHANGED turn

\* stdio_client
Spawn ==
  /\ phase = "connect" /\ child[Current] = "none"
  /\ child' = [child EXCEPT ![Current] = "up"]
  /\ UNCHANGED process

\* initialize
Initialize ==
  /\ phase = "connect" /\ child[Current] = "up" /\ Current \notin session
  /\ session' = session \cup {Current}
  /\ UNCHANGED <<phase, turn, child, clients, tools>>

\* list_tools; connect returns and the client is kept.
ListTools ==
  /\ phase = "connect" /\ child[Current] = "up" /\ Current \in session
  /\ \E l \in Listings[Current] : tools' = [tools EXCEPT ![Current] = l]
  /\ clients' = clients \cup {Current}
  /\ NextSpec
  /\ UNCHANGED <<child, session>>

\* disconnect, which ends the child as well
Closed(u) ==
  /\ child' = [child EXCEPT ![u] = IF @ = "none" THEN @ ELSE "gone"]
  /\ session' = session \ {u}

\* The command does not exist, the child dies, or it answers one of the two requests with an
\* error: connect cleans up and the spec is skipped.
ConnectFails ==
  /\ phase = "connect" /\ child[Current] # "hung"
  /\ Closed(Current)
  /\ NextSpec
  /\ UNCHANGED <<clients, tools>>

\* _warm_up_serena: every call is awaited and whatever it raises is only logged.
WarmUpTool == [activate |-> "activate_project", check |-> "check_onboarding_performed",
               onboard |-> "onboarding"]
Asks(step) == "serena" \in clients /\ WarmUpTool[step] \in tools["serena"]

WarmUp ==
  /\ phase \in DOMAIN WarmUpTool
  /\ Asks(phase) => ~Silent("serena")
  /\ \/ phase = "activate" /\ phase' = "check"
     \/ \* not performed
        phase = "check" /\ Asks("check") /\ Replies("serena") /\ Asks("onboard")
        /\ phase' = "onboard"
     \/ phase \in {"check", "onboard"} /\ phase' = "register"
  /\ UNCHANGED <<turn, child, session, clients, tools>>

\* build_registry, register_proxy: two tools of one upstream with the same short name raise
\* DuplicateToolError, and the way out of `async with` closes every client.
Collides(u) == \E t1, t2 \in tools[u] : t1 # t2 /\ Short[u][t1] = Short[u][t2]
FaultyAfterRegister == IF \E u \in clients : Collides(u) THEN "down" ELSE "serve"
AfterRegister == IF \E u \in clients : Collides(u) THEN "close" ELSE "serve"

Register ==
  /\ phase = "register"
  /\ phase' = AfterRegister
  /\ UNCHANGED <<turn, child, session, clients, tools>>

Boot ==
  /\ Spawn \/ Initialize \/ ListTools \/ ConnectFails \/ WarmUp \/ Register
  /\ UNCHANGED <<pc, at, health, began>>

\* Ctrl-C or a cancellation while connect or the warm-up is awaited.  CancelledError is no
\* Exception: it passes the `except` of connect and of the warm-up and leaves __aenter__, so
\* __aexit__ is never called and no disconnect of any client runs.  What the teardown of
\* asyncio and the closed pipes then do to the children is not Engram's doing.
Interrupt ==
  /\ phase = "connect" \/ (phase \in DOMAIN WarmUpTool /\ Asks(phase))
  /\ phase' = "aborted"
  /\ UNCHANGED <<turn, child, session, clients, tools, pc, at, health, began>>

-----------------------------------------------------------------------------
(* Supervisor.__aexit__ *)

\* The client of the server goes away: calls under way are cancelled.
Shutdown ==
  /\ phase = "serve"
  /\ phase' = "close"
  /\ pc' = [r \in Call |-> IF pc[r] \in Ended THEN pc[r] ELSE "lost"]
  /\ at' = [r \in Call |-> None]
  /\ UNCHANGED <<turn, session, clients, tools, child, health, began>>

\* The exit stack disconnects last what connected last.
Disconnect ==
  /\ phase = "close"
  /\ IF session = {} THEN phase' = "down" /\ UNCHANGED <<child, session, tools>>
     ELSE \E i \in DOMAIN Order :
            /\ Order[i] \in session /\ \A j \in DOMAIN Order : Order[j] \in session => j <= i
            /\ Closed(Order[i])
            /\ tools' = [tools EXCEPT ![Order[i]] = {}]
            /\ UNCHANGED phase
  /\ UNCHANGED <<turn, clients, pc, at, health, began>>

-----------------------------------------------------------------------------
(* Calls *)

Begin(r) ==
  /\ phase = "serve" /\ pc[r] = "new"
  /\ began' = [began EXCEPT ![r] = Up]

\* A tool that no client announced is unknown; the others are forwarded (_make_handler).
ProxyBegin(r) ==
  /\ Begin(r)
  /\ \/ Goto(r, "failed") /\ UNCHANGED at
     \/ \E u \in clients : Goto(r, "proxy") /\ Awaits(r, u)
  /\ UNCHANGED <<process, child, health>>

\* A good result, a result with isError, or an exception.
ProxyEnd(r) ==
  /\ pc[r] = "proxy"
  /\ \/ Replies(at[r]) /\ (Goto(r, "ok") \/ Goto(r, "failed"))
     \/ Raises(at[r]) /\ Goto(r, "failed")
  /\ Awaits(r, None)
  /\ UNCHANGED <<process, child, health, began>>

\* _probe_all: an upstream that is not connected is down, one without the probe tool is taken
\* to be up, the others are probed one after the other.
Unasked(u) ==
  IF u \notin clients THEN "absent" ELSE IF Probe[u] \notin tools[u] THEN "assumed" ELSE "pending"

Good(found) == found \in {"ok", "assumed"}
FaultyRollUp(found) == IF \E u \in Upstream : Good(found[u]) THEN "ok" ELSE "down"
RollUp(found) ==
  IF \A u \in Upstream : Good(found[u]) THEN "ok"
  ELSE IF \E u \in Upstream : Good(found[u]) THEN "degraded" ELSE "down"

\* On to the next probe, or to the answer.
Probing(r, found) ==
  LET left == {i \in DOMAIN Order : found[Order[i]] = "pending"}
  IN /\ report' = [report EXCEPT ![r] = found]
     /\ IF left = {} THEN Goto(r, "ok") /\ Awaits(r, None)
                          /\ status' = [status EXCEPT ![r] = RollUp(found)]
        ELSE /\ Goto(r, "probe") /\ UNCHANGED status
             /\ \E i \in left : (\A j \in left : i <= j) /\ Awaits(r, Order[i])

HealthBegin(r) ==
  /\ Begin(r)
  /\ Probing(r, [u \in Upstream |-> Unasked(u)])
  /\ UNCHANGED <<process, child>>

\* _probe_one
Probed(u) == CASE Replies(u) -> {"ok", "error"} [] Raises(u) -> {"raised"} [] OTHER -> {}
ProbeEnd(r) ==
  /\ pc[r] = "probe"
  /\ \E f \in Probed(at[r]) : Probing(r, [report[r] EXCEPT ![at[r]] = f])
  /\ UNCHANGED <<process, child, began>>

-----------------------------------------------------------------------------
(* The upstreams *)

Trouble == {u \in Upstream : child[u] \in {"hung", "dead"}}

Die(u) ==
  /\ child[u] \in {"up", "hung"}
  /\ Cardinality(Trouble \cup {u}) <= MaxTrouble
  /\ child' = [child EXCEPT ![u] = "dead"]
  /\ UNCHANGED <<process, pc, at, health, began>>

Hang(u) ==
  /\ child[u] = "up" /\ Cardinality(Trouble) < MaxTrouble
  /\ child' = [child EXCEPT ![u] = "hung"]
  /\ UNCHANGED <<process, pc, at, health, began>>

-----------------------------------------------------------------------------
(* Properties *)

\* Somebody will close the child of u: the exit stack of the supervisor, or the connect that
\* is under way.
Owned(u) ==
  \/ u \in clients \cap session /\ phase \notin {"down", "aborted"}
  \/ phase = "connect" /\ u = Current

\* Unless the start was interrupted, a child process that runs belongs to a client the exit
\* stack will close, or to the connect that is under way; when the process is down none is
\* left, whichever connects failed and whether or not the registry could be built.
ChildrenOwned ==
  phase # "aborted" => \A u \in Upstream : child[u] \in {"up", "hung"} => Owned(u)

\* What engram.health says was so at some moment of the call, although its probes are made
\* one after the other: "ok" needs every upstream connected and, if it can be probed, up when the
\* call began; "down" means that none that is connected could be reached without an error; a
\* probe raises only when its upstream is gone.
HealthReflectsCall ==
  \A r \in Call :
    /\ status[r] = "ok" => \A u \in Upstream : u \in clients
                             /\ (report[r][u] # "assumed" => u \in began[r])
    /\ status[r] = "down" => \A u \in clients : report[r][u] = "error" \/ child[u] # "up"
    /\ \A u \in Upstream : report[r][u] = "raised" => child[u] \in {"dead", "gone"}
=============================================================================
