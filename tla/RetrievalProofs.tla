--------------------------- MODULE RetrievalProofs ---------------------------
(***************************************************************************)
(* Theorems about Retrieval and the modules it extends, for every list of  *)
(* upstreams, every answer they may give and every number of calls.        *)
(***************************************************************************)
EXTENDS Retrieval, SequenceTheorems, FiniteSetTheorems, WellFoundedInduction, TLAPS

-----------------------------------------------------------------------------
(* The children of the server process. *)

ProcessTypes ==
  /\ phase \in {"connect", "activate", "check", "onboard", "register", "serve", "close", "down",
               "aborted"}
  /\ turn \in DOMAIN Order
  /\ child \in [Upstream -> {"none", "up", "hung", "dead", "gone"}]
  /\ session \subseteq Upstream /\ clients \subseteq Upstream
  /\ tools = [u \in Upstream |-> tools[u]]
  /\ \A u \in Upstream : tools[u] = {} \/ tools[u] \in Listings[u]

\* The order of the upstreams is a sequence with at least one member.
LEMMA Orders ==
  /\ Len(Order) \in Nat \ {0}
  /\ DOMAIN Order = 1..Len(Order)
  /\ \A i \in DOMAIN Order : Order[i] \in Upstream
<1>1. Order \in Seq(Upstream) /\ "serena" \in Upstream
  BY UpstreamsAssumption
<1>2. Len(Order) \in Nat /\ DOMAIN Order = 1..Len(Order)
  BY <1>1, LenProperties
<1>3. PICK k \in DOMAIN Order : Order[k] = "serena"
  BY <1>1 DEF Upstream
<1>4. Len(Order) # 0
  BY <1>2, <1>3
<1>5. \A i \in DOMAIN Order : Order[i] \in Upstream
  BY DEF Upstream
<1> QED BY <1>2, <1>4, <1>5

\* The life of the process.
LifeStep == Boot \/ Interrupt \/ Shutdown \/ Disconnect \/ \E u \in Upstream : Die(u) \/ Hang(u)

\* Everything else leaves process and children alone.
LEMMA LifeOnly == [Next]_vars => LifeStep \/ UNCHANGED <<process, child>>
<1> SUFFICES ASSUME [Next]_vars, ~LifeStep PROVE UNCHANGED <<process, child>>
  OBVIOUS
<1>1. CASE ServerStep
  BY <1>1 DEF LifeStep, ServerStep, ProxyBegin, HealthBegin
<1>2. ASSUME NEW r \in Call, Asked(r) PROVE UNCHANGED <<process, child>>
  BY <1>2 DEF Asked, ContradictsBegin, WhyBegin, WhereBegin, VecBegin, others
<1>3. ASSUME NEW r \in Call, Answered(r) PROVE UNCHANGED <<process, child>>
  BY <1>3 DEF Answered, ProxyEnd, ProbeEnd, SubprocessEnds, SourceAnswers, FactsArrive, ChunksArrive,
              VecArrives, LookUp, OverviewArrives, others
<1>4. CASE Edit \/ DropRow \/ UNCHANGED vars
  BY <1>4 DEF Edit, DropRow, vars, upvars
<1> QED BY <1>1, <1>2, <1>3, <1>4 DEF Next

\* The rest of a process that is starting keeps the types.
LEMMA NextSpecTypes ==
  ASSUME ProcessTypes, phase = "connect", NextSpec
  PROVE  /\ turn' \in DOMAIN Order
         /\ phase' \in {"connect", "activate"}
<1>1. turn \in DOMAIN Order
  BY DEF ProcessTypes
<1> QED BY <1>1, Orders DEF NextSpec

\* No child is without an owner: one that was opened is connected or closed before the next
\* one is opened, and closing keeps going until no session is left.  Only Interrupt leaves
\* children alone.
LEMMA OwnedStep ==
  ASSUME ProcessTypes, ChildrenOwned, [Next]_vars PROVE ChildrenOwned'
<1> DEFINE Safe(u) ==
             phase # "aborted" /\ child[u] \in {"up", "hung"} =>
               \/ u \in clients \cap session /\ phase # "down"
               \/ phase = "connect" /\ u = Current
<1>1. /\ child \in [Upstream -> {"none", "up", "hung", "dead", "gone"}]
      /\ turn \in DOMAIN Order /\ Current \in Upstream
  BY Orders DEF ProcessTypes, Current
<1>2. \A u \in Upstream : Safe(u)
  BY DEF ChildrenOwned, Owned
<1>3. SUFFICES ASSUME NEW u \in Upstream PROVE Safe(u)'
  BY DEF ChildrenOwned, Owned
<1>4. CASE UNCHANGED <<process, child>>
  BY <1>2, <1>4 DEF process, Current
<1>5. CASE Spawn
  BY <1>1, <1>2, <1>5 DEF Spawn, process, Current
<1>6. CASE Initialize
  BY <1>1, <1>2, <1>6 DEF Initialize, Current
<1>7. CASE ListTools
  <2>1. phase' \in {"connect", "activate"}
    BY <1>7, NextSpecTypes DEF ListTools
  <2>2. Current \in clients' \cap session' /\ clients \subseteq clients' /\ session' = session /\ child' = child
    BY <1>7 DEF ListTools
  <2> QED BY <1>2, <1>7, <2>1, <2>2 DEF ListTools
<1>8. CASE ConnectFails
  <2>1. phase' \in {"connect", "activate"}
    BY <1>8, NextSpecTypes DEF ConnectFails
  <2>2. child'[Current] \notin {"up", "hung"}
    BY <1>1, <1>8 DEF ConnectFails, Closed
  <2>3. u # Current => child'[u] = child[u] /\ (u \in session => u \in session') /\ clients' = clients
    BY <1>1, <1>8 DEF ConnectFails, Closed
  <2> QED BY <1>2, <1>8, <2>1, <2>2, <2>3 DEF ConnectFails
<1>9. CASE WarmUp \/ Register \/ Shutdown
  <2>1. phase \notin {"connect", "down", "aborted"} /\ phase' # "down" /\ UNCHANGED <<child, session, clients>>
    BY <1>9 DEF WarmUp, WarmUpTool, Register, AfterRegister, Shutdown
  <2> QED BY <1>2, <2>1
<1>10. CASE Disconnect
  <2>1. phase = "close" /\ clients' = clients
    BY <1>10 DEF Disconnect
  <2>2. CASE session = {}
    BY <1>2, <1>10, <2>1, <2>2 DEF Disconnect
  <2>3. CASE session # {}
    <3>1. PICK i \in DOMAIN Order : Closed(Order[i]) /\ phase' = phase
      BY <1>10, <2>3 DEF Disconnect
    <3>2. /\ child'[u] \in {"up", "hung"} => child[u] \in {"up", "hung"} /\ u # Order[i]
          /\ u # Order[i] /\ u \in session => u \in session'
      BY <1>1, <3>1 DEF Closed
    <3> QED BY <1>2, <2>1, <3>1, <3>2
  <2> QED BY <2>2, <2>3
<1>11. ASSUME NEW v \in Upstream, Die(v) \/ Hang(v) PROVE Safe(u)'
  <2>1. UNCHANGED process /\ (child'[u] \in {"up", "hung"} => child[u] \in {"up", "hung"})
    BY <1>1, <1>11 DEF Die, Hang
  <2> QED BY <1>2, <2>1 DEF process, Current
<1>12. CASE Interrupt
  BY <1>12 DEF Interrupt
<1> QED BY <1>4, <1>5, <1>6, <1>7, <1>8, <1>9, <1>10, <1>11, <1>12, LifeOnly DEF LifeStep, Boot

\* The life of the process keeps the types of its state.
LEMMA ProcessTypesStep ==
  ASSUME ProcessTypes, [Next]_vars PROVE ProcessTypes'
<1>1. Current \in Upstream
  BY Orders DEF ProcessTypes, Current
<1>2. CASE UNCHANGED <<process, child>>
  BY <1>2 DEF ProcessTypes, process
<1>3. CASE Spawn \/ Initialize
  BY <1>1, <1>3 DEF Spawn, Initialize, ProcessTypes, process
<1>4. CASE ListTools
  <2>1. turn' \in DOMAIN Order /\ phase' \in {"connect", "activate"}
    BY <1>4, NextSpecTypes DEF ListTools
  <2>2. PICK l \in Listings[Current] : tools' = [tools EXCEPT ![Current] = l]
    BY <1>4 DEF ListTools
  <2>3. /\ tools' = [u \in Upstream |-> tools'[u]]
        /\ \A u \in Upstream : tools'[u] = {} \/ tools'[u] \in Listings[u]
    BY <1>1, <2>2 DEF ProcessTypes
  <2>4. /\ child' \in [Upstream -> {"none", "up", "hung", "dead", "gone"}]
        /\ session' \subseteq Upstream /\ clients' \subseteq Upstream
    BY <1>1, <1>4 DEF ListTools, ProcessTypes
  <2> QED BY <2>1, <2>3, <2>4 DEF ProcessTypes
<1>5. CASE ConnectFails
  <2>1. turn' \in DOMAIN Order /\ phase' \in {"connect", "activate"}
    BY <1>5, NextSpecTypes DEF ConnectFails
  <2> QED BY <1>1, <1>5, <2>1 DEF ConnectFails, Closed, ProcessTypes
<1>6. CASE WarmUp \/ Register \/ Interrupt \/ Shutdown
  BY <1>6 DEF WarmUp, WarmUpTool, Register, AfterRegister, Interrupt, Shutdown, ProcessTypes
<1>7. CASE Disconnect
  <2>1. CASE session = {}
    BY <1>7, <2>1 DEF Disconnect, ProcessTypes
  <2>2. CASE session # {}
    <3>1. PICK i \in DOMAIN Order : /\ Closed(Order[i]) /\ phase' = phase
                                    /\ tools' = [tools EXCEPT ![Order[i]] = {}]
      BY <1>7, <2>2 DEF Disconnect
    <3>2. UNCHANGED <<turn, clients>>
      BY <1>7 DEF Disconnect
    <3> QED BY <3>1, <3>2 DEF Closed, ProcessTypes
  <2> QED BY <2>1, <2>2
<1>8. ASSUME NEW v \in Upstream, Die(v) \/ Hang(v) PROVE ProcessTypes'
  BY <1>8 DEF Die, Hang, ProcessTypes, process
<1> QED BY <1>2, <1>3, <1>4, <1>5, <1>6, <1>7, <1>8, LifeOnly DEF LifeStep, Boot

\* At the start no child runs.
LEMMA ProcessInit == Init => ProcessTypes /\ ChildrenOwned
BY Orders DEF Init, UpstreamsInit, ProcessTypes, ChildrenOwned

\* Types and owners of the children hold in every state.
LEMMA ProcessInvariance == Spec => [](ProcessTypes /\ ChildrenOwned)
<1>1. ProcessTypes /\ ChildrenOwned /\ [Next]_vars => (ProcessTypes /\ ChildrenOwned)'
  BY ProcessTypesStep, OwnedStep
<1> QED BY ProcessInit, <1>1, PTL DEF Spec

\* Unless the start was interrupted, every child process that runs is one the exit stack will close
\* or the one being connected, and none is left when the process is down (Supervisor.__aenter__,
\* __aexit__): for any number of upstreams, whatever connects fail, whoever dies and whether or not
\* the registry can be built.
THEOREM AllChildrenOwned == Spec => []ChildrenOwned
BY ProcessInvariance, PTL

-----------------------------------------------------------------------------
(* How calls move, and engram.health. *)

CallTypes ==
  /\ pc \in [Call -> {"new"} \cup Labels \cup Ended]
  /\ at \in [Call -> Upstream \cup {None}]
  /\ report \in [Call -> [Upstream -> Finding]]
  /\ status \in [Call -> {"ok", "degraded", "down", None}]
  /\ began \in [Call -> SUBSET Upstream]

\* A step of a call that is none of engram.health.
Moves(r) ==
  /\ \E l \in (Labels \ {"probe"}) \cup {"ok", "failed"} : Goto(r, l)
  /\ UNCHANGED at \/ \E u \in Upstream \cup {None} : Awaits(r, u)
  /\ \/ UNCHANGED began
     \/ pc[r] = "new" /\ phase = "serve" /\ began' = [began EXCEPT ![r] = Up]
  /\ pc[r] # "probe" /\ (pc[r] = "new" => phase = "serve")
  /\ UNCHANGED <<process, child, health>>

\* How the loop over the terms goes on.
LEMMA NextTermMoves ==
  ASSUME ProcessTypes, NEW r \in Call, NEW terms, NEW enough, NextTerm(r, terms, enough)
  PROVE  /\ \E l \in {"ok", "terms"} : Goto(r, l)
         /\ \E u \in Upstream \cup {None} : Awaits(r, u)
BY DEF NextTerm, ProcessTypes

\* What the two loops do with a symbol.
LEMMA ResolvedMoves ==
  ASSUME ProcessTypes, NEW r \in Call, NEW symbol, Resolved(r, symbol)
  PROVE  /\ \E l \in {"ok", "terms", "resolve"} : Goto(r, l)
         /\ \E u \in Upstream \cup {None} : Awaits(r, u)
<1>1. PICK rest : IF rest # <<>> THEN Goto(r, "resolve") /\ Awaits(r, None) /\ UNCHANGED todo
                  ELSE \E terms, enough : NextTerm(r, terms, enough)
  BY DEF Resolved
<1> QED BY <1>1, NextTermMoves

\* How far one step can take a call.
LEMMA CallMoves ==
  ASSUME ProcessTypes, [Next]_vars
  PROVE  \/ LifeStep
         \/ \E r \in Call : HealthBegin(r) \/ ProbeEnd(r) \/ Moves(r)
         \/ UNCHANGED upvars
<1>1. ASSUME NEW r \in Call, ProxyBegin(r) PROVE Moves(r)
  BY <1>1 DEF ProxyBegin, Begin, Moves, Labels, ProcessTypes
<1>2. ASSUME NEW r \in Call, ProxyEnd(r) PROVE Moves(r)
  BY <1>2 DEF ProxyEnd, Moves, Labels
<1>3. ASSUME NEW r \in Call, ContradictsBegin(r) PROVE Moves(r)
  BY <1>3 DEF ContradictsBegin, Begin, Tell, Moves, Labels
<1>4. ASSUME NEW r \in Call, SubprocessEnds(r) PROVE Moves(r)
  BY <1>4 DEF SubprocessEnds, Tell, Moves, Labels
<1>5. ASSUME NEW r \in Call, WhyBegin(r) PROVE Moves(r)
  BY <1>5 DEF WhyBegin, Started, Begin, Moves, Labels, others
<1>6. ASSUME NEW r \in Call, SourceAnswers(r) PROVE Moves(r)
  BY <1>6 DEF SourceAnswers, Moves, Labels, others
<1>7. ASSUME NEW r \in Call, WhereBegin(r) PROVE Moves(r)
  <2>1. /\ \E l \in {"ok", "terms", "facts"} : Goto(r, l)
        /\ \E u \in Upstream \cup {None} : Awaits(r, u)
    BY <1>7, NextTermMoves DEF WhereBegin, ProcessTypes
  <2> QED BY <1>7, <2>1 DEF WhereBegin, Started, Begin, Moves, Labels, others
<1>8. ASSUME NEW r \in Call, FactsArrive(r) PROVE Moves(r)
  <2>1. /\ \E l \in {"ok", "terms"} : Goto(r, l)
        /\ \E u \in Upstream \cup {None} : Awaits(r, u)
    BY <1>8, NextTermMoves DEF FactsArrive
  <2> QED BY <1>8, <2>1 DEF FactsArrive, Moves, Labels, others
<1>9. ASSUME NEW r \in Call, ChunksArrive(r) PROVE Moves(r)
  <2>1. /\ \E l \in {"ok", "terms", "resolve"} : Goto(r, l)
        /\ \E u \in Upstream \cup {None} : Awaits(r, u)
    BY <1>9, NextTermMoves DEF ChunksArrive
  <2> QED BY <1>9, <2>1 DEF ChunksArrive, Moves, Labels, others
<1>10. ASSUME NEW r \in Call, VecBegin(r) \/ VecArrives(r) PROVE Moves(r)
  BY <1>10 DEF VecBegin, VecArrives, Started, Begin, Moves, Labels, others, ProcessTypes
<1>11. ASSUME NEW r \in Call, LookUp(r) \/ OverviewArrives(r) PROVE Moves(r)
  <2>1. /\ \E l \in {"ok", "terms", "resolve", "overview"} : Goto(r, l)
        /\ \E u \in Upstream \cup {None} : Awaits(r, u)
    BY <1>11, ResolvedMoves DEF LookUp, OverviewArrives, ProcessTypes
  <2> QED BY <1>11, <2>1 DEF LookUp, OverviewArrives, Moves, Labels, others
<1>12. CASE Edit \/ DropRow \/ UNCHANGED vars
  BY <1>12 DEF Edit, DropRow, vars
<1> QED BY <1>1, <1>2, <1>3, <1>4, <1>5, <1>6, <1>7, <1>8, <1>9, <1>10, <1>11, <1>12
        DEF Next, ServerStep, Asked, Answered, LifeStep

Starting == {"connect", "activate", "check", "onboard", "register"}

\* What a finding of engram.health says of its upstream, and what the answer says of the findings.
Finds(r, u) ==
  /\ report[r][u] = "absent" => u \notin clients
  /\ report[r][u] \in {"assumed", "ok", "error", "raised"} => u \in clients
  /\ report[r][u] = "ok" => u \in began[r]
  /\ report[r][u] = "raised" => child[u] \in {"dead", "gone"}

Tells(r) ==
  /\ status[r] = "ok" => \A u \in Upstream : report[r][u] \in {"ok", "assumed"}
  /\ status[r] = "down" => \A u \in Upstream : report[r][u] \in {"raised", "error", "absent"}

\* A call that has not begun has found nothing; none begins before the process serves; and an
\* upstream that is up now was up when the call began.
Honest(r) ==
  /\ pc[r] # "new" => phase \notin Starting
  /\ pc[r] \in {"new", "probe"} => status[r] = None
  /\ pc[r] = "new" => \A u \in Upstream : report[r][u] = "pending"
  /\ pc[r] = "probe" => Up \subseteq began[r]
  /\ \A u \in Upstream : Finds(r, u)
  /\ Tells(r)

HealthInv == ProcessTypes /\ CallTypes /\ \A r \in Call : Honest(r)

\* It makes the answers of engram.health true.
LEMMA HonestMeansTrue == HealthInv => HealthReflectsCall
<1> SUFFICES ASSUME HealthInv, NEW r \in Call
             PROVE  /\ status[r] = "ok" => \A u \in Upstream :
                         u \in clients /\ (report[r][u] # "assumed" => u \in began[r])
                    /\ status[r] = "down" => \A u \in clients :
                         report[r][u] = "error" \/ child[u] # "up"
                    /\ \A u \in Upstream : report[r][u] = "raised" => child[u] \in {"dead", "gone"}
  BY DEF HealthReflectsCall
<1>1. Tells(r) /\ \A u \in Upstream : Finds(r, u)
  BY DEF HealthInv, Honest
<1>2. clients \subseteq Upstream
  BY DEF HealthInv, ProcessTypes
<1> QED BY <1>1, <1>2 DEF Tells, Finds

\* Once the process serves no upstream comes up, no client comes or goes, and what is dead stays
\* dead.
LEMMA NoneComesUp ==
  ASSUME ProcessTypes, [Next]_vars, phase \notin Starting
  PROVE  /\ phase' \notin Starting /\ clients' = clients /\ Up' \subseteq Up
         /\ \A u \in Upstream : child[u] \in {"dead", "gone"} => child'[u] \in {"dead", "gone"}
<1>1. CASE UNCHANGED <<process, child>>
  BY <1>1 DEF process, Up
<1>2. CASE Boot
  BY <1>2 DEF Boot, Spawn, Initialize, ListTools, ConnectFails, WarmUp, WarmUpTool, Register, Starting
<1>3. CASE Shutdown \/ Interrupt
  BY <1>3 DEF Shutdown, Interrupt, WarmUpTool, Starting, Up
<1>4. CASE Disconnect
  <2>1. clients' = clients /\ phase' \notin Starting
    BY <1>4 DEF Disconnect, Starting
  <2>2. \A u \in Upstream : child'[u] \in {child[u], "gone"}
    BY <1>4 DEF Disconnect, Closed, ProcessTypes
  <2> QED BY <2>1, <2>2 DEF Up
<1>5. ASSUME NEW v \in Upstream, Die(v) \/ Hang(v)
      PROVE  /\ UNCHANGED <<phase, clients>>
             /\ \A u \in Upstream : \/ child'[u] = child[u]
                                    \/ child[u] \in {"up", "hung"} /\ child'[u] = "dead"
                                    \/ child[u] = "up" /\ child'[u] = "hung"
  BY <1>5 DEF Die, Hang, process, ProcessTypes
<1>6. CASE \E v \in Upstream : Die(v) \/ Hang(v)
  BY <1>5, <1>6 DEF Up
<1> QED BY <1>1, <1>2, <1>3, <1>4, <1>6, LifeOnly DEF LifeStep

\* A call that does not move, or not within engram.health, stays honest.
LEMMA HonestKept ==
  ASSUME ProcessTypes, [Next]_vars, NEW r \in Call, Honest(r),
         report'[r] = report[r], status'[r] = status[r],
         pc'[r] = pc[r] \/ (pc'[r] \notin {"new", "probe"} /\ (pc[r] = "new" => phase = "serve")),
         began'[r] = began[r] \/ (pc[r] = "new" /\ pc'[r] # "probe")
  PROVE  Honest(r)'
<1>1. CASE phase \in Starting
  <2>1. pc[r] = "new" /\ pc'[r] = "new"
    BY <1>1 DEF Honest, Starting
  <2> QED BY <2>1, UpstreamsAssumption DEF Honest, Finds, Tells
<1>2. CASE phase \notin Starting
  <2>1. \A u \in Upstream : Finds(r, u)'
    BY <1>2, NoneComesUp DEF Honest, Finds
  <2>2. Tells(r)'
    BY DEF Honest, Tells
  <2>3. pc'[r] = "probe" => Up' \subseteq began'[r]
    BY <1>2, NoneComesUp DEF Honest
  <2> QED BY <1>2, <2>1, <2>2, <2>3, NoneComesUp DEF Honest
<1> QED BY <1>1, <1>2

\* The next probe or the answer, whatever was found so far.
LEMMA ProbingStep ==
  ASSUME HealthInv, NEW r \in Call, NEW found \in [Upstream -> Finding], Probing(r, found),
         UNCHANGED <<process, child>>, began'[r] \subseteq Upstream,
         phase \notin Starting, status[r] = None, Up \subseteq began'[r],
         \A u \in Upstream : /\ found[u] = "absent" => u \notin clients
                             /\ found[u] \in {"assumed", "ok", "error", "raised"} => u \in clients
                             /\ found[u] = "ok" => u \in began'[r]
                             /\ found[u] = "raised" => child[u] \in {"dead", "gone"}
  PROVE  Honest(r)'
<1> DEFINE left == {i \in DOMAIN Order : found[Order[i]] = "pending"}
<1>1. pc \in [Call -> {"new"} \cup Labels \cup Ended] /\ report \in [Call -> [Upstream -> Finding]]
      /\ status \in [Call -> {"ok", "degraded", "down", None}]
  BY DEF HealthInv, CallTypes
<1>2. report'[r] = found /\ pc'[r] \in {"ok", "probe"}
  BY <1>1 DEF Probing, Goto
<1>3. \A u \in Upstream : Finds(r, u)'
  BY <1>2 DEF Finds, process
<1>4. CASE left = {}
  <2>1. pc'[r] = "ok" /\ status'[r] = RollUp(found)
    BY <1>1, <1>4 DEF Probing, Goto
  <2>2. \A u \in Upstream : found[u] # "pending"
    BY <1>4 DEF Upstream
  <2>3. \A u \in Upstream : found[u] \in {"ok", "assumed", "raised", "error", "absent"}
    BY <2>2 DEF Finding
  <2>4. Tells(r)'
    BY <1>2, <2>1, <2>3 DEF Tells, RollUp, Good
  <2> QED BY <1>3, <2>1, <2>4 DEF Honest, process
<1>5. CASE left # {}
  <2>1. pc'[r] = "probe" /\ status'[r] = None
    BY <1>1, <1>5 DEF Probing, Goto
  <2>2. Tells(r)'
    BY <2>1, UpstreamsAssumption DEF Tells
  <2>3. Up' = Up /\ phase' = phase
    BY DEF Up, process
  <2> QED BY <1>3, <2>1, <2>2, <2>3 DEF Honest
<1> QED BY <1>4, <1>5

\* The findings keep their types.
LEMMA ProbingTypes ==
  ASSUME HealthInv, NEW r \in Call, NEW found \in [Upstream -> Finding], Probing(r, found),
         began' \in [Call -> SUBSET Upstream]
  PROVE  CallTypes'
<1> DEFINE left == {i \in DOMAIN Order : found[Order[i]] = "pending"}
<1>1. report' = [report EXCEPT ![r] = found]
  BY DEF Probing
<1>2. CASE left = {}
  <2>1. /\ pc' = [pc EXCEPT ![r] = "ok"] /\ at' = [at EXCEPT ![r] = None]
        /\ \E s \in {"ok", "degraded", "down"} : status' = [status EXCEPT ![r] = s]
    BY <1>2 DEF Probing, Goto, Awaits, RollUp
  <2> QED BY <1>1, <2>1 DEF HealthInv, CallTypes, Ended
<1>3. CASE left # {}
  <2>1. /\ pc' = [pc EXCEPT ![r] = "probe"] /\ status' = status
        /\ \E u \in Upstream : at' = [at EXCEPT ![r] = u]
    BY <1>3, Orders DEF Probing, Goto, Awaits
  <2> QED BY <1>1, <2>1 DEF HealthInv, CallTypes, Labels
<1> QED BY <1>2, <1>3

\* Calls that are not probing keep their types.
LEMMA CallTypesStep ==
  ASSUME HealthInv, LifeStep \/ (\E r \in Call : Moves(r)) \/ UNCHANGED upvars
  PROVE  CallTypes'
<1>1. CASE Boot \/ Interrupt \/ (\E u \in Upstream : Die(u) \/ Hang(u)) \/ Disconnect \/ UNCHANGED upvars
  <2>1. UNCHANGED <<pc, at, report, status, began>>
    BY <1>1 DEF Boot, Interrupt, Die, Hang, Disconnect, upvars, health
  <2> QED BY <2>1 DEF HealthInv, CallTypes
<1>2. CASE Shutdown
  BY <1>2 DEF Shutdown, HealthInv, CallTypes, Ended, health
<1>3. ASSUME NEW r \in Call, Moves(r) PROVE CallTypes'
  <2>1. pc' \in [Call -> {"new"} \cup Labels \cup Ended]
    BY <1>3 DEF Moves, Goto, HealthInv, CallTypes, Ended
  <2>2. at' \in [Call -> Upstream \cup {None}]
    BY <1>3 DEF Moves, Awaits, HealthInv, CallTypes
  <2>3. began' \in [Call -> SUBSET Upstream]
    BY <1>3 DEF Moves, Up, HealthInv, CallTypes
  <2>4. UNCHANGED health
    BY <1>3 DEF Moves
  <2> QED BY <2>1, <2>2, <2>3, <2>4 DEF HealthInv, CallTypes, health
<1> QED BY <1>1, <1>2, <1>3 DEF LifeStep

\* Every step keeps what engram.health has found and told true.
LEMMA HealthStep == HealthInv /\ [Next]_vars => HealthInv'
<1> SUFFICES ASSUME HealthInv, [Next]_vars PROVE HealthInv'
  OBVIOUS
<1>1. ProcessTypes /\ ProcessTypes' /\ CallTypes /\ \A q \in Call : Honest(q)
  BY ProcessTypesStep DEF HealthInv
<1>2. CASE LifeStep \/ UNCHANGED upvars
  <2>1. CallTypes'
    BY <1>2, CallTypesStep
  <2>2. UNCHANGED <<report, status, began>>
    BY <1>2 DEF LifeStep, Boot, Interrupt, Die, Hang, Disconnect, Shutdown, upvars, health
  <2>3. /\ \A q \in Call : pc'[q] = pc[q] \/ pc'[q] = "lost"
        /\ (\A q \in Call : pc'[q] = pc[q]) \/ phase = "serve"
    BY <1>2 DEF LifeStep, Boot, Interrupt, Die, Hang, Disconnect, Shutdown, upvars
  <2>4. \A q \in Call : Honest(q)'
    BY <1>1, <2>2, <2>3, HonestKept
  <2> QED BY <1>1, <2>1, <2>4 DEF HealthInv
<1>3. ASSUME NEW r \in Call, Moves(r) PROVE HealthInv'
  <2>1. CallTypes'
    BY <1>3, CallTypesStep
  <2>2. /\ UNCHANGED <<report, status>>
        /\ \A q \in Call : q # r => pc'[q] = pc[q] /\ began'[q] = began[q]
        /\ pc'[r] \notin {"new", "probe"}
        /\ began'[r] = began[r] \/ pc[r] = "new"
        /\ pc[r] = "new" => phase = "serve"
    BY <1>1, <1>3 DEF Moves, Goto, CallTypes, health, Labels
  <2>3. \A q \in Call : Honest(q)'
    BY <1>1, <2>2, HonestKept
  <2> QED BY <1>1, <2>1, <2>3 DEF HealthInv
<1>4. ASSUME NEW r \in Call, NEW found \in [Upstream -> Finding], Probing(r, found)
      PROVE  \A q \in Call : q # r => UNCHANGED <<pc[q], report[q], status[q]>>
  BY <1>1, <1>4 DEF Probing, Goto, CallTypes
<1>5. ASSUME NEW r \in Call, HealthBegin(r) PROVE HealthInv'
  <2> DEFINE found == [u \in Upstream |-> Unasked(u)]
  <2>1. found \in [Upstream -> Finding] /\ Probing(r, found)
    BY <1>5 DEF HealthBegin, Unasked, Finding
  <2>2. /\ UNCHANGED <<process, child>> /\ phase = "serve" /\ pc[r] = "new"
        /\ began' = [began EXCEPT ![r] = Up] /\ Up \subseteq Upstream
    BY <1>5 DEF HealthBegin, Begin, Up
  <2>3. began' \in [Call -> SUBSET Upstream] /\ began'[r] = Up
        /\ \A q \in Call : q # r => began'[q] = began[q]
    BY <1>1, <2>2 DEF CallTypes
  <2>4. CallTypes'
    BY <2>1, <2>3, ProbingTypes
  <2>5. \A u \in Upstream : /\ found[u] \in {"absent", "assumed", "pending"}
                            /\ found[u] = "absent" => u \notin clients
                            /\ found[u] = "assumed" => u \in clients
    BY DEF Unasked
  <2>6. status[r] = None
    BY <1>1, <2>2 DEF Honest
  <2> HIDE DEF found
  <2>7. Honest(r)'
    BY <2>1, <2>2, <2>3, <2>5, <2>6, ProbingStep DEF Starting
  <2>8. \A q \in Call : q # r => Honest(q)'
    BY <1>1, <1>4, <2>1, <2>3, HonestKept
  <2> QED BY <1>1, <2>4, <2>7, <2>8 DEF HealthInv
<1>6. ASSUME NEW r \in Call, ProbeEnd(r) PROVE HealthInv'
  <2>1. PICK f \in Probed(at[r]) : Probing(r, [report[r] EXCEPT ![at[r]] = f])
    BY <1>6 DEF ProbeEnd
  <2> DEFINE found == [report[r] EXCEPT ![at[r]] = f]
  <2>2. /\ UNCHANGED <<process, child, began>> /\ pc[r] = "probe"
        /\ at[r] \in clients /\ f \in {"ok", "error", "raised"}
        /\ f = "ok" => child[at[r]] = "up"
        /\ f = "raised" => child[at[r]] \in {"dead", "gone"}
    BY <1>6, <2>1 DEF ProbeEnd, Probed, Replies, Raises
  <2>3. at[r] \in Upstream /\ report[r] \in [Upstream -> Finding] /\ began \in [Call -> SUBSET Upstream]
    BY <1>1, <2>2 DEF ProcessTypes, CallTypes
  <2>4. found \in [Upstream -> Finding] /\ Probing(r, found)
    BY <2>1, <2>2, <2>3 DEF Finding
  <2>5. CallTypes'
    BY <2>2, <2>3, <2>4, ProbingTypes
  <2>6. phase \notin Starting /\ status[r] = None /\ Up \subseteq began[r]
        /\ \A u \in Upstream : Finds(r, u)
    BY <1>1, <2>2 DEF Honest
  <2>7. \A u \in Upstream : /\ found[u] = "absent" => u \notin clients
                            /\ found[u] \in {"assumed", "ok", "error", "raised"} => u \in clients
                            /\ found[u] = "ok" => u \in began[r]
                            /\ found[u] = "raised" => child[u] \in {"dead", "gone"}
    <3>1. \A u \in Upstream : u # at[r] => found[u] = report[r][u]
      BY <2>3
    <3>2. found[at[r]] = f
      BY <2>3
    <3>3. f = "ok" => at[r] \in began[r]
      BY <2>2, <2>3, <2>6 DEF Up
    <3> QED BY <2>2, <2>6, <3>1, <3>2, <3>3 DEF Finds
  <2> HIDE DEF found
  <2>8. Honest(r)'
    BY <2>2, <2>3, <2>4, <2>6, <2>7, ProbingStep
  <2>9. \A q \in Call : q # r => Honest(q)'
    BY <1>1, <1>4, <2>2, <2>4, HonestKept
  <2> QED BY <1>1, <2>5, <2>8, <2>9 DEF HealthInv
<1> QED BY <1>1, <1>2, <1>3, <1>5, <1>6, CallMoves

\* Before the start nothing has been found or told.
LEMMA HealthInit == Init => HealthInv
<1> SUFFICES ASSUME Init PROVE HealthInv
  OBVIOUS
<1>1. CallTypes
  BY DEF Init, UpstreamsInit, CallTypes, Finding
<1>2. \A r \in Call : Honest(r)
  BY UpstreamsAssumption DEF Init, UpstreamsInit, Honest, Finds, Tells
<1> QED BY <1>1, <1>2, ProcessInit DEF HealthInv

\* What engram.health has found and told stays true.
LEMMA HealthInvariance == Spec => []HealthInv
BY HealthInit, HealthStep, PTL DEF Spec

\* What engram.health answers was so at some moment of the call, although the upstreams are
\* probed one after the other and may die meanwhile (engram_ns.py, _probe_all).
THEOREM HealthIsHonest == Spec => []HealthReflectsCall
BY HealthInvariance, HonestMeansTrue, PTL

-----------------------------------------------------------------------------
(* engram.contradicts. *)

VerdictInv == FactCheckTypeOK /\ VerdictIsTheCheckers

\* What verdict v may be made of a checker that ended with e.
Sound(e, v) ==
  /\ v = "issues" <=> e.found = "issues"
  /\ v = "nothing" => e.code \in {"returned", "0", "1"} /\ e.found \in {"nothing", "odd"}
  /\ v = "unavailable" => e.found = None

\* Only a step of engram.contradicts makes a verdict, the one that was found.
LEMMA VerdictStep == VerdictInv /\ [Next]_vars => VerdictInv'
<1> SUFFICES ASSUME VerdictInv, [Next]_vars PROVE VerdictInv'
  OBVIOUS
<1>1. CASE UNCHANGED fcvars
  BY <1>1 DEF fcvars, VerdictInv, FactCheckTypeOK, VerdictIsTheCheckers
<1>2. ASSUME NEW r \in Call, NEW e \in Exit \cup InProcess,
             NEW v \in {"issues", "nothing", "unavailable"}, Ran(r, e), Tell(r, v), Sound(e, v)
      PROVE  VerdictInv'
  <2>1. verdict' = [verdict EXCEPT ![r] = v] /\ checked' = [checked EXCEPT ![r] = e]
    BY <1>2 DEF Ran, Tell
  <2>2. /\ verdict' \in [Call -> {"issues", "nothing", "unavailable", None}]
        /\ checked' \in [Call -> Exit \cup InProcess \cup {None}]
    BY <2>1 DEF VerdictInv, FactCheckTypeOK
  <2>3. /\ verdict'[r] = v /\ checked'[r] = e
        /\ \A q \in Call : q # r => verdict'[q] = verdict[q] /\ checked'[q] = checked[q]
    BY <2>1 DEF VerdictInv, FactCheckTypeOK
  <2>4. e # None
    BY FactCheckAssumption
  <2>5. VerdictIsTheCheckers'
    BY <1>2, <2>3, <2>4 DEF VerdictIsTheCheckers, VerdictInv, Sound
  <2> QED BY <2>2, <2>5 DEF VerdictInv, FactCheckTypeOK
<1>3. ASSUME NEW r \in Call, ContradictsBegin(r) PROVE VerdictInv'
  <2>1. CASE UNCHANGED fcvars
    BY <1>1, <2>1
  <2>2. ASSUME NEW e \in InProcess, Ran(r, e), Tell(r, Normalize(e.found)) PROVE VerdictInv'
    <3>1. Normalize(e.found) \in {"issues", "nothing"} /\ Sound(e, Normalize(e.found))
      BY DEF Normalize, Sound, InProcess, Value
    <3> QED BY <1>2, <2>2, <3>1
  <2> QED BY <1>3, <2>1, <2>2 DEF ContradictsBegin
<1>4. ASSUME NEW r \in Call, SubprocessEnds(r) PROVE VerdictInv'
  <2>1. PICK e \in Exit : Ran(r, e) /\ Tell(r, Reading(e))
    BY <1>4 DEF SubprocessEnds
  <2>2. Reading(e) \in {"issues", "nothing", "unavailable"} /\ Sound(e, Reading(e))
    BY FactCheckAssumption DEF Exit, Reading, Normalize, Sound
  <2> QED BY <1>2, <2>1, <2>2
<1>5. CASE ServerStep \/ Edit \/ DropRow \/ UNCHANGED vars
  BY <1>1, <1>5 DEF ServerStep, Edit, DropRow, vars
<1>6. ASSUME NEW r \in Call, Asked(r), ~ContradictsBegin(r) PROVE UNCHANGED fcvars
  BY <1>6 DEF Asked, WhyBegin, WhereBegin, VecBegin, others
<1>7. ASSUME NEW r \in Call, Answered(r), ~SubprocessEnds(r) PROVE UNCHANGED fcvars
  BY <1>7 DEF Answered, SourceAnswers, FactsArrive, ChunksArrive, VecArrives, LookUp,
              OverviewArrives, others
<1> QED BY <1>1, <1>3, <1>4, <1>5, <1>6, <1>7 DEF Next

\* No verdict is made up.
LEMMA VerdictInvariance == Spec => []VerdictInv
<1>1. Init => VerdictInv
  BY FactCheckAssumption DEF Init, FactCheckInit, VerdictInv, FactCheckTypeOK, VerdictIsTheCheckers
<1> QED BY <1>1, VerdictStep, PTL DEF Spec

\* A client is told of issues exactly if a checker found some, and of none only by a checker that
\* ran to its end, in the process or as a child, and gave no answer the code can read as issues
\* (contradicts.py).
THEOREM VerdictsAreFound == Spec => []VerdictIsTheCheckers
<1>1. VerdictInv => VerdictIsTheCheckers
  BY DEF VerdictInv
<1> QED BY <1>1, VerdictInvariance, PTL

-----------------------------------------------------------------------------
(* Chunks, and the symbols around them. *)

Done == [chunk : Chunk, symbol : Symbol \cup {None}]

AnswerTypes ==
  /\ limit \in [Call -> Limits \cup {None}]
  /\ asked \in [Call -> SUBSET Source]
  /\ part = [r \in Call |-> [s \in Source |-> part[r][s]]]
  /\ \A r \in Call : \A s \in Source : part[r][s] \in Results[s] \cup {<<>>}
  /\ todo = [r \in Call |-> todo[r]]
  /\ queue \in [Call -> Seq(Chunk)]
  /\ out \in [Call -> Seq(Done)]
  /\ offered \in [Call -> SUBSET Chunk]
  /\ vbegan \in [Call -> DOMAIN Overview] /\ rbegan \in [Call -> SUBSET Row]

WorldTypes == version \in DOMAIN Overview /\ rows \in SUBSET Row

\* The loop goes on with a tail of the chunks: what it leaves out it passes over, and what comes
\* first it does not.
LEMMA GoingOnIs ==
  ASSUME NEW chunks \in Seq(Chunk), NEW seen, NEW rest \in GoingOn(chunks, seen)
  PROVE  /\ rest \in Seq(Chunk)
         /\ rest # <<>> => ~Skipped(Head(rest), seen)
         /\ \A j \in DOMAIN chunks :
              Skipped(chunks[j], seen) \/ \E i \in DOMAIN rest : rest[i] = chunks[j]
<1>1. Len(chunks) \in Nat /\ DOMAIN chunks = 1..Len(chunks)
  BY LenProperties
<1>2. PICK k \in 1..(Len(chunks) + 1) :
        /\ rest = SubSeq(chunks, k, Len(chunks))
        /\ \A j \in 1..(k - 1) : Skipped(chunks[j], seen)
        /\ k <= Len(chunks) => ~Skipped(chunks[k], seen)
  BY DEF GoingOn, Resumes
<1>3. \A i \in k..Len(chunks) : chunks[i] \in Chunk
  BY <1>1, <1>2, ElementOfSeq
<1>4. /\ rest \in Seq(Chunk)
      /\ Len(rest) = IF k <= Len(chunks) THEN Len(chunks) - k + 1 ELSE 0
      /\ \A i \in 1..(Len(chunks) - k + 1) : rest[i] = chunks[k + i - 1]
  BY <1>1, <1>2, <1>3, SubSeqProperties
<1>5. Len(rest) \in Nat /\ DOMAIN rest = 1..Len(rest)
  BY <1>4, LenProperties
<1>6. ASSUME rest # <<>> PROVE ~Skipped(Head(rest), seen)
  <2>1. Len(rest) # 0
    BY <1>4, <1>6, EmptySeq
  <2>2. k <= Len(chunks)
    BY <1>1, <1>2, <1>4, <2>1
  <2>3. rest[1] = chunks[k]
    BY <1>1, <1>2, <1>4, <2>2
  <2>4. Head(rest) = rest[1]
    BY <1>4, <1>6
  <2> QED BY <1>2, <2>2, <2>3, <2>4
<1>7. ASSUME NEW j \in DOMAIN chunks, ~Skipped(chunks[j], seen)
      PROVE  \E i \in DOMAIN rest : rest[i] = chunks[j]
  <2>1. j \in 1..Len(chunks) /\ j >= k
    BY <1>1, <1>2, <1>7
  <2>2. j - k + 1 \in DOMAIN rest
    BY <1>1, <1>2, <1>4, <1>5, <2>1
  <2>3. j - k + 1 \in 1..(Len(chunks) - k + 1) /\ k + (j - k + 1) - 1 = j
    BY <1>1, <1>2, <2>1
  <2>4. rest[j - k + 1] = chunks[j]
    BY <1>4, <2>3
  <2> QED BY <2>2, <2>4
<1> QED BY <1>4, <1>6, <1>7

\* Every non-empty set of numbers has a least one.
LEMMA Least ==
  ASSUME NEW T \in SUBSET Nat, T # {}
  PROVE  \E n \in T : \A m \in T : n <= m
<1> DEFINE R == OpToRel(<, Nat)
<1>1. IsWellFoundedOn(R, Nat)
  BY NatLessThanWellFounded, Zenon
<1>2. ASSUME NEW n \in Nat, NEW m \in Nat, m < n PROVE <<m, n>> \in R
  BY <1>2 DEF OpToRel
<1> HIDE DEF R
<1>3. PICK n \in T : \A m \in T : ~(<<m, n>> \in R)
  BY <1>1, WFMin, Zenon
<1>4. \A m \in T : ~(m < n)
  BY <1>2, <1>3
<1> QED BY <1>3, <1>4

\* Around a chunk that anything is around there is a narrowest span.
LEMMA NarrowestExists ==
  ASSUME NEW c \in Chunk, NEW spans, \A s \in spans : s.lo \in Nat /\ s.hi \in Nat,
         Around(spans, c) # {}
  PROVE  Narrowest(Around(spans, c)) # {}
<1> DEFINE around == Around(spans, c)
           T == {s.hi - s.lo : s \in around}
<1>1. c.start \in Nat /\ c.end \in Nat /\ c.start <= c.end
  BY RetrievalAssumption
<1>2. \A s \in around : s.hi - s.lo \in Nat
  BY <1>1 DEF Around
<1>3. T \in SUBSET Nat /\ T # {}
  BY <1>2
<1>4. PICK n \in T : \A m \in T : n <= m
  BY <1>3, Least
<1>5. PICK s \in around : n = s.hi - s.lo
  BY <1>4
<1>6. \A t \in around : s.hi - s.lo <= t.hi - t.lo
  BY <1>4, <1>5
<1> QED BY <1>5, <1>6 DEF Narrowest

\* What is found for a chunk is a symbol.
LEMMA SymbolsFound ==
  ASSUME WorldTypes, NEW c \in Chunk
  PROVE  /\ Cached(c) \subseteq Symbol /\ Live(c) \subseteq Symbol
         /\ \A s \in RowsFor(c) : s.lo \in Nat /\ s.hi \in Nat
<1>1. \A s \in RowsFor(c) : s.lo \in Nat /\ s.hi \in Nat
  BY RetrievalAssumption DEF RowsFor, Around, WorldTypes
<1>2. Cached(c) \subseteq Symbol
  BY <1>1 DEF Cached, SymbolsOf, Narrowest, Symbol
<1>3. \A s \in Overview[version][c.path] : s.lo \in Nat /\ s.hi \in Nat
  BY RetrievalAssumption DEF WorldTypes
<1>4. \A s \in Innermost(Overview[version][c.path], c) : s.lo \in Nat /\ s.hi \in Nat
  BY <1>3 DEF Innermost, Narrowest, Around
<1>5. Live(c) \subseteq Symbol
  BY <1>4 DEF Live, SymbolsOf, Symbol
<1> QED BY <1>1, <1>2, <1>5

\* So is what a chunk came with.
LEMMA GivenIsSymbol == GivenSymbol \in Symbol /\ GivenSymbol # None
BY RetrievalAssumption DEF GivenSymbol, Symbol

\* A call has chunks to resolve when it says so.
Queued(r) ==
  /\ pc[r] \in {"resolve", "overview"} => queue[r] # <<>>
  /\ pc[r] \notin {"resolve", "overview", "lost"} => queue[r] = <<>>

Typed == ProcessTypes /\ CallTypes /\ AnswerTypes /\ WorldTypes /\ \A r \in Call : Queued(r)

\* What the two loops do once the first chunk has its symbol, or none.
Resolves(r, done, rest) ==
  /\ out' = [out EXCEPT ![r] = done]
  /\ queue' = [queue EXCEPT ![r] = rest]
  /\ \E terms : todo' = [todo EXCEPT ![r] = terms]
  /\ rest # <<>> => Goto(r, "resolve")
  /\ rest = <<>> => Goto(r, "ok") \/ Goto(r, "terms")
  /\ limit[r] # None /\ Len(done) >= limit[r] => rest = <<>> /\ Goto(r, "ok")
  /\ limit[r] # None /\ ~(Len(done) >= limit[r]) => rest \in GoingOn(Tail(queue[r]), Places(done))

\* Resolved is that, in terms that do not mention how it picks the next term.
LEMMA ResolvedIs ==
  ASSUME Typed, NEW r \in Call, pc[r] \in {"resolve", "overview"},
         NEW symbol \in Symbol \cup {None}, Resolved(r, symbol)
  PROVE  \E rest \in Seq(Chunk) :
           Resolves(r, Append(out[r], [chunk |-> Head(queue[r]), symbol |-> symbol]), rest)
<1> DEFINE done == Append(out[r], [chunk |-> Head(queue[r]), symbol |-> symbol])
           enough == limit[r] # None /\ Len(done) >= limit[r]
<1>1. queue[r] \in Seq(Chunk) /\ queue[r] # <<>> /\ todo = [q \in Call |-> todo[q]]
  BY DEF Typed, Queued, AnswerTypes
<1>2. Tail(queue[r]) \in Seq(Chunk)
  BY <1>1, HeadTailProperties
<1>3. PICK rest \in IF limit[r] = None THEN {Tail(queue[r])}
                    ELSE IF enough THEN {<<>>} ELSE GoingOn(Tail(queue[r]), Places(done)) :
        /\ queue' = [queue EXCEPT ![r] = rest]
        /\ IF rest # <<>> THEN Goto(r, "resolve") /\ Awaits(r, None) /\ UNCHANGED todo
           ELSE NextTerm(r, todo[r], enough)
  BY DEF Resolved
<1>4. out' = [out EXCEPT ![r] = done]
  BY DEF Resolved
<1> HIDE DEF done
<1>5. rest \in Seq(Chunk)
  BY <1>2, <1>3, GoingOnIs, EmptySeq
<1>6. rest # <<>> => Goto(r, "resolve") /\ todo' = [todo EXCEPT ![r] = todo[r]]
  BY <1>1, <1>3
<1>7. rest = <<>> => /\ Goto(r, "ok") \/ Goto(r, "terms")
                     /\ enough => Goto(r, "ok")
                     /\ \E terms : todo' = [todo EXCEPT ![r] = terms]
  BY <1>3 DEF NextTerm
<1>8. Resolves(r, done, rest)
  BY <1>3, <1>4, <1>6, <1>7 DEF Resolves
<1> QED BY <1>5, <1>8 DEF done

\* What a step of call r does to what calls keep.
Own(r) ==
  /\ \E n \in Limits \cup {None} : limit' = [limit EXCEPT ![r] = n]
  /\ \E a \in SUBSET Source : asked' = [asked EXCEPT ![r] = a]
  /\ UNCHANGED part \/ \E s \in Source : \E l \in Results[s] \cup {<<>>} :
                         part' = [part EXCEPT ![r][s] = l]
  /\ \E t : todo' = [todo EXCEPT ![r] = t]
  /\ \E q \in Seq(Chunk) : queue' = [queue EXCEPT ![r] = q]
  /\ \E o \in Seq(Done) : out' = [out EXCEPT ![r] = o]
  /\ \E c \in SUBSET Chunk : offered' = [offered EXCEPT ![r] = c]
  /\ \E v \in DOMAIN Overview : vbegan' = [vbegan EXCEPT ![r] = v]
  /\ \E w \in SUBSET Row : rbegan' = [rbegan EXCEPT ![r] = w]

\* Such a step keeps the types, and what belongs to the other calls.
LEMMA OwnTypes ==
  ASSUME AnswerTypes, NEW r \in Call, Own(r)
  PROVE  /\ AnswerTypes'
         /\ \A q \in Call : q # r =>
              UNCHANGED <<limit[q], queue[q], out[q], offered[q], vbegan[q], rbegan[q]>>
<1>1. limit' \in [Call -> Limits \cup {None}] /\ asked' \in [Call -> SUBSET Source]
  BY DEF Own, AnswerTypes
<1>2. /\ part' = [q \in Call |-> [s \in Source |-> part'[q][s]]]
      /\ \A q \in Call : \A s \in Source : part'[q][s] \in Results[s] \cup {<<>>}
  <2>1. /\ part = [q \in Call |-> [s \in Source |-> part[q][s]]]
        /\ \A q \in Call : \A s \in Source : part[q][s] \in Results[s] \cup {<<>>}
    BY DEF AnswerTypes
  <2>2. CASE UNCHANGED part
    BY <2>1, <2>2
  <2>3. CASE ~UNCHANGED part
    <3>1. PICK s \in Source : \E l \in Results[s] \cup {<<>>} : part' = [part EXCEPT ![r][s] = l]
      BY <2>3 DEF Own
    <3>2. PICK l \in Results[s] \cup {<<>>} : part' = [part EXCEPT ![r][s] = l]
      BY <3>1
    <3>3. part' = [q \in Call |-> [x \in Source |-> IF q = r /\ x = s THEN l ELSE part[q][x]]]
      BY <2>1, <3>2
    <3> QED BY <2>1, <3>3
  <2> QED BY <2>2, <2>3
<1>3. todo' = [q \in Call |-> todo'[q]]
  <2>1. PICK t : todo' = [todo EXCEPT ![r] = t]
    BY DEF Own
  <2>2. todo = [q \in Call |-> todo[q]]
    BY DEF AnswerTypes
  <2> QED BY <2>1, <2>2
<1>4. /\ queue' \in [Call -> Seq(Chunk)]
      /\ \A q \in Call : q # r => queue'[q] = queue[q]
  <2>1. PICK l \in Seq(Chunk) : queue' = [queue EXCEPT ![r] = l]
    BY DEF Own
  <2>2. queue \in [Call -> Seq(Chunk)]
    BY DEF AnswerTypes
  <2> QED BY <2>1, <2>2
<1>5. /\ out' \in [Call -> Seq(Done)]
      /\ \A q \in Call : q # r => out'[q] = out[q]
  <2>1. PICK o \in Seq(Done) : out' = [out EXCEPT ![r] = o]
    BY DEF Own
  <2>2. out \in [Call -> Seq(Done)]
    BY DEF AnswerTypes
  <2> QED BY <2>1, <2>2
<1>6. offered' \in [Call -> SUBSET Chunk]
  BY DEF Own, AnswerTypes
<1>7. vbegan' \in [Call -> DOMAIN Overview] /\ rbegan' \in [Call -> SUBSET Row]
  BY DEF Own, AnswerTypes
<1>8. \A q \in Call : q # r => UNCHANGED <<limit[q], offered[q], vbegan[q], rbegan[q]>>
  BY DEF Own, AnswerTypes
<1> QED BY <1>1, <1>2, <1>3, <1>4, <1>5, <1>6, <1>7, <1>8 DEF AnswerTypes

\* What is left alone may be taken as replaced by itself.
LEMMA Alone ==
  ASSUME AnswerTypes, NEW r \in Call
  PROVE  /\ UNCHANGED limit => \E n \in Limits \cup {None} : limit' = [limit EXCEPT ![r] = n]
         /\ UNCHANGED asked => \E a \in SUBSET Source : asked' = [asked EXCEPT ![r] = a]
         /\ UNCHANGED todo => \E t : todo' = [todo EXCEPT ![r] = t]
         /\ UNCHANGED queue => \E q \in Seq(Chunk) : queue' = [queue EXCEPT ![r] = q]
         /\ UNCHANGED out => \E o \in Seq(Done) : out' = [out EXCEPT ![r] = o]
         /\ UNCHANGED offered => \E c \in SUBSET Chunk : offered' = [offered EXCEPT ![r] = c]
         /\ UNCHANGED start => /\ \E v \in DOMAIN Overview : vbegan' = [vbegan EXCEPT ![r] = v]
                               /\ \E w \in SUBSET Row : rbegan' = [rbegan EXCEPT ![r] = w]
<1>1. limit = [limit EXCEPT ![r] = limit[r]] /\ limit[r] \in Limits \cup {None}
  BY DEF AnswerTypes
<1>2. asked = [asked EXCEPT ![r] = asked[r]] /\ asked[r] \in SUBSET Source
  BY DEF AnswerTypes
<1>3. todo = [todo EXCEPT ![r] = todo[r]]
  BY DEF AnswerTypes
<1>4. queue = [queue EXCEPT ![r] = queue[r]] /\ queue[r] \in Seq(Chunk)
  BY DEF AnswerTypes
<1>5. out = [out EXCEPT ![r] = out[r]] /\ out[r] \in Seq(Done)
  BY DEF AnswerTypes
<1>6. offered = [offered EXCEPT ![r] = offered[r]] /\ offered[r] \in SUBSET Chunk
  BY DEF AnswerTypes
<1>7. /\ vbegan = [vbegan EXCEPT ![r] = vbegan[r]] /\ vbegan[r] \in DOMAIN Overview
      /\ rbegan = [rbegan EXCEPT ![r] = rbegan[r]] /\ rbegan[r] \in SUBSET Row
  BY DEF AnswerTypes
<1> QED BY <1>1, <1>2, <1>3, <1>4, <1>5, <1>6, <1>7 DEF start

\* LookUp and OverviewArrives resolve the first chunk, unless they ask Serena first.
LEMMA ResolveIs ==
  ASSUME Typed, NEW r \in Call, LookUp(r) \/ OverviewArrives(r), pc'[r] # "overview"
  PROVE  \E symbol \in Symbol \cup {None}, rest \in Seq(Chunk) :
           /\ Resolves(r, Append(out[r], [chunk |-> Head(queue[r]), symbol |-> symbol]), rest)
           /\ LookUp(r) => symbol \in OrNone(AtOnce(r, Head(queue[r])))
           /\ OverviewArrives(r) => symbol \in OrNone(Live(Head(queue[r]))) \/ symbol = None
<1>1. pc[r] \in {"resolve", "overview"} /\ Head(queue[r]) \in Chunk
  BY HeadTailProperties DEF LookUp, OverviewArrives, Typed, Queued, AnswerTypes
<1>2. Cached(Head(queue[r])) \subseteq Symbol /\ Live(Head(queue[r])) \subseteq Symbol
  BY <1>1, SymbolsFound DEF Typed
<1>3. ~(LookUp(r) /\ OverviewArrives(r))
  BY DEF LookUp, OverviewArrives
<1>4. CASE LookUp(r)
  <2>1. pc \in [Call -> {"new"} \cup Labels \cup Ended]
    BY DEF Typed, CallTypes
  <2>2. \E s \in OrNone(AtOnce(r, Head(queue[r]))) : Resolved(r, s)
    BY <1>4, <2>1 DEF LookUp, Goto
  <2>3. PICK s \in OrNone(AtOnce(r, Head(queue[r]))) : Resolved(r, s)
    BY <2>2
  <2>4. s \in Symbol \cup {None}
    BY <1>2 DEF OrNone, AtOnce, GivenSymbol, Symbol
  <2> QED BY <1>1, <1>3, <1>4, <2>3, <2>4, ResolvedIs
<1>5. CASE OverviewArrives(r)
  <2>1. PICK s \in OrNone(Live(Head(queue[r]))) \cup {None} : Resolved(r, s)
    BY <1>5 DEF OverviewArrives
  <2>2. s \in Symbol \cup {None}
    BY <1>2 DEF OrNone
  <2> QED BY <1>1, <1>3, <1>5, <2>1, <2>2, ResolvedIs
<1> QED BY <1>4, <1>5

Acts(r) ==
  \/ WhyBegin(r) \/ WhereBegin(r) \/ VecBegin(r)
  \/ SourceAnswers(r) \/ FactsArrive(r) \/ ChunksArrive(r) \/ VecArrives(r)
  \/ LookUp(r) \/ OverviewArrives(r)

\* Every action of a call that searches is such a step.
LEMMA ActsOwn ==
  ASSUME Typed, NEW r \in Call, Acts(r) PROVE Own(r)
<1>1. AnswerTypes /\ WorldTypes
  BY DEF Typed
<1>2. todo = [q \in Call |-> todo[q]]
  BY <1>1 DEF AnswerTypes
<1>3. ASSUME NEW terms, NEW enough, NextTerm(r, terms, enough)
      PROVE  \E t : todo' = [todo EXCEPT ![r] = t]
  BY <1>3 DEF NextTerm
<1>4. ASSUME Started(r, "why") \/ Started(r, "where") \/ Started(r, "vec")
      PROVE  /\ \E v \in DOMAIN Overview : vbegan' = [vbegan EXCEPT ![r] = v]
             /\ \E w \in SUBSET Row : rbegan' = [rbegan EXCEPT ![r] = w]
  BY <1>1, <1>4 DEF Started, WorldTypes
<1>5. CASE WhyBegin(r)
  <2>1. \E a \in SUBSET Source : asked' = [asked EXCEPT ![r] = a]
    BY <1>5 DEF WhyBegin
  <2>2. UNCHANGED <<part, limit, todo, queue, out, offered>>
    BY <1>5 DEF WhyBegin, loop
  <2> QED BY <1>1, <1>4, <1>5, <2>1, <2>2, Alone DEF WhyBegin, Own
<1>6. CASE WhereBegin(r)
  <2>1. PICK n \in Limits : /\ limit' = [limit EXCEPT ![r] = n]
                            /\ UNCHANGED todo \/ \E terms, enough : NextTerm(r, terms, enough)
    BY <1>6 DEF WhereBegin
  <2>2. \E t : todo' = [todo EXCEPT ![r] = t]
    BY <1>1, <1>3, <2>1, Alone
  <2>3. UNCHANGED <<asked, part, queue, out, offered>>
    BY <1>6 DEF WhereBegin, fusion
  <2> QED BY <1>1, <1>4, <1>6, <2>1, <2>2, <2>3, Alone DEF WhereBegin, Own
<1>7. CASE VecBegin(r)
  <2>1. UNCHANGED <<asked, part, limit, todo, queue, out, offered>>
    BY <1>7 DEF VecBegin, fusion, loop
  <2> QED BY <1>1, <1>4, <1>7, <2>1, Alone DEF VecBegin, Own
<1>8. CASE SourceAnswers(r)
  <2>1. UNCHANGED <<limit, todo, queue, out, offered>> /\ UNCHANGED start
    BY <1>8 DEF SourceAnswers, loop
  <2>2. PICK s \in asked[r] : /\ \E l \in Answers(UpstreamOf[s], Results[s]) : part' = [part EXCEPT ![r][s] = l]
                              /\ asked' = [asked EXCEPT ![r] = @ \ {s}]
    BY <1>8 DEF SourceAnswers
  <2>3. s \in Source /\ asked[r] \ {s} \in SUBSET Source
    BY <1>1, <2>2 DEF AnswerTypes
  <2>4. \E l \in Results[s] \cup {<<>>} : part' = [part EXCEPT ![r][s] = l]
    BY <2>2 DEF Answers
  <2>5. \E a \in SUBSET Source : asked' = [asked EXCEPT ![r] = a]
    BY <2>2, <2>3
  <2> QED BY <1>1, <2>1, <2>3, <2>4, <2>5, Alone DEF Own
<1>9. CASE FactsArrive(r)
  <2>1. \E t : todo' = [todo EXCEPT ![r] = t]
    BY <1>3, <1>9 DEF FactsArrive
  <2>2. UNCHANGED <<asked, part, limit, queue, out, offered>> /\ UNCHANGED start
    BY <1>9 DEF FactsArrive, fusion
  <2> QED BY <1>1, <2>1, <2>2, Alone DEF Own
<1>10. CASE ChunksArrive(r)
  <2>1. PICK chunks \in Answers("claude_context", Results["vec"]) :
          \E rest \in GoingOn(chunks, Places(out[r])) :
            /\ offered' = [offered EXCEPT ![r] = @ \cup ToSet(chunks)]
            /\ queue' = [queue EXCEPT ![r] = rest]
            /\ \/ \E terms, enough : NextTerm(r, terms, enough)
               \/ todo' = [todo EXCEPT ![r] = Tail(@)]
    BY <1>10 DEF ChunksArrive
  <2>2. chunks \in Seq(Chunk)
    BY <2>1, RetrievalAssumption, EmptySeq DEF Answers
  <2>3. PICK rest \in Seq(Chunk) : queue' = [queue EXCEPT ![r] = rest]
    BY <2>1, <2>2, GoingOnIs
  <2>4. ToSet(chunks) \subseteq Chunk
    BY <2>2, LenProperties DEF ToSet
  <2>5. \E c \in SUBSET Chunk : offered' = [offered EXCEPT ![r] = c]
    BY <1>1, <2>1, <2>4 DEF AnswerTypes
  <2>6. \E t : todo' = [todo EXCEPT ![r] = t]
    BY <1>3, <2>1
  <2>7. UNCHANGED <<asked, part, limit, out>> /\ UNCHANGED start
    BY <1>10 DEF ChunksArrive, fusion
  <2> QED BY <1>1, <2>3, <2>5, <2>6, <2>7, Alone DEF Own
<1>11. CASE VecArrives(r)
  <2>1. UNCHANGED <<asked, part, limit, todo, out, offered>> /\ UNCHANGED start
    BY <1>11 DEF VecArrives, fusion
  <2>2. UNCHANGED queue \/ \E chunks \in Results["vec"] : queue' = [queue EXCEPT ![r] = chunks]
    BY <1>11 DEF VecArrives
  <2>3. \E q \in Seq(Chunk) : queue' = [queue EXCEPT ![r] = q]
    BY <1>1, <2>2, Alone, RetrievalAssumption
  <2> QED BY <1>1, <2>1, <2>3, Alone DEF Own
<1>12. CASE LookUp(r) \/ OverviewArrives(r)
  <2>1. UNCHANGED <<asked, part, limit, offered>> /\ UNCHANGED start
    BY <1>12 DEF LookUp, OverviewArrives, fusion
  <2>2. CASE pc'[r] # "overview"
    <3>1. PICK symbol \in Symbol \cup {None}, rest \in Seq(Chunk) :
            Resolves(r, Append(out[r], [chunk |-> Head(queue[r]), symbol |-> symbol]), rest)
      BY <1>12, <2>2, ResolveIs
    <3>2. [chunk |-> Head(queue[r]), symbol |-> symbol] \in Done
      BY <1>12, HeadTailProperties DEF LookUp, OverviewArrives, Typed, Queued, AnswerTypes, Done
    <3>3. Append(out[r], [chunk |-> Head(queue[r]), symbol |-> symbol]) \in Seq(Done)
      BY <1>1, <3>2, AppendProperties DEF AnswerTypes
    <3> QED BY <1>1, <2>1, <3>1, <3>3, Alone DEF Own, Resolves
  <2>3. CASE pc'[r] = "overview"
    <3>1. pc \in [Call -> {"new"} \cup Labels \cup Ended]
      BY DEF Typed, CallTypes
    <3>2. UNCHANGED <<out, queue, todo>>
      BY <1>12, <2>3, <3>1 DEF LookUp, OverviewArrives, Resolved, NextTerm, Goto
    <3> QED BY <1>1, <2>1, <3>2, Alone DEF Own
  <2> QED BY <2>2, <2>3
<1> QED BY <1>5, <1>6, <1>7, <1>8, <1>9, <1>10, <1>11, <1>12 DEF Acts

\* How any other step can move a call: out of the way, or where it has no chunks.
Elsewhere(q) ==
  \/ pc'[q] = pc[q]
  \/ pc'[q] = "lost"
  \/ pc[q] \in {"new", "proxy", "probe", "check"} /\ pc'[q] \in {"proxy", "probe", "check", "ok", "failed"}

\* A step that is none of these leaves alone what calls keep.
LEMMA OtherSteps ==
  ASSUME Typed, [Next]_vars, \A r \in Call : ~Acts(r)
  PROVE  UNCHANGED answer /\ \A q \in Call : Elsewhere(q)
<1>1. pc \in [Call -> {"new"} \cup Labels \cup Ended]
  BY DEF Typed, CallTypes
<1>2. CASE LifeStep /\ UNCHANGED answer
  BY <1>2 DEF LifeStep, Boot, Interrupt, Die, Hang, Disconnect, Shutdown, Elsewhere
<1>3. ASSUME NEW r \in Call, ProxyBegin(r) \/ HealthBegin(r) \/ ContradictsBegin(r), UNCHANGED answer
      PROVE  \A q \in Call : Elsewhere(q)
  BY <1>1, <1>3 DEF ProxyBegin, HealthBegin, ContradictsBegin, Begin, Probing, Tell, Goto, Elsewhere
<1>4. ASSUME NEW r \in Call, ProxyEnd(r) \/ ProbeEnd(r) \/ SubprocessEnds(r), UNCHANGED answer
      PROVE  \A q \in Call : Elsewhere(q)
  BY <1>1, <1>4 DEF ProxyEnd, ProbeEnd, SubprocessEnds, Probing, Tell, Goto, Elsewhere
<1>5. CASE Edit \/ DropRow \/ UNCHANGED vars
  BY <1>5 DEF Edit, DropRow, vars, upvars, Elsewhere
<1> QED BY <1>2, <1>3, <1>4, <1>5 DEF Next, ServerStep, Asked, Answered, Acts, LifeStep

\* The step of one call does not move another.
LEMMA ActsAlone ==
  ASSUME Typed, NEW r \in Call, Acts(r)
  PROVE  \A q \in Call : q # r => pc'[q] = pc[q]
<1>1. pc \in [Call -> {"new"} \cup Labels \cup Ended]
  BY DEF Typed, CallTypes
<1>2. ASSUME NEW terms, NEW enough, NextTerm(r, terms, enough)
      PROVE  \A q \in Call : q # r => pc'[q] = pc[q]
  BY <1>1, <1>2 DEF NextTerm, Goto
<1>3. CASE WhyBegin(r) \/ VecBegin(r) \/ SourceAnswers(r) \/ VecArrives(r)
  BY <1>1, <1>3 DEF WhyBegin, VecBegin, SourceAnswers, VecArrives, Goto
<1>4. CASE WhereBegin(r) \/ FactsArrive(r) \/ ChunksArrive(r)
  BY <1>1, <1>2, <1>4 DEF WhereBegin, FactsArrive, ChunksArrive, Goto
<1>5. ASSUME NEW symbol, Resolved(r, symbol) PROVE \A q \in Call : q # r => pc'[q] = pc[q]
  BY <1>1, <1>2, <1>5 DEF Resolved, Goto
<1>6. CASE LookUp(r) \/ OverviewArrives(r)
  BY <1>1, <1>5, <1>6 DEF LookUp, OverviewArrives, Goto
<1> QED BY <1>3, <1>4, <1>6 DEF Acts

\* A call goes on to resolve chunks when it has some.
LEMMA QueuedStep ==
  ASSUME Typed, NEW r \in Call, Acts(r) PROVE Queued(r)'
<1>1. /\ pc \in [Call -> {"new"} \cup Labels \cup Ended]
      /\ queue \in [Call -> Seq(Chunk)] /\ Queued(r)
  BY DEF Typed, CallTypes, AnswerTypes
<1>2. ASSUME NEW terms, NEW enough, NextTerm(r, terms, enough) PROVE pc'[r] \in {"ok", "terms"}
  BY <1>1, <1>2 DEF NextTerm, Goto
<1>3. CASE WhyBegin(r) \/ VecBegin(r) \/ SourceAnswers(r)
  BY <1>1, <1>3 DEF WhyBegin, VecBegin, SourceAnswers, Started, Begin, Goto, loop, Queued
<1>4. CASE WhereBegin(r) \/ FactsArrive(r)
  <2>1. pc'[r] \in {"ok", "terms", "facts"} /\ queue' = queue /\ pc[r] \in {"new", "facts"}
    BY <1>1, <1>2, <1>4 DEF WhereBegin, FactsArrive, Started, Begin, Goto
  <2> QED BY <1>1, <2>1 DEF Queued
<1>5. CASE ChunksArrive(r)
  <2>1. PICK rest : /\ queue' = [queue EXCEPT ![r] = rest]
                    /\ rest = <<>> => \E terms, enough : NextTerm(r, terms, enough)
                    /\ rest # <<>> => Goto(r, "resolve")
    BY <1>5 DEF ChunksArrive
  <2>2. queue'[r] = rest
    BY <1>1, <2>1
  <2>3. (rest = <<>> => pc'[r] \in {"ok", "terms"}) /\ (rest # <<>> => pc'[r] = "resolve")
    BY <1>1, <1>2, <2>1 DEF Goto
  <2> QED BY <2>2, <2>3 DEF Queued
<1>6. CASE VecArrives(r)
  <2>1. \/ \E chunks \in Results["vec"] : /\ queue' = [queue EXCEPT ![r] = chunks]
                                          /\ Goto(r, IF chunks = <<>> THEN "ok" ELSE "resolve")
        \/ Goto(r, "failed") /\ UNCHANGED queue
    BY <1>6 DEF VecArrives
  <2>2. pc[r] = "search"
    BY <1>6 DEF VecArrives
  <2> QED BY <1>1, <2>1, <2>2 DEF Goto, Queued
<1>7. CASE LookUp(r) \/ OverviewArrives(r)
  <2>1. CASE pc'[r] # "overview"
    <3>1. PICK symbol \in Symbol \cup {None}, rest \in Seq(Chunk) :
            Resolves(r, Append(out[r], [chunk |-> Head(queue[r]), symbol |-> symbol]), rest)
      BY <1>7, <2>1, ResolveIs
    <3>2. queue'[r] = rest
      BY <1>1, <3>1 DEF Resolves
    <3>3. (rest = <<>> => pc'[r] \in {"ok", "terms"}) /\ (rest # <<>> => pc'[r] = "resolve")
      BY <1>1, <3>1 DEF Resolves, Goto
    <3> QED BY <3>2, <3>3 DEF Queued
  <2>2. CASE pc'[r] = "overview"
    <3>1. UNCHANGED queue /\ pc[r] \in {"resolve", "overview"}
      BY <1>1, <1>7, <2>2 DEF LookUp, OverviewArrives, Resolved, NextTerm, Goto
    <3> QED BY <1>1, <2>2, <3>1 DEF Queued
  <2> QED BY <2>1, <2>2
<1> QED BY <1>3, <1>4, <1>5, <1>6, <1>7 DEF Acts

\* The version only grows, the rows only shrink.
LEMMA WorldStep ==
  ASSUME WorldTypes, [Next]_vars
  PROVE  WorldTypes' /\ version <= version' /\ rows' \subseteq rows
<1>1. LastVersion \in Nat \ {0} /\ DOMAIN Overview = 1..LastVersion
  BY RetrievalAssumption
<1>2. CASE UNCHANGED world
  BY <1>1, <1>2 DEF world, WorldTypes
<1>3. CASE Edit \/ DropRow
  BY <1>1, <1>3 DEF Edit, DropRow, WorldTypes
<1>4. CASE ServerStep \/ UNCHANGED vars
  BY <1>2, <1>4 DEF ServerStep, vars
<1>5. ASSUME NEW r \in Call, Asked(r) PROVE UNCHANGED world
  BY <1>5 DEF Asked, WhyBegin, WhereBegin, VecBegin, others
<1>6. ASSUME NEW r \in Call, Answered(r) PROVE UNCHANGED world
  BY <1>6 DEF Answered, SourceAnswers, FactsArrive, ChunksArrive, VecArrives, LookUp,
              OverviewArrives, others
<1> QED BY <1>2, <1>3, <1>4, <1>5, <1>6 DEF Next

\* Every step keeps the types.
LEMMA TypedStep == HealthInv /\ Typed /\ [Next]_vars => (HealthInv /\ Typed)'
<1> SUFFICES ASSUME HealthInv, Typed, [Next]_vars PROVE HealthInv' /\ Typed'
  OBVIOUS
<1>1. HealthInv' /\ ProcessTypes' /\ CallTypes'
  BY HealthStep DEF HealthInv
<1>2. WorldTypes'
  BY WorldStep DEF Typed
<1>3. AnswerTypes /\ \A q \in Call : Queued(q)
  BY DEF Typed
<1>4. ASSUME NEW r \in Call, Acts(r) PROVE AnswerTypes' /\ \A q \in Call : Queued(q)'
  <2>1. AnswerTypes' /\ \A q \in Call : q # r => queue'[q] = queue[q]
    BY <1>3, <1>4, ActsOwn, OwnTypes
  <2>2. \A q \in Call : q # r => pc'[q] = pc[q]
    BY <1>4, ActsAlone
  <2>3. Queued(r)'
    BY <1>4, QueuedStep
  <2>4. ASSUME NEW q \in Call PROVE Queued(q)'
    <3>1. CASE q = r
      BY <2>3, <3>1
    <3>2. CASE q # r
      <4>1. queue'[q] = queue[q] /\ pc'[q] = pc[q] /\ Queued(q)
        BY <1>3, <2>1, <2>2, <3>2
      <4> QED BY <4>1 DEF Queued
    <3> QED BY <3>1, <3>2
  <2> QED BY <2>1, <2>4
<1>5. CASE \A r \in Call : ~Acts(r)
  <2>1. UNCHANGED answer /\ \A q \in Call : Elsewhere(q)
    BY <1>5, OtherSteps
  <2>2. AnswerTypes'
    BY <1>3, <2>1 DEF answer, fusion, loop, start, AnswerTypes
  <2>3. queue' = queue
    BY <2>1 DEF answer, loop
  <2>4. ASSUME NEW q \in Call PROVE Queued(q)'
    <3>1. Queued(q) /\ Elsewhere(q) /\ queue'[q] = queue[q]
      BY <1>3, <2>1, <2>3
    <3>2. CASE pc'[q] = pc[q] \/ pc'[q] = "lost"
      BY <3>1, <3>2 DEF Queued
    <3>3. CASE ~(pc'[q] = pc[q] \/ pc'[q] = "lost")
      <4>1. pc[q] \notin {"resolve", "overview", "lost"} /\ pc'[q] \notin {"resolve", "overview"}
        BY <3>1, <3>3 DEF Elsewhere
      <4>2. queue'[q] = <<>>
        BY <3>1, <4>1 DEF Queued
      <4> QED BY <4>1, <4>2 DEF Queued
    <3> QED BY <3>2, <3>3
  <2> QED BY <1>1, <1>2, <2>2, <2>4 DEF Typed
<1> QED BY <1>1, <1>2, <1>4, <1>5 DEF Typed

\* The types hold at first.
LEMMA TypedInit == Init => Typed
<1> SUFFICES ASSUME Init PROVE Typed
  OBVIOUS
<1>1. ProcessTypes /\ CallTypes
  BY HealthInit DEF HealthInv
<1>2. 1 \in DOMAIN Overview
  BY RetrievalAssumption
<1>3. <<>> \in Seq(Chunk) /\ <<>> \in Seq(Done)
  BY EmptySeq
<1>4. AnswerTypes
  BY <1>2, <1>3 DEF Init, AnswerTypes
<1>5. WorldTypes /\ \A r \in Call : Queued(r)
  BY <1>2 DEF Init, UpstreamsInit, WorldTypes, Queued
<1> QED BY <1>1, <1>4, <1>5 DEF Typed

\* Types, and the honesty of engram.health, hold in every state.
LEMMA TypedInvariance == Spec => [](HealthInv /\ Typed)
BY HealthInit, TypedInit, TypedStep, PTL DEF Spec

\* Every variable keeps its type, whatever the upstreams answer, for any number of calls,
\* upstreams, rows and versions of the files.
THEOREM TypeCorrect == Spec => []TypeOK
<1>1. Typed => UpstreamsTypeOK(Labels)
  BY DEF Typed, ProcessTypes, CallTypes, UpstreamsTypeOK
<1>2. ASSUME Typed, NEW r \in Call
      PROVE  /\ ToSet(queue[r]) \cup {o.chunk : o \in ToSet(out[r])} \subseteq Chunk
             /\ \A o \in ToSet(out[r]) : o.symbol \in Symbol \cup {None}
  <2>1. queue[r] \in Seq(Chunk) /\ out[r] \in Seq(Done)
    BY <1>2 DEF Typed, AnswerTypes
  <2>2. ToSet(queue[r]) \subseteq Chunk
    BY <2>1, LenProperties DEF ToSet
  <2>3. ToSet(out[r]) \subseteq Done
    BY <2>1, LenProperties DEF ToSet
  <2> QED BY <2>2, <2>3 DEF Done
<1>3. Typed /\ VerdictInv => TypeOK
  BY <1>1, <1>2 DEF Typed, AnswerTypes, WorldTypes, VerdictInv, TypeOK
<1> QED BY <1>3, TypedInvariance, VerdictInvariance, PTL

-----------------------------------------------------------------------------
(* What where_does_decision_apply found, and what it passed over. *)

Injective(done) == \A i, j \in DOMAIN done : Place(done[i].chunk) = Place(done[j].chunk) => i = j

\* A chunk that a search offered is passed over by now, or still waits for its symbol.
Considered(r) ==
  \A c \in offered[r] : Skipped(c, Places(out[r])) \/ \E i \in DOMAIN queue[r] : queue[r][i] = c

\* Only where_does_decision_apply has a limit.
Limited(r) == pc[r] \in {"new", "proxy", "probe", "check", "gather", "search"} => limit[r] = None

Room(r) == out[r] = <<>> \/ Len(out[r]) < limit[r]

Answering(r) ==
  /\ Injective(out[r])
  /\ pc[r] \in {"resolve", "overview"} => ~Skipped(Head(queue[r]), Places(out[r]))
  /\ pc[r] \in {"facts", "terms", "resolve", "overview"} => Room(r)
  /\ out[r] = <<>> \/ Len(out[r]) = 1 \/ Len(out[r]) <= limit[r]
  /\ limit[r] = 0 => out[r] = <<>> /\ pc[r] \notin {"terms", "resolve", "overview"}
  /\ Len(out[r]) >= limit[r] \/ Considered(r)

WhereInv(r) ==
  /\ pc[r] \in {"new", "facts"} => out[r] = <<>> /\ offered[r] = {}
  /\ Limited(r)
  /\ limit[r] # None => Answering(r)

\* One more chunk is done.
LEMMA OneMore ==
  ASSUME NEW done \in Seq(Done), NEW d \in Done
  PROVE  /\ Append(done, d) \in Seq(Done)
         /\ Len(done) \in Nat /\ Len(Append(done, d)) = Len(done) + 1
         /\ Append(done, d) # <<>>
         /\ Places(Append(done, d)) = Places(done) \cup {Place(d.chunk)}
         /\ Injective(done) /\ Place(d.chunk) \notin Places(done) => Injective(Append(done, d))
<1> DEFINE more == Append(done, d)
<1>1. /\ more \in Seq(Done) /\ Len(more) = Len(done) + 1
      /\ \A i \in 1..Len(done) : more[i] = done[i]
      /\ more[Len(done) + 1] = d
  BY AppendProperties
<1>2. Len(done) \in Nat /\ DOMAIN done = 1..Len(done) /\ DOMAIN more = 1..(Len(done) + 1)
  BY <1>1, LenProperties
<1>3. more # <<>>
  BY <1>1, <1>2, EmptySeq
<1> HIDE DEF more
<1>4. DOMAIN more = DOMAIN done \cup {Len(done) + 1}
  BY <1>2
<1>5. Places(more) = Places(done) \cup {Place(d.chunk)}
  BY <1>1, <1>2, <1>4 DEF Places
<1>6. ASSUME Injective(done), Place(d.chunk) \notin Places(done) PROVE Injective(more)
  BY <1>1, <1>2, <1>4, <1>6 DEF Injective, Places
<1> QED BY <1>1, <1>2, <1>3, <1>5, <1>6 DEF more

\* A chunk that is passed over stays so.
LEMMA StaysSkipped ==
  ASSUME NEW c, NEW seen, NEW more, Skipped(c, seen), seen \subseteq more PROVE Skipped(c, more)
BY DEF Skipped

\* The limit 0 leaves no term.
LEMMA NoTerms == ASSUME NEW terms PROVE FirstTerms(terms, 0) = <<>>
BY DEF FirstTerms

\* Where a call goes on with the terms that it has left.
LEMMA NextTermGoes ==
  ASSUME Typed, NEW r \in Call, NEW terms, NEW enough, NextTerm(r, terms, enough)
  PROVE  /\ pc'[r] \in {"ok", "terms"}
         /\ enough \/ terms = <<>> => pc'[r] = "ok"
<1>1. pc \in [Call -> {"new"} \cup Labels \cup Ended]
  BY DEF Typed, CallTypes
<1> QED BY <1>1 DEF NextTerm, Goto

\* where_does_decision_apply begins, with or without facts to ask for.
LEMMA WhereBegins ==
  ASSUME Typed, NEW r \in Call, WhereInv(r), WhereBegin(r)
  PROVE  WhereInv(r)'
<1>1. /\ pc \in [Call -> {"new"} \cup Labels \cup Ended]
      /\ limit \in [Call -> Limits \cup {None}]
  BY DEF Typed, CallTypes, AnswerTypes
<1>2. PICK n \in Limits : /\ limit' = [limit EXCEPT ![r] = n]
                          /\ Goto(r, "facts") \/ NextTerm(r, FirstTerms(<<Entity>>, n), FALSE)
  BY DEF WhereBegin
<1>3. pc[r] = "new" /\ UNCHANGED <<queue, out, offered>>
  BY DEF WhereBegin, Started, Begin
<1>4. out[r] = <<>> /\ offered[r] = {} /\ limit'[r] = n
  BY <1>1, <1>2, <1>3 DEF WhereInv
<1>5. pc'[r] \in {"facts", "terms", "ok"} /\ (n = 0 => pc'[r] \in {"facts", "ok"})
  BY <1>1, <1>2, NextTermGoes, NoTerms DEF Goto
<1>6. Injective(<<>>)
  BY DEF Injective
<1> QED BY <1>3, <1>4, <1>5, <1>6 DEF WhereInv, Limited, Answering, Room, Considered

\* The facts only give terms.
LEMMA FactsCount ==
  ASSUME Typed, NEW r \in Call, WhereInv(r), FactsArrive(r)
  PROVE  WhereInv(r)'
<1>1. PICK facts : NextTerm(r, FirstTerms(RelatedTerms(facts), limit[r]), FALSE)
  BY DEF FactsArrive
<1>2. pc[r] = "facts" /\ UNCHANGED <<limit, queue, out, offered>>
  BY DEF FactsArrive
<1>3. pc'[r] \in {"terms", "ok"} /\ (limit[r] = 0 => pc'[r] = "ok")
  BY <1>1, NextTermGoes, NoTerms
<1> QED BY <1>2, <1>3 DEF WhereInv, Limited, Answering, Room, Considered

\* A search: what it offers is passed over or waits.
LEMMA ChunksCount ==
  ASSUME Typed, NEW r \in Call, WhereInv(r), ChunksArrive(r)
  PROVE  WhereInv(r)'
<1>1. /\ pc \in [Call -> {"new"} \cup Labels \cup Ended]
      /\ queue \in [Call -> Seq(Chunk)] /\ offered \in [Call -> SUBSET Chunk] /\ Queued(r)
  BY DEF Typed, CallTypes, AnswerTypes
<1>2. PICK chunks \in Answers("claude_context", Results["vec"]) :
        \E rest \in GoingOn(chunks, Places(out[r])) :
          /\ offered' = [offered EXCEPT ![r] = @ \cup ToSet(chunks)]
          /\ queue' = [queue EXCEPT ![r] = rest]
          /\ rest = <<>> => NextTerm(r, Tail(todo[r]), FALSE)
          /\ rest # <<>> => Goto(r, "resolve")
  BY DEF ChunksArrive
<1>3. PICK rest \in GoingOn(chunks, Places(out[r])) :
        /\ offered' = [offered EXCEPT ![r] = @ \cup ToSet(chunks)]
        /\ queue' = [queue EXCEPT ![r] = rest]
        /\ rest = <<>> => NextTerm(r, Tail(todo[r]), FALSE)
        /\ rest # <<>> => Goto(r, "resolve")
  BY <1>2
<1>4. chunks \in Seq(Chunk)
  BY <1>2, RetrievalAssumption, EmptySeq DEF Answers
<1>5. /\ rest # <<>> => ~Skipped(Head(rest), Places(out[r]))
      /\ \A j \in DOMAIN chunks :
           Skipped(chunks[j], Places(out[r])) \/ \E i \in DOMAIN rest : rest[i] = chunks[j]
  BY <1>3, <1>4, GoingOnIs
<1>6. /\ pc[r] = "terms" /\ UNCHANGED <<limit, out>>
      /\ queue'[r] = rest /\ offered'[r] = offered[r] \cup ToSet(chunks)
  BY <1>1, <1>3 DEF ChunksArrive
<1>7. pc'[r] \in {"terms", "ok", "resolve"} /\ (pc'[r] = "resolve" => rest # <<>>)
  BY <1>1, <1>3, NextTermGoes DEF Goto
<1>8. \A c \in ToSet(chunks) : \E j \in DOMAIN chunks : c = chunks[j]
  BY <1>4, LenProperties DEF ToSet
<1>9. ASSUME Considered(r) PROVE Considered(r)'
  <2>1. queue[r] = <<>>
    BY <1>1, <1>6 DEF Queued
  <2>2. \A c \in offered[r] : Skipped(c, Places(out[r]))
    BY <1>9, <2>1 DEF Considered
  <2>3. ASSUME NEW c \in offered'[r]
        PROVE  Skipped(c, Places(out[r])) \/ \E i \in DOMAIN rest : rest[i] = c
    BY <1>5, <1>6, <1>8, <2>2, <2>3
  <2>4. Places(out'[r]) = Places(out[r])
    BY <1>6
  <2> QED BY <1>6, <2>3, <2>4 DEF Considered
<1>10. Answering(r) => Answering(r)'
  BY <1>5, <1>6, <1>7, <1>9 DEF Answering, Room
<1> QED BY <1>6, <1>7, <1>10 DEF WhereInv, Limited

\* A chunk is done: its place is new, and the rest is passed over or waits.
LEMMA ResolvedCounts ==
  ASSUME Typed, NEW r \in Call, WhereInv(r), pc[r] \in {"resolve", "overview"},
         UNCHANGED <<limit, offered>>,
         NEW symbol \in Symbol \cup {None}, NEW rest \in Seq(Chunk),
         Resolves(r, Append(out[r], [chunk |-> Head(queue[r]), symbol |-> symbol]), rest)
  PROVE  WhereInv(r)'
<1> DEFINE d == [chunk |-> Head(queue[r]), symbol |-> symbol]
           done == Append(out[r], d)
<1>1. /\ pc \in [Call -> {"new"} \cup Labels \cup Ended]
      /\ queue \in [Call -> Seq(Chunk)] /\ out \in [Call -> Seq(Done)] /\ queue[r] # <<>>
      /\ limit[r] \in Int \cup {None}
  BY RetrievalAssumption DEF Typed, CallTypes, AnswerTypes, Queued
<1>2. /\ Head(queue[r]) \in Chunk /\ Tail(queue[r]) \in Seq(Chunk) /\ d \in Done
      /\ d.chunk = Head(queue[r])
  BY <1>1, HeadTailProperties DEF Done
<1>3. Resolves(r, done, rest)
  OBVIOUS
<1> HIDE DEF d
<1>4. /\ Len(out[r]) \in Nat /\ Len(done) = Len(out[r]) + 1 /\ done # <<>>
      /\ Places(done) = Places(out[r]) \cup {Place(d.chunk)}
      /\ Injective(out[r]) /\ Place(d.chunk) \notin Places(out[r]) => Injective(done)
  BY <1>1, <1>2, OneMore
<1> HIDE DEF done
<1>5. out'[r] = done /\ queue'[r] = rest /\ limit'[r] = limit[r] /\ offered'[r] = offered[r]
  BY <1>1, <1>3 DEF Resolves
<1>6. pc'[r] \in {"resolve", "ok", "terms"} /\ (pc'[r] = "resolve" <=> rest # <<>>)
  BY <1>1, <1>3 DEF Resolves, Goto
<1>7. ASSUME limit[r] # None PROVE Answering(r)'
  <2>1. Answering(r)
    BY <1>7 DEF WhereInv
  <2>2. Place(d.chunk) \notin Places(out[r]) /\ Injective(done)
    BY <1>2, <1>4, <2>1 DEF Answering, Skipped
  <2>3. limit[r] # 0 /\ (out[r] = <<>> \/ Len(out[r]) < limit[r]) /\ limit[r] \in Int
    BY <1>1, <1>7, <2>1 DEF Answering, Room
  <2>4. Len(done) = 1 \/ Len(done) <= limit[r]
    <3>1. out[r] = <<>> => Len(out[r]) = 0
      BY EmptySeq
    <3> QED BY <1>4, <2>3, <3>1
  <2>5. CASE Len(done) >= limit[r]
    <3>1. pc'[r] = "ok"
      BY <1>1, <1>3, <1>7, <2>5 DEF Resolves, Goto
    <3> QED BY <1>5, <2>2, <2>3, <2>4, <2>5, <3>1 DEF Answering
  <2>6. CASE ~(Len(done) >= limit[r])
    <3> DEFINE left == Tail(queue[r])
               seen == Places(done)
    <3>1. left \in Seq(Chunk) /\ rest \in GoingOn(left, seen)
      BY <1>2, <1>3, <1>7, <2>6 DEF Resolves
    <3> HIDE DEF left, seen
    <3>2. /\ rest # <<>> => ~Skipped(Head(rest), seen)
          /\ \A j \in DOMAIN left : Skipped(left[j], seen) \/ \E i \in DOMAIN rest : rest[i] = left[j]
      BY <3>1, GoingOnIs
    <3> USE DEF left, seen
    <3>3. ASSUME NEW c \in offered[r]
          PROVE  Skipped(c, Places(done)) \/ \E i \in DOMAIN rest : rest[i] = c
      <4>1. CASE Skipped(c, Places(out[r]))
        BY <1>4, <4>1, StaysSkipped
      <4>2. CASE \E i \in DOMAIN queue[r] : queue[r][i] = c
        <5>1. PICK i \in DOMAIN queue[r] : queue[r][i] = c
          BY <4>2
        <5>2. CASE i = 1
          <6>1. c = d.chunk
            BY <1>1, <1>2, <5>1, <5>2, HeadTailProperties
          <6> QED BY <1>4, <6>1 DEF Skipped
        <5>3. CASE i # 1
          <6>1. /\ DOMAIN queue[r] = 1..Len(queue[r]) /\ Len(queue[r]) \in Nat
                /\ Len(Tail(queue[r])) = Len(queue[r]) - 1
                /\ \A j \in 1..Len(Tail(queue[r])) : Tail(queue[r])[j] = queue[r][j + 1]
            BY <1>1, HeadTailProperties, LenProperties
          <6>2. DOMAIN Tail(queue[r]) = 1..Len(Tail(queue[r]))
            BY <1>2, LenProperties
          <6>3. i - 1 \in 1..Len(Tail(queue[r])) /\ (i - 1) + 1 = i
            BY <5>1, <5>3, <6>1
          <6>4. i - 1 \in DOMAIN Tail(queue[r]) /\ Tail(queue[r])[i - 1] = c
            BY <5>1, <6>1, <6>2, <6>3
          <6> QED BY <3>2, <6>4
        <5> QED BY <5>2, <5>3
      <4>3. ~(Len(out[r]) >= limit[r])
        BY <1>4, <2>3, <2>6
      <4> QED BY <2>1, <4>1, <4>2, <4>3 DEF Answering, Considered
    <3>4. Considered(r)'
      BY <1>5, <3>3 DEF Considered
    <3>5. Len(done) < limit[r]
      BY <1>4, <2>3, <2>6
    <3> QED BY <1>5, <1>6, <2>2, <2>3, <2>4, <3>2, <3>4, <3>5 DEF Answering, Room
  <2> QED BY <2>5, <2>6
<1> QED BY <1>5, <1>6, <1>7 DEF WhereInv, Limited

\* Each action of a call keeps what the call knows of its search.
LEMMA WhereActs ==
  ASSUME Typed, NEW r \in Call, WhereInv(r), Acts(r)
  PROVE  WhereInv(r)'
<1>1. pc \in [Call -> {"new"} \cup Labels \cup Ended] /\ limit \in [Call -> Limits \cup {None}]
  BY DEF Typed, CallTypes, AnswerTypes
<1>2. CASE WhereBegin(r) \/ FactsArrive(r) \/ ChunksArrive(r)
  BY <1>2, WhereBegins, FactsCount, ChunksCount
<1>3. CASE WhyBegin(r) \/ VecBegin(r) \/ SourceAnswers(r) \/ VecArrives(r)
  <2>1. limit[r] = None /\ UNCHANGED limit /\ pc'[r] \notin {"new", "facts"}
    BY <1>1, <1>3 DEF WhyBegin, VecBegin, SourceAnswers, VecArrives, Started, Begin, Goto, loop,
                      WhereInv, Limited
  <2> QED BY <2>1 DEF WhereInv, Limited
<1>4. CASE LookUp(r) \/ OverviewArrives(r)
  <2>1. pc[r] \in {"resolve", "overview"} /\ UNCHANGED <<limit, offered>>
    BY <1>4 DEF LookUp, OverviewArrives
  <2>2. CASE pc'[r] # "overview"
    <3>1. PICK symbol \in Symbol \cup {None}, rest \in Seq(Chunk) :
            Resolves(r, Append(out[r], [chunk |-> Head(queue[r]), symbol |-> symbol]), rest)
      BY <1>4, <2>2, ResolveIs
    <3> QED BY <2>1, <3>1, ResolvedCounts
  <2>3. CASE pc'[r] = "overview"
    <3>1. UNCHANGED <<out, queue>>
      BY <1>1, <1>4, <2>3 DEF LookUp, OverviewArrives, Resolved, NextTerm, Goto
    <3>2. Answering(r) => Answering(r)'
      BY <2>1, <2>3, <3>1 DEF Answering, Room, Considered
    <3> QED BY <2>1, <2>3, <3>1, <3>2 DEF WhereInv, Limited
  <2> QED BY <2>2, <2>3
<1> QED BY <1>2, <1>3, <1>4 DEF Acts

Where == \A r \in Call : WhereInv(r)

\* Every step keeps what each call knows of its search.
LEMMA WhereStep == Typed /\ Where /\ [Next]_vars => Where'
<1> SUFFICES ASSUME Typed, Where, [Next]_vars, NEW q \in Call
             PROVE  WhereInv(q)'
  BY DEF Where
<1>1. \A r \in Call : WhereInv(r)
  BY DEF Where
<1>2. ASSUME UNCHANGED <<limit[q], queue[q], out[q], offered[q]>>, Elsewhere(q)
      PROVE  WhereInv(q)'
  <2>1. CASE pc'[q] = pc[q] \/ pc'[q] = "lost"
    <3>1. Answering(q) => Answering(q)'
      BY <1>2, <2>1 DEF Answering, Room, Considered
    <3> QED BY <1>1, <1>2, <2>1, <3>1 DEF WhereInv, Limited
  <2>2. CASE ~(pc'[q] = pc[q] \/ pc'[q] = "lost")
    <3>1. /\ pc[q] \in {"new", "proxy", "probe", "check"}
          /\ pc'[q] \in {"proxy", "probe", "check", "ok", "failed"}
      BY <1>2, <2>2 DEF Elsewhere
    <3> QED BY <1>1, <1>2, <3>1 DEF WhereInv, Limited
  <2> QED BY <2>1, <2>2
<1>3. CASE \A r \in Call : ~Acts(r)
  <2>1. UNCHANGED answer /\ Elsewhere(q)
    BY <1>3, OtherSteps
  <2> QED BY <1>2, <2>1 DEF answer, loop
<1>4. ASSUME NEW r \in Call, Acts(r) PROVE WhereInv(q)'
  <2>1. CASE q = r
    BY <1>1, <1>4, <2>1, WhereActs
  <2>2. CASE q # r
    <3>1. UNCHANGED <<limit[q], queue[q], out[q], offered[q]>>
      BY <1>4, <2>2, ActsOwn, OwnTypes DEF Typed
    <3>2. Elsewhere(q)
      BY <1>4, <2>2, ActsAlone DEF Elsewhere
    <3> QED BY <1>2, <3>1, <3>2
  <2> QED BY <2>1, <2>2
<1> QED BY <1>3, <1>4

\* An answer of where_does_decision_apply names no place twice and not too many, and unless it is
\* full it has every place that a search offered (engram_ns.py), whatever failed meanwhile.
THEOREM NothingOverlooked == Spec => []WhereComplete
<1>1. Init => Where
  BY DEF Init, UpstreamsInit, Where, WhereInv, Limited
<1>2. ASSUME NEW n \in Nat, NEW l \in Int, n = 0 \/ n = 1 \/ n <= l
      PROVE  n <= Max({l, 1})
  <2>1. \E x \in {l, 1} : \A y \in {l, 1} : x >= y
    BY <1>2
  <2>2. Max({l, 1}) \in {l, 1} /\ Max({l, 1}) >= l /\ Max({l, 1}) >= 1
    BY <2>1 DEF Max
  <2> QED BY <1>2, <2>2
<1>3. ASSUME Typed, NEW r \in Call, WhereInv(r), pc[r] = "ok", limit[r] # None
      PROVE  /\ IsInjective([i \in DOMAIN out[r] |-> Place(out[r][i].chunk)])
             /\ limit[r] # 0 => Len(out[r]) <= Max({limit[r], 1})
             /\ limit[r] = 0 => out[r] = <<>>
             /\ \/ Len(out[r]) >= limit[r]
                \/ {Place(c) : c \in {d \in offered[r] : Locatable(d)}} \subseteq Places(out[r])
  <2>1. Answering(r) /\ queue[r] = <<>> /\ limit[r] \in Int /\ Len(out[r]) \in Nat
    BY <1>3, RetrievalAssumption, LenProperties DEF WhereInv, Typed, Queued, AnswerTypes
  <2>2. IsInjective([i \in DOMAIN out[r] |-> Place(out[r][i].chunk)])
    BY <2>1 DEF Answering, Injective, IsInjective
  <2>3. limit[r] # 0 => Len(out[r]) <= Max({limit[r], 1})
    <3>1. out[r] = <<>> => Len(out[r]) = 0
      BY EmptySeq
    <3>2. Len(out[r]) = 0 \/ Len(out[r]) = 1 \/ Len(out[r]) <= limit[r]
      BY <2>1, <3>1 DEF Answering
    <3> QED BY <1>2, <2>1, <3>2
  <2>4. Considered(r) =>
          {Place(c) : c \in {d \in offered[r] : Locatable(d)}} \subseteq Places(out[r])
    BY <2>1 DEF Considered, Skipped
  <2> QED BY <2>1, <2>2, <2>3, <2>4 DEF Answering
<1>4. Typed /\ Where => WhereComplete
  BY <1>3 DEF Where, WhereComplete
<1> QED BY <1>1, <1>4, TypedInvariance, WhereStep, PTL DEF Spec

-----------------------------------------------------------------------------
(* The symbols that chunks got. *)

\* The row a cached symbol is from, which may be gone by now, and the version a live one is from.
FromRow(r, o) ==
  \E w \in rbegan[r] :
    /\ w.path = o.chunk.path /\ w.lo <= o.chunk.start /\ o.chunk.end <= w.hi
    /\ w.lo = o.symbol.lo /\ w.hi = o.symbol.hi
    /\ \A t \in RowsFor(o.chunk) : w.hi - w.lo <= t.hi - t.lo
FromVersion(r, o) ==
  \E v \in vbegan[r]..version :
    \E s \in Innermost(Overview[v][o.chunk.path], o.chunk) :
      s.lo = o.symbol.lo /\ s.hi = o.symbol.hi

Enclosed(r, o) ==
  IF o.symbol # None /\ o.symbol.from = "given" THEN o.chunk.given
  ELSE IF o.symbol # None /\ o.symbol.from = "cache"
  THEN FromRow(r, o)
  ELSE /\ Locatable(o.chunk) => RowsFor(o.chunk) = {}
       /\ o.symbol # None => FromVersion(r, o)

\* What has changed since the call began.
Since(r) == rows \subseteq rbegan[r] /\ vbegan[r] <= version

SymbolInv(r) ==
  /\ pc[r] = "new" => out[r] = <<>>
  /\ pc[r] \in {"facts", "terms", "search", "resolve", "overview"} => Since(r)
  /\ pc[r] = "overview" => Locatable(Head(queue[r])) /\ RowsFor(Head(queue[r])) = {}
  /\ \A i \in DOMAIN out[r] : Enclosed(r, out[r][i])

\* Edits and dropped rows leave a found symbol as good as it was.
LEMMA StaysEnclosed ==
  ASSUME Typed, [Next]_vars, NEW r \in Call, UNCHANGED <<vbegan[r], rbegan[r]>>,
         NEW o, Enclosed(r, o)
  PROVE  Enclosed(r, o)'
<1>1. version \in Nat /\ version' \in Nat /\ version <= version' /\ rows' \subseteq rows
  BY WorldStep, RetrievalAssumption DEF Typed, WorldTypes
<1>2. vbegan[r] \in Nat
  BY RetrievalAssumption DEF Typed, AnswerTypes
<1>3. RowsFor(o.chunk)' \subseteq RowsFor(o.chunk)
  BY <1>1 DEF RowsFor, Around
<1>4. FromRow(r, o) => FromRow(r, o)'
  BY <1>3 DEF FromRow
<1>5. vbegan[r]..version \subseteq vbegan'[r]..version'
  BY <1>1, <1>2
<1>6. FromVersion(r, o) => FromVersion(r, o)'
  BY <1>5 DEF FromVersion
<1> QED BY <1>3, <1>4, <1>6 DEF Enclosed

\* A row around the chunk gives its symbol.
LEMMA FoundInTable ==
  ASSUME Typed, NEW r \in Call, Since(r), NEW c \in Chunk, RowsFor(c) # {},
         NEW symbol \in OrNone(Cached(c))
  PROVE  Enclosed(r, [chunk |-> c, symbol |-> symbol])
<1> DEFINE o == [chunk |-> c, symbol |-> symbol]
<1>1. \A s \in {w \in rows : w.path = c.path} : s.lo \in Nat /\ s.hi \in Nat
  BY RetrievalAssumption DEF Typed, WorldTypes
<1>2. Narrowest(RowsFor(c)) # {}
  BY <1>1, NarrowestExists DEF RowsFor
<1>3. symbol \in Cached(c)
  BY <1>2 DEF OrNone, Cached, SymbolsOf
<1>4. PICK w \in Narrowest(RowsFor(c)) : symbol = [from |-> "cache", lo |-> w.lo, hi |-> w.hi]
  BY <1>3 DEF Cached, SymbolsOf
<1>5. symbol \in Symbol
  BY <1>3, SymbolsFound DEF Typed
<1>6. symbol # None
  BY <1>5, RetrievalAssumption
<1>7. /\ w \in rows /\ w.path = c.path /\ w.lo <= c.start /\ c.end <= w.hi
      /\ \A t \in RowsFor(c) : w.hi - w.lo <= t.hi - t.lo
  BY <1>4 DEF Narrowest, RowsFor, Around
<1>8. symbol.from = "cache" /\ symbol.from # "given" /\ symbol.lo = w.lo /\ symbol.hi = w.hi
  BY <1>4
<1>9. w \in rbegan[r]
  BY <1>7 DEF Since
<1>10. FromRow(r, o)
  BY <1>7, <1>8, <1>9 DEF FromRow
<1> QED BY <1>6, <1>8, <1>10 DEF Enclosed

\* Without a row Serena gives it, or nothing does.
LEMMA FoundLive ==
  ASSUME Typed, NEW r \in Call, Since(r), NEW c \in Chunk, Locatable(c) => RowsFor(c) = {},
         NEW symbol \in Live(c) \cup {None}
  PROVE  Enclosed(r, [chunk |-> c, symbol |-> symbol])
<1> DEFINE o == [chunk |-> c, symbol |-> symbol]
<1>1. CASE symbol = None
  BY <1>1 DEF Enclosed
<1>2. CASE symbol # None
  <2>1. PICK s \in Innermost(Overview[version][c.path], c) :
          symbol = [from |-> "live", lo |-> s.lo, hi |-> s.hi]
    BY <1>2 DEF Live, SymbolsOf
  <2>2. symbol.from = "live" /\ symbol.from \notin {"cache", "given"} /\ symbol.lo = s.lo /\ symbol.hi = s.hi
    BY <2>1
  <2>3. version \in vbegan[r]..version
    BY RetrievalAssumption DEF Since, Typed, WorldTypes, AnswerTypes
  <2>4. FromVersion(r, o)
    BY <2>1, <2>2, <2>3 DEF FromVersion
  <2> QED BY <2>2, <2>4 DEF Enclosed
<1> QED BY <1>1, <1>2

\* The world does not change in the step of a call.
LEMMA ActsInside ==
  ASSUME NEW r \in Call, Acts(r) PROVE UNCHANGED world
<1>1. CASE WhyBegin(r) \/ WhereBegin(r) \/ VecBegin(r)
  BY <1>1 DEF WhyBegin, WhereBegin, VecBegin, others
<1>2. CASE SourceAnswers(r) \/ FactsArrive(r) \/ ChunksArrive(r) \/ VecArrives(r)
  BY <1>2 DEF SourceAnswers, FactsArrive, ChunksArrive, VecArrives, others
<1>3. CASE LookUp(r) \/ OverviewArrives(r)
  BY <1>3 DEF LookUp, OverviewArrives, others
<1> QED BY <1>1, <1>2, <1>3 DEF Acts

\* A call begins with the files and rows of that moment.
LEMMA SymbolBegins ==
  ASSUME Typed, NEW r \in Call, SymbolInv(r), WhyBegin(r) \/ WhereBegin(r) \/ VecBegin(r)
  PROVE  SymbolInv(r)'
<1>1. /\ pc \in [Call -> {"new"} \cup Labels \cup Ended]
      /\ vbegan \in [Call -> DOMAIN Overview] /\ rbegan \in [Call -> SUBSET Row]
      /\ version \in Nat
  BY RetrievalAssumption DEF Typed, CallTypes, AnswerTypes, WorldTypes
<1>2. ASSUME NEW terms, NEW enough, NextTerm(r, terms, enough) PROVE pc'[r] \in {"ok", "terms"}
  BY <1>2, NextTermGoes
<1>3. pc[r] = "new" /\ UNCHANGED out /\ UNCHANGED world
  BY ActsInside DEF WhyBegin, WhereBegin, VecBegin, Started, Begin, loop, Acts
<1>4. pc'[r] \in {"ok", "gather", "facts", "terms", "search"}
  BY <1>1, <1>2 DEF WhyBegin, WhereBegin, VecBegin, Goto
<1>5. out'[r] = <<>>
  BY <1>3 DEF SymbolInv
<1>6. vbegan'[r] = version /\ rbegan'[r] = rows
  BY <1>1 DEF WhyBegin, WhereBegin, VecBegin, Started
<1>7. Since(r)'
  BY <1>1, <1>3, <1>6 DEF Since, world
<1> QED BY <1>4, <1>5, <1>7 DEF SymbolInv

\* Each action of a call gives right symbols and keeps them.
LEMMA SymbolActs ==
  ASSUME Typed, [Next]_vars, NEW r \in Call, SymbolInv(r), Acts(r)
  PROVE  SymbolInv(r)'
<1>1. pc \in [Call -> {"new"} \cup Labels \cup Ended] /\ out \in [Call -> Seq(Done)]
  BY DEF Typed, CallTypes, AnswerTypes
<1>2. UNCHANGED world
  BY ActsInside
<1>3. CASE WhyBegin(r) \/ WhereBegin(r) \/ VecBegin(r)
  BY <1>3, SymbolBegins
<1>4. CASE SourceAnswers(r) \/ FactsArrive(r) \/ ChunksArrive(r) \/ VecArrives(r)
  <2>1. /\ UNCHANGED <<out, vbegan, rbegan>>
        /\ pc[r] \in {"gather", "facts", "terms", "search"}
    BY <1>4 DEF SourceAnswers, FactsArrive, ChunksArrive, VecArrives, start, loop
  <2>2. ASSUME NEW terms, NEW enough, NextTerm(r, terms, enough) PROVE pc'[r] \in {"ok", "terms"}
    BY <2>2, NextTermGoes
  <2>3. /\ pc'[r] \in {"gather", "ok", "failed", "terms", "resolve"}
        /\ pc'[r] \in {"terms", "resolve"} => pc[r] # "gather"
    BY <1>1, <1>4, <2>2 DEF SourceAnswers, FactsArrive, ChunksArrive, VecArrives, Goto
  <2>4. \A i \in DOMAIN out[r] : Enclosed(r, out[r][i])'
    BY <2>1, StaysEnclosed DEF SymbolInv
  <2>5. Since(r) => Since(r)'
    BY <1>2, <2>1 DEF Since, world
  <2> QED BY <2>1, <2>3, <2>4, <2>5 DEF SymbolInv
<1>5. CASE LookUp(r) \/ OverviewArrives(r)
  <2>1. /\ pc[r] \in {"resolve", "overview"} /\ UNCHANGED <<vbegan, rbegan>>
        /\ LookUp(r) => pc[r] = "resolve"
        /\ OverviewArrives(r) => pc[r] = "overview"
    BY <1>5 DEF LookUp, OverviewArrives, start
  <2>2. Since(r) /\ Since(r)'
    BY <1>2, <2>1 DEF SymbolInv, Since, world
  <2>3. Head(queue[r]) \in Chunk
    BY <2>1, HeadTailProperties DEF Typed, Queued, AnswerTypes
  <2>4. CASE pc'[r] # "overview"
    <3>1. PICK symbol \in Symbol \cup {None}, rest \in Seq(Chunk) :
            /\ Resolves(r, Append(out[r], [chunk |-> Head(queue[r]), symbol |-> symbol]), rest)
            /\ LookUp(r) => symbol \in OrNone(AtOnce(r, Head(queue[r])))
            /\ OverviewArrives(r) => symbol \in OrNone(Live(Head(queue[r]))) \/ symbol = None
      BY <1>5, <2>4, ResolveIs
    <3> DEFINE d == [chunk |-> Head(queue[r]), symbol |-> symbol]
    <3>2. ASSUME OverviewArrives(r)
          PROVE  Enclosed(r, d)
      <4>1. symbol \in Live(Head(queue[r])) \cup {None}
        BY <3>1, <3>2 DEF OrNone
      <4>2. RowsFor(Head(queue[r])) = {}
        BY <2>1, <3>2 DEF SymbolInv
      <4> QED BY <2>2, <2>3, <4>1, <4>2, FoundLive
    <3>11. ASSUME LookUp(r), Carries(r, Head(queue[r]))
           PROVE  Enclosed(r, d)
      <4>1. symbol = GivenSymbol
        BY <3>1, <3>11 DEF OrNone, AtOnce
      <4>2. symbol.from = "given" /\ symbol # None /\ d.symbol = symbol /\ d.chunk = Head(queue[r])
        BY <4>1, GivenIsSymbol DEF GivenSymbol
      <4> QED BY <3>11, <4>2 DEF Enclosed, Carries
    <3>3. ASSUME LookUp(r), ~Carries(r, Head(queue[r])), Locatable(Head(queue[r])),
                 RowsFor(Head(queue[r])) # {}
          PROVE  Enclosed(r, d)
      <4>1. symbol \in OrNone(Cached(Head(queue[r])))
        BY <3>1, <3>3 DEF AtOnce
      <4> QED BY <2>2, <2>3, <3>3, <4>1, FoundInTable
    <3>4. ASSUME LookUp(r), ~Carries(r, Head(queue[r])),
                 Locatable(Head(queue[r])) => RowsFor(Head(queue[r])) = {}
          PROVE  Enclosed(r, d)
      <4>1. AtOnce(r, Head(queue[r])) = {}
        BY <3>4 DEF AtOnce, Cached, SymbolsOf, Narrowest
      <4>2. symbol = None
        BY <3>1, <3>4, <4>1 DEF OrNone
      <4> QED BY <2>2, <2>3, <3>4, <4>2, FoundLive
    <3>5. Enclosed(r, d)
      BY <1>5, <3>2, <3>3, <3>4, <3>11, Zenon
    <3>6. d \in Done
      BY <2>3 DEF Done
    <3> HIDE DEF d
    <3>7. /\ out'[r] = Append(out[r], d)
          /\ pc'[r] \in {"resolve", "ok", "terms"}
      BY <1>1, <3>1 DEF Resolves, Goto, d
    <3>8. \A i \in DOMAIN Append(out[r], d) : Enclosed(r, Append(out[r], d)[i])
      <4>1. out[r] \in Seq(Done)
        BY <1>1
      <4>2. /\ DOMAIN out[r] = 1..Len(out[r]) /\ Len(out[r]) \in Nat
            /\ DOMAIN Append(out[r], d) = 1..(Len(out[r]) + 1)
            /\ \A i \in 1..Len(out[r]) : Append(out[r], d)[i] = out[r][i]
            /\ Append(out[r], d)[Len(out[r]) + 1] = d
        BY <3>6, <4>1, AppendProperties, LenProperties
      <4>3. \A i \in 1..(Len(out[r]) + 1) : i \in 1..Len(out[r]) \/ i = Len(out[r]) + 1
        BY <4>2
      <4>4. \A i \in 1..Len(out[r]) : Enclosed(r, out[r][i])
        BY <4>2 DEF SymbolInv
      <4> QED BY <3>5, <4>2, <4>3, <4>4, Zenon
    <3>9. ASSUME NEW o, Enclosed(r, o) PROVE Enclosed(r, o)'
      BY <2>1, <3>9, StaysEnclosed
    <3>10. (\A i \in DOMAIN out[r] : Enclosed(r, out[r][i]))'
      BY <3>7, <3>8, <3>9
    <3> QED BY <2>2, <3>7, <3>10 DEF SymbolInv
  <2>5. CASE pc'[r] = "overview"
    <3>1. /\ UNCHANGED <<out, queue>>
          /\ LookUp(r) => Locatable(Head(queue[r])) /\ RowsFor(Head(queue[r])) = {}
      BY <1>1, <1>5, <2>5 DEF LookUp, OverviewArrives, Resolved, NextTerm, Goto
    <3>2. Locatable(Head(queue[r])) /\ RowsFor(Head(queue[r])) = {}
      BY <1>5, <2>1, <3>1 DEF SymbolInv
    <3>3. (Locatable(Head(queue[r])) /\ RowsFor(Head(queue[r])) = {})'
      BY <1>2, <3>1, <3>2 DEF RowsFor, world
    <3>4. \A i \in DOMAIN out[r] : Enclosed(r, out[r][i])'
      BY <2>1, <3>1, StaysEnclosed DEF SymbolInv
    <3> QED BY <2>2, <2>5, <3>1, <3>3, <3>4 DEF SymbolInv
  <2> QED BY <2>4, <2>5
<1> QED BY <1>3, <1>4, <1>5 DEF Acts

Symbols == \A r \in Call : SymbolInv(r)

\* Every step keeps found symbols right.
LEMMA SymbolStep == Typed /\ Symbols /\ [Next]_vars => Symbols'
<1> SUFFICES ASSUME Typed, Symbols, [Next]_vars, NEW q \in Call
             PROVE  SymbolInv(q)'
  BY DEF Symbols
<1>1. \A r \in Call : SymbolInv(r)
  BY DEF Symbols
<1>2. ASSUME UNCHANGED <<queue[q], out[q], vbegan[q], rbegan[q]>>, Elsewhere(q)
      PROVE  SymbolInv(q)'
  <2>1. (\A i \in DOMAIN out[q] : Enclosed(q, out[q][i]))'
    BY <1>1, <1>2, StaysEnclosed DEF SymbolInv
  <2>2. Since(q) => Since(q)'
    <3>1. version \in Nat /\ version' \in Nat /\ version <= version' /\ rows' \subseteq rows
      BY WorldStep, RetrievalAssumption DEF Typed, WorldTypes
    <3>2. vbegan[q] \in Nat
      BY RetrievalAssumption DEF Typed, AnswerTypes
    <3> QED BY <1>2, <3>1, <3>2 DEF Since
  <2>3. RowsFor(Head(queue[q])) = {} => (RowsFor(Head(queue[q])) = {})'
    BY <1>2, WorldStep DEF Typed, RowsFor, Around
  <2>4. Locatable(Head(queue[q])) => Locatable(Head(queue[q]))'
    BY <1>2
  <2>5. \/ pc'[q] = pc[q]
        \/ pc'[q] \in {"lost", "proxy", "probe", "check", "ok", "failed"}
    BY <1>2 DEF Elsewhere
  <2> QED BY <1>1, <1>2, <2>1, <2>2, <2>3, <2>4, <2>5 DEF SymbolInv
<1>3. CASE \A r \in Call : ~Acts(r)
  <2>1. UNCHANGED answer /\ Elsewhere(q)
    BY <1>3, OtherSteps
  <2> QED BY <1>2, <2>1 DEF answer, loop, start
<1>4. ASSUME NEW r \in Call, Acts(r) PROVE SymbolInv(q)'
  <2>1. CASE q = r
    BY <1>1, <1>4, <2>1, SymbolActs
  <2>2. CASE q # r
    <3>1. UNCHANGED <<queue[q], out[q], vbegan[q], rbegan[q]>>
      BY <1>4, <2>2, ActsOwn, OwnTypes DEF Typed
    <3>2. Elsewhere(q)
      BY <1>4, <2>2, ActsAlone DEF Elsewhere
    <3> QED BY <1>2, <3>1, <3>2
  <2> QED BY <2>1, <2>2
<1> QED BY <1>3, <1>4

\* A chunk gets the innermost symbol around it (resolve_chunk_symbol, _innermost_symbol_at): of a
\* version its file had during the call, or of a row from before the call.
THEOREM InnermostFound == Spec => []SymbolEncloses
<1>1. Init => Symbols
  BY DEF Init, UpstreamsInit, Symbols, SymbolInv
<1>2. ASSUME Typed, Symbols, NEW r \in Call, NEW o \in ToSet(out[r])
      PROVE  Enclosed(r, o) /\ o \in Done
  <2>1. out[r] \in Seq(Done)
    BY <1>2 DEF Typed, AnswerTypes
  <2>2. PICK i \in DOMAIN out[r] : o = out[r][i]
    BY <1>2, <2>1, LenProperties DEF ToSet
  <2>3. out[r][i] \in Done
    BY <2>1, <2>2, LenProperties
  <2> QED BY <1>2, <2>2, <2>3 DEF Symbols, SymbolInv
<1>3. ASSUME Typed, NEW r \in Call, NEW o \in Done, FromRow(r, o)
      PROVE  \E w \in {v \in rbegan[r] : v.path = o.chunk.path} :
               \E s \in Narrowest(Around({w} \cup RowsFor(o.chunk), o.chunk)) :
                 s.lo = o.symbol.lo /\ s.hi = o.symbol.hi
  <2>1. PICK w \in rbegan[r] :
          /\ w.path = o.chunk.path /\ w.lo <= o.chunk.start /\ o.chunk.end <= w.hi
          /\ w.lo = o.symbol.lo /\ w.hi = o.symbol.hi
          /\ \A t \in RowsFor(o.chunk) : w.hi - w.lo <= t.hi - t.lo
    BY <1>3 DEF FromRow
  <2>2. w.hi \in Nat /\ w.lo \in Nat
    BY <1>3, <2>1, RetrievalAssumption DEF Typed, AnswerTypes
  <2>3. w \in Around({w} \cup RowsFor(o.chunk), o.chunk)
    BY <2>1 DEF Around
  <2>4. \A t \in Around({w} \cup RowsFor(o.chunk), o.chunk) : w.hi - w.lo <= t.hi - t.lo
    BY <2>1, <2>2 DEF Around
  <2>5. w \in Narrowest(Around({w} \cup RowsFor(o.chunk), o.chunk))
    BY <2>3, <2>4 DEF Narrowest
  <2> QED BY <2>1, <2>5
<1>4. ASSUME NEW r \in Call, NEW o, FromVersion(r, o)
      PROVE  \E v \in vbegan[r]..version :
               \E s \in Narrowest(Around({s \in Overview[v][o.chunk.path] : Visible(s)}, o.chunk)) :
                 s.lo = o.symbol.lo /\ s.hi = o.symbol.hi
  BY <1>4 DEF FromVersion, Innermost
<1>5. Typed /\ Symbols => SymbolEncloses
  BY <1>2, <1>3, <1>4 DEF Enclosed, SymbolEncloses
<1> QED BY <1>1, <1>5, TypedInvariance, SymbolStep, PTL DEF Spec

-----------------------------------------------------------------------------
(* The fused answer of engram.why. *)

\* Every element leaves a smaller set behind.
LEMMA Smaller ==
  ASSUME NEW T, IsFiniteSet(T), NEW x \in T
  PROVE  /\ IsFiniteSet(T \ {x})
         /\ Cardinality(T) \in Nat /\ Cardinality(T \ {x}) \in Nat
         /\ Cardinality(T \ {x}) = Cardinality(T) - 1
BY FS_RemoveElement, FS_CardinalityType

\* One more step of a sum, and what it means to have summed up to n elements.
Sums(f, sum, T) == IF T = {} THEN 0 ELSE LET x == CHOOSE x \in T : TRUE IN f[x] + sum[T \ {x}]
SumsUpTo(f, sum, n) ==
  /\ sum = [T \in SUBSET DOMAIN f |-> sum[T]]
  /\ \A T \in SUBSET DOMAIN f : Cardinality(T) <= n => sum[T] = Sums(f, sum, T)

LEMMA SumExists ==
  ASSUME NEW f, IsFiniteSet(DOMAIN f)
  PROVE  \E sum : sum = [T \in SUBSET DOMAIN f |-> Sums(f, sum, T)]
<1> DEFINE S == DOMAIN f
           Bad == {n \in Nat : ~\E sum : SumsUpTo(f, sum, n)}
<1>1. \A T \in SUBSET S : IsFiniteSet(T) /\ Cardinality(T) \in Nat /\ Cardinality(T) <= Cardinality(S)
  BY FS_Subset, FS_CardinalityType
<1>2. Cardinality(S) \in Nat
  BY FS_CardinalityType
<1>3. 0 \notin Bad
  <2> DEFINE sum == [T \in SUBSET S |-> 0]
  <2>1. \A T \in SUBSET S : Cardinality(T) <= 0 => sum[T] = Sums(f, sum, T)
    BY <1>1, FS_EmptySet DEF Sums
  <2> QED BY <2>1 DEF SumsUpTo
<1>4. ASSUME NEW n \in Nat, n \notin Bad PROVE n + 1 \notin Bad
  <2>1. PICK sum : SumsUpTo(f, sum, n)
    BY <1>4
  <2> DEFINE more == [T \in SUBSET S |-> IF Cardinality(T) <= n THEN sum[T] ELSE Sums(f, sum, T)]
  <2>2. ASSUME NEW T \in SUBSET S, Cardinality(T) <= n + 1 PROVE more[T] = Sums(f, more, T)
    <3>1. more[T] = Sums(f, sum, T)
      BY <2>1 DEF SumsUpTo
    <3>2. CASE T = {}
      BY <3>1, <3>2 DEF Sums
    <3>3. CASE T # {}
      <4> DEFINE x == CHOOSE x \in T : TRUE
      <4>1. x \in T
        BY <3>3
      <4>2. Cardinality(T \ {x}) = Cardinality(T) - 1 /\ Cardinality(T) \in Nat
        BY <1>1, <4>1, Smaller
      <4>3. T \ {x} \in SUBSET S /\ Cardinality(T \ {x}) <= n
        BY <1>4, <2>2, <4>2
      <4>4. more[T \ {x}] = sum[T \ {x}]
        BY <4>3
      <4>5. Sums(f, sum, T) = f[x] + sum[T \ {x}] /\ Sums(f, more, T) = f[x] + more[T \ {x}]
        BY <3>3, Zenon DEF Sums
      <4> QED BY <3>1, <4>4, <4>5
    <3> QED BY <3>2, <3>3
  <2>3. SumsUpTo(f, more, n + 1)
    BY <2>2 DEF SumsUpTo
  <2> QED BY <2>3
<1>5. Bad = {}
  <2> SUFFICES ASSUME Bad # {} PROVE FALSE
    OBVIOUS
  <2>1. PICK n \in Bad : \A m \in Bad : n <= m
    BY Least
  <2>2. n # 0 /\ n - 1 \in Nat /\ n - 1 \notin Bad /\ (n - 1) + 1 = n
    BY <1>3, <2>1
  <2> QED BY <1>4, <2>1, <2>2
<1>6. PICK sum : SumsUpTo(f, sum, Cardinality(S))
  BY <1>2, <1>5
<1>7. \A T \in SUBSET S : sum[T] = Sums(f, sum, T)
  BY <1>1, <1>6 DEF SumsUpTo
<1>8. sum = [T \in SUBSET S |-> sum[T]]
  BY <1>6 DEF SumsUpTo
<1>9. sum = [T \in SUBSET S |-> Sums(f, sum, T)]
  BY <1>7, <1>8
<1> QED BY <1>9

\* A sum of numbers is one, it is nothing when all are nothing, and it is the one that is not.
LEMMA TotalIs ==
  ASSUME NEW f, IsFiniteSet(DOMAIN f), \A x \in DOMAIN f : f[x] \in Nat
  PROVE  /\ Total(f) \in Nat
         /\ (\A x \in DOMAIN f : f[x] = 0) => Total(f) = 0
         /\ \A y \in DOMAIN f : (\A x \in DOMAIN f \ {y} : f[x] = 0) => Total(f) = f[y]
<1> DEFINE S == DOMAIN f
           sum == CHOOSE sum : sum = [T \in SUBSET S |-> Sums(f, sum, T)]
           Fine(T) == /\ sum[T] \in Nat
                      /\ (\A x \in T : f[x] = 0) => sum[T] = 0
                      /\ \A y \in T : (\A x \in T \ {y} : f[x] = 0) => sum[T] = f[y]
           Bad == {n \in Nat : \E T \in SUBSET S : Cardinality(T) = n /\ ~Fine(T)}
<1>1. sum = [T \in SUBSET S |-> Sums(f, sum, T)]
  BY SumExists
<1>2. Total(f) = sum[S]
  BY DEF Total, Sums
<1> HIDE DEF sum
<1>3. \A T \in SUBSET S : IsFiniteSet(T) /\ Cardinality(T) \in Nat
  BY FS_Subset, FS_CardinalityType
<1>4. \A T \in SUBSET S : sum[T] = Sums(f, sum, T)
  BY <1>1
<1>5. Bad = {}
  <2> SUFFICES ASSUME Bad # {} PROVE FALSE
    OBVIOUS
  <2>1. PICK n \in Bad : \A m \in Bad : n <= m
    BY Least
  <2>2. PICK T \in SUBSET S : Cardinality(T) = n /\ ~Fine(T)
    BY <2>1
  <2>3. CASE T = {}
    BY <1>4, <2>2, <2>3 DEF Sums
  <2>4. CASE T # {}
    <3> DEFINE x == CHOOSE x \in T : TRUE
    <3>1. x \in T
      BY <2>4
    <3>2. T \ {x} \in SUBSET S /\ Cardinality(T \ {x}) \in Nat /\ Cardinality(T \ {x}) = n - 1
      BY <1>3, <2>2, <3>1, Smaller
    <3>3. Fine(T \ {x})
      BY <2>1, <3>2
    <3>4. sum[T] = f[x] + sum[T \ {x}]
      BY <1>4, <2>4 DEF Sums
    <3> HIDE DEF x
    <3>5. f[x] \in Nat /\ sum[T \ {x}] \in Nat
      BY <3>1, <3>3
    <3>6. sum[T] \in Nat
      BY <3>4, <3>5
    <3>7. ASSUME \A z \in T : f[z] = 0 PROVE sum[T] = 0
      BY <3>1, <3>3, <3>4, <3>7
    <3>8. ASSUME NEW y \in T, \A z \in T \ {y} : f[z] = 0 PROVE sum[T] = f[y]
      <4>1. CASE x = y
        <5>1. \A z \in T \ {x} : f[z] = 0
          BY <3>8, <4>1
        <5>2. sum[T \ {x}] = 0
          BY <3>3, <5>1
        <5> QED BY <3>4, <3>5, <4>1, <5>2
      <4>2. CASE x # y
        <5>1. f[x] = 0
          BY <3>1, <3>8, <4>2
        <5>2. y \in T \ {x} /\ \A z \in (T \ {x}) \ {y} : f[z] = 0
          BY <3>8, <4>2
        <5>3. sum[T \ {x}] = f[y]
          BY <3>3, <5>2
        <5> QED BY <3>4, <3>5, <5>1, <5>3
      <4> QED BY <4>1, <4>2
    <3> QED BY <2>2, <3>6, <3>7, <3>8
  <2> QED BY <2>3, <2>4
<1>6. Fine(S)
  BY <1>3, <1>5
<1> QED BY <1>2, <1>6

\* A lower rank has a larger share.
LEMMA ShareFalls ==
  ASSUME NEW r \in 1..MaxLength, NEW s \in 1..MaxLength
  PROVE  /\ Share(r) \in Nat
         /\ r < s => Share(s) < Share(r)
<1> DEFINE k == RankConstant + r
           l == RankConstant + s
           a == Share(r)
           b == Share(s)
<1>1. k \in Nat \ {0} /\ l \in Nat \ {0} /\ Whole \in Nat \ {0} /\ Whole % k = 0 /\ Whole % l = 0
  <2>1. RankConstant + r \in Nat \ {0} /\ RankConstant + s \in Nat \ {0} /\ Whole \in Nat \ {0}
    BY FusionAssumption
  <2>2. Whole % (RankConstant + r) = 0 /\ Whole % (RankConstant + s) = 0
    BY FusionAssumption, Zenon
  <2> QED BY <2>1, <2>2
<1>2. a = Whole \div k /\ b = Whole \div l
  BY DEF Share
<1>3. r < s => k < l
  BY FusionAssumption
<1> HIDE DEF k, l, a, b
<1>4. a \in Nat /\ Whole = k * a
  BY <1>1, <1>2
<1>5. b \in Nat /\ Whole = l * b
  BY <1>1, <1>2
<1>6. ASSUME k < l, a <= b PROVE FALSE
  <2>1. b > 0
    BY <1>1, <1>5
  <2>2. k * a <= k * b
    BY <1>1, <1>4, <1>5, <1>6
  <2>3. k * b < l * b
    BY <1>1, <1>5, <1>6, <2>1
  <2>4. k * a \in Int /\ k * b \in Int /\ l * b \in Int
    BY <1>1, <1>4, <1>5
  <2> QED BY <1>4, <1>5, <2>2, <2>3, <2>4
<1> QED BY <1>3, <1>4, <1>5, <1>6 DEF a, b

\* An item that occurs once has the share of its rank.
LEMMA ScoreIs ==
  ASSUME NEW lists, IsFiniteSet(DOMAIN lists), NEW x,
         NEW s \in DOMAIN lists, NEW n \in 1..MaxLength, Ranks(lists[s], x) = {n},
         \A t \in DOMAIN lists \ {s} : Ranks(lists[t], x) = {}
  PROVE  Score(lists, x) = Share(n)
<1> DEFINE Shares(t) == [r \in Ranks(lists[t], x) |-> Share(r)]
           f == [t \in DOMAIN lists |-> Total(Shares(t))]
<1>1. Share(n) \in Nat
  BY ShareFalls
<1>2. f[s] = Share(n)
  <2> DEFINE g == Shares(s)
  <2>1. DOMAIN g = {n} /\ g[n] = Share(n)
    OBVIOUS
  <2> HIDE DEF g
  <2>2. IsFiniteSet(DOMAIN g)
    <3>1. IsFiniteSet({n})
      BY FS_Singleton
    <3> QED BY <2>1, <3>1
  <2>3. Total(g) = g[n]
    BY <1>1, <2>1, <2>2, TotalIs
  <2> QED BY <2>1, <2>3 DEF g
<1>3. ASSUME NEW t \in DOMAIN lists \ {s} PROVE f[t] = 0
  <2> DEFINE g == Shares(t)
  <2>1. DOMAIN g = {}
    OBVIOUS
  <2> HIDE DEF g
  <2>2. Total(g) = 0
    BY <2>1, TotalIs, FS_EmptySet
  <2> QED BY <2>2 DEF g
<1>4. DOMAIN f = DOMAIN lists /\ Score(lists, x) = Total(f)
  BY DEF Score
<1> HIDE DEF f
<1>5. \A t \in DOMAIN f : f[t] \in Nat
  BY <1>1, <1>2, <1>3, <1>4
<1>6. Total(f) = f[s]
  BY <1>3, <1>4, <1>5, TotalIs
<1> QED BY <1>2, <1>4, <1>6

\* Numbers that grow with a total order give it back, and as many as there are take every value.
LEMMA Ranking ==
  ASSUME NEW T, NEW R, NEW place \in [T -> 1..Cardinality(T)], IsFiniteSet(T),
         \A x, y \in T : x = y \/ <<x, y>> \in R \/ <<y, x>> \in R,
         \A x, y \in T : <<x, y>> \in R => place[x] < place[y]
  PROVE  /\ \A x, y \in T : <<x, y>> \in R <=> place[x] < place[y]
         /\ \A i \in 1..Cardinality(T) : \E x \in T : place[x] = i
<1>1. Cardinality(T) \in Nat
  BY FS_CardinalityType
<1>2. \A x \in T : place[x] \in Int
  BY <1>1
<1>3. ASSUME NEW x \in T, NEW y \in T, ~(place[y] < place[x]), x # y PROVE <<x, y>> \in R
  BY <1>3
<1>4. ASSUME NEW x \in T, NEW y \in T, place[x] < place[y] PROVE <<x, y>> \in R
  BY <1>2, <1>3, <1>4
<1>5. ASSUME NEW x \in T, NEW y \in T, place[x] = place[y] PROVE x = y
  <2>1. ~(<<x, y>> \in R)
    BY <1>2, <1>5
  <2>2. ~(<<y, x>> \in R)
    BY <1>2, <1>5
  <2> QED BY <2>1, <2>2
<1>6. place \in Injection(T, 1..Cardinality(T))
  BY <1>5 DEF Injection, IsInjective
<1>7. IsFiniteSet(1..Cardinality(T)) /\ Cardinality(1..Cardinality(T)) = Cardinality(T)
  BY <1>1, FS_Interval
<1>8. place \in Surjection(T, 1..Cardinality(T))
  BY <1>6, <1>7, FS_Injection
<1> QED BY <1>4, <1>8 DEF Surjection

\* Counting what comes before puts a finite set in order.
PlaceIn(T, R) == [x \in T |-> 1 + Cardinality({y \in T : <<y, x>> \in R})]

LEMMA Sorting ==
  ASSUME NEW T, IsFiniteSet(T), NEW R,
         \A x \in T : <<x, x>> \notin R,
         \A x, y, z \in T : <<x, y>> \in R /\ <<y, z>> \in R => <<x, z>> \in R,
         \A x, y \in T : x = y \/ <<x, y>> \in R \/ <<y, x>> \in R
  PROVE  /\ \A x \in T : PlaceIn(T, R)[x] \in 1..Cardinality(T)
         /\ \A x, y \in T : <<x, y>> \in R <=> PlaceIn(T, R)[x] < PlaceIn(T, R)[y]
         /\ \A i \in 1..Cardinality(T) : \E x \in T : PlaceIn(T, R)[x] = i
<1> DEFINE Before(x) == {y \in T : <<y, x>> \in R}
           place == PlaceIn(T, R)
<1>1. \A x \in T : IsFiniteSet(Before(x)) /\ Cardinality(Before(x)) \in Nat
  BY FS_Subset, FS_CardinalityType
<1>2. Cardinality(T) \in Nat
  BY FS_CardinalityType
<1>3. ASSUME NEW x \in T PROVE Cardinality(Before(x)) < Cardinality(T)
  <2>1. Before(x) \in SUBSET T /\ Before(x) # T
    OBVIOUS
  <2>2. Cardinality(Before(x)) <= Cardinality(T) /\ Cardinality(Before(x)) # Cardinality(T)
    BY <2>1, FS_Subset
  <2> QED BY <1>1, <1>2, <2>2
<1>4. ASSUME NEW x \in T, NEW y \in T, <<x, y>> \in R
      PROVE  Cardinality(Before(x)) < Cardinality(Before(y))
  <2>1. Before(x) \in SUBSET Before(y) /\ Before(x) # Before(y)
    BY <1>4
  <2>2. IsFiniteSet(Before(y))
    BY <1>1
  <2> HIDE DEF Before
  <2>3. /\ Cardinality(Before(x)) <= Cardinality(Before(y))
        /\ Cardinality(Before(x)) # Cardinality(Before(y))
    BY <2>1, <2>2, FS_Subset
  <2> QED BY <1>1, <1>4, <2>3
<1>5. /\ place = [x \in T |-> place[x]]
      /\ \A x \in T : place[x] = 1 + Cardinality(Before(x))
  BY DEF PlaceIn
<1> HIDE DEF Before, place
<1>6. \A x \in T : place[x] \in 1..Cardinality(T)
  BY <1>1, <1>2, <1>3, <1>5
<1>7. \A x, y \in T : <<x, y>> \in R => place[x] < place[y]
  BY <1>1, <1>4, <1>5
<1>8. place \in [T -> 1..Cardinality(T)]
  BY <1>5, <1>6
<1>9. /\ \A x, y \in T : <<x, y>> \in R <=> place[x] < place[y]
      /\ \A i \in 1..Cardinality(T) : \E x \in T : place[x] = i
  BY <1>7, <1>8, Ranking
<1> QED BY <1>6, <1>9 DEF place

\* Fusing is sorting, as far as the limit goes, for every order the scores give.
LEMMA FuseSorts ==
  ASSUME NEW lists, NEW most \in Nat, NEW items, items = ItemsOf(lists), IsFiniteSet(items),
         \A x \in items : ~Precedes(lists, x, x),
         \A x, y, z \in items :
           Precedes(lists, x, y) /\ Precedes(lists, y, z) => Precedes(lists, x, z),
         \A x, y \in items : x = y \/ Precedes(lists, x, y) \/ Precedes(lists, y, x),
         NEW fused, fused = Fuse(lists, most)
  PROVE  /\ DOMAIN fused = 1..(IF most < Cardinality(items) THEN most ELSE Cardinality(items))
         /\ fused = [i \in DOMAIN fused |-> fused[i]]
         /\ \A i \in DOMAIN fused : fused[i] \in items
         /\ \A i, j \in DOMAIN fused : i < j => Precedes(lists, fused[i], fused[j])
         /\ \A i \in DOMAIN fused : \A y \in items \ {fused[j] : j \in DOMAIN fused} :
              Precedes(lists, fused[i], y)
<1> DEFINE R == {p \in items \X items : Precedes(lists, p[1], p[2])}
           place == PlaceIn(items, R)
           length == IF most < Cardinality(items) THEN most ELSE Cardinality(items)
<1>1. \A x, y \in items : <<x, y>> \in R <=> Precedes(lists, x, y)
  OBVIOUS
<1>2. \A x \in items : place[x] = 1 + Cardinality({y \in items : Precedes(lists, y, x)})
  <2>1. \A x \in items : {y \in items : <<y, x>> \in R} = {y \in items : Precedes(lists, y, x)}
    BY <1>1
  <2> QED BY <2>1 DEF PlaceIn
<1>3. Cardinality(items) \in Nat
  BY FS_CardinalityType
<1>4. fused = [i \in 1..length |->
                 CHOOSE x \in items : 1 + Cardinality({y \in items : Precedes(lists, y, x)}) = i]
  BY DEF Fuse
<1>5. /\ \A x \in items : place[x] \in 1..Cardinality(items)
      /\ \A x, y \in items : <<x, y>> \in R <=> place[x] < place[y]
      /\ \A i \in 1..Cardinality(items) : \E x \in items : place[x] = i
  <2> HIDE DEF R
  <2>1. \A x \in items : <<x, x>> \notin R
    BY <1>1
  <2>2. \A x, y, z \in items : <<x, y>> \in R /\ <<y, z>> \in R => <<x, z>> \in R
    BY <1>1
  <2>3. \A x, y \in items : x = y \/ <<x, y>> \in R \/ <<y, x>> \in R
    BY <1>1
  <2> QED BY <2>1, <2>2, <2>3, Sorting
<1> HIDE DEF R, place
<1>6. DOMAIN fused = 1..length /\ \A i \in 1..length : i \in 1..Cardinality(items)
  BY <1>3, <1>4
<1>7. \A i \in DOMAIN fused : fused[i] \in items /\ place[fused[i]] = i
  <2>1. ASSUME NEW i \in 1..length PROVE fused[i] \in items /\ place[fused[i]] = i
    <3> DEFINE Is(x) == 1 + Cardinality({y \in items : Precedes(lists, y, x)}) = i
    <3>1. PICK x \in items : place[x] = i
      BY <1>5, <1>6
    <3>2. Is(x)
      BY <1>2, <3>1
    <3>3. fused[i] = CHOOSE z \in items : Is(z)
      BY <1>4
    <3> HIDE DEF Is
    <3>4. fused[i] \in items /\ Is(fused[i])
      BY <3>2, <3>3
    <3> USE DEF Is
    <3> QED BY <1>2, <3>4
  <2> QED BY <1>6, <2>1
<1>8. ASSUME NEW i \in DOMAIN fused, NEW j \in DOMAIN fused, i < j
      PROVE  Precedes(lists, fused[i], fused[j])
  <2>1. place[fused[i]] < place[fused[j]]
    BY <1>7, <1>8
  <2> QED BY <1>1, <1>5, <1>7, <2>1
<1>9. ASSUME NEW i \in DOMAIN fused, NEW y \in items \ {fused[j] : j \in DOMAIN fused}
      PROVE  Precedes(lists, fused[i], y)
  <2>1. \A j \in DOMAIN fused : place[y] # j
    <3>1. ASSUME NEW j \in DOMAIN fused, place[y] = j PROVE FALSE
      <4>1. ~(place[y] < place[fused[j]]) /\ ~(place[fused[j]] < place[y])
        BY <1>5, <1>6, <1>7, <3>1
      <4> QED BY <1>1, <1>5, <1>7, <1>9, <4>1
    <3> QED BY <3>1
  <2>2. place[fused[i]] < place[y]
    BY <1>3, <1>5, <1>6, <1>7, <1>9, <2>1
  <2> QED BY <1>1, <1>5, <1>7, <1>9, <2>2
<1>10. fused = [i \in DOMAIN fused |-> fused[i]]
  BY <1>4
<1> QED BY <1>6, <1>7, <1>8, <1>9, <1>10

\* The texts of one source have a first part that no other has.
FirstOf == [vec |-> 0..LastPath, kg |-> {LastPath + 1}, mem |-> {LastPath + 2}]

\* The turn an item gets, and which of two items is to come first.
Turn(keys, x) ==
  CHOOSE n \in 1..MaxLength : \E s \in DOMAIN keys : n \in DOMAIN keys[s] /\ keys[s][n] = x
Sooner(keys, x, y) == Turn(keys, x) < Turn(keys, y) \/ (Turn(keys, x) = Turn(keys, y) /\ x[1] < y[1])

\* There are three sources.
LEMMA SourceFinite == IsFiniteSet(Source)
<1>1. IsFiniteSet({"vec"}) /\ IsFiniteSet({"mem"}) /\ IsFiniteSet({"kg"})
  BY FS_Singleton
<1>2. IsFiniteSet({"vec"} \cup {"mem"})
  BY <1>1, FS_Union
<1>3. IsFiniteSet(({"vec"} \cup {"mem"}) \cup {"kg"})
  BY <1>1, <1>2, FS_Union
<1>4. Source = ({"vec"} \cup {"mem"}) \cup {"kg"}
  BY DEF Source
<1> QED BY <1>3, <1>4

\* No list names an item twice.
Injections(keys) == \A s \in DOMAIN keys : IsInjective(keys[s])

\* The lists that are fused: no longer than the longest, with texts and numbers as keys.
LEMMA KeysAre ==
  ASSUME AnswerTypes, NEW r \in Call, NEW s \in DOMAIN Keys(r)
  PROVE  /\ s \in Source
         /\ DOMAIN Keys(r)[s] \subseteq 1..MaxLength
         /\ \A n \in DOMAIN Keys(r)[s] : /\ Keys(r)[s][n][1] \in FirstOf[s]
                                         /\ Keys(r)[s][n][2] \in Nat
<1> DEFINE l == part[r][s]
<1>1. /\ s \in Source /\ l \in Results[s] \cup {<<>>} /\ l # <<>>
      /\ Keys(r)[s] = [i \in DOMAIN l |-> KeyOf(s, l[i])]
  BY DEF Keys, AnswerTypes
<1> HIDE DEF l
<1>2. l \in Results[s] /\ s \in DOMAIN Results /\ Len(l) <= MaxLength
  BY <1>1, RetrievalAssumption DEF Source
<1>3. /\ s = "vec" => l \in Seq(Chunk)
      /\ s \in {"mem", "kg"} => l \in Seq(Nat)
  BY <1>2, RetrievalAssumption
<1>4. DOMAIN l \subseteq 1..MaxLength
  <2>1. DOMAIN l = 1..Len(l) /\ Len(l) \in Nat
    BY <1>1, <1>3, LenProperties DEF Source
  <2> QED BY <1>2, <2>1, FusionAssumption
<1>5. CASE s = "vec"
  <2>1. ASSUME NEW n \in DOMAIN l PROVE ChunkKey(l[n])[1] \in 0..LastPath /\ ChunkKey(l[n])[2] \in Nat
    <3>1. l[n] \in Chunk
      BY <1>3, <1>5, <2>1
    <3>2. l[n].path \in 1..LastPath /\ l[n].start \in Nat /\ LastPath \in Nat
      BY <3>1, RetrievalAssumption
    <3> QED BY <3>2 DEF ChunkKey
  <2> QED BY <1>1, <1>4, <1>5, <2>1 DEF KeyOf, FirstOf
<1>6. CASE s # "vec"
  <2>1. \A n \in DOMAIN l : l[n] \in Nat
    BY <1>1, <1>3, <1>6 DEF Source
  <2> QED BY <1>1, <1>4, <1>6, <2>1 DEF KeyOf, FirstOf, Source
<1> QED BY <1>5, <1>6

\* Each item has one turn, which no other item of its source has.
LEMMA TurnIs ==
  ASSUME AnswerTypes, NEW r \in Call, NEW keys, keys = Keys(r), Injections(keys),
         NEW x \in ItemsOf(keys)
  PROVE  /\ Turn(keys, x) \in 1..MaxLength
         /\ Score(keys, x) = Share(Turn(keys, x))
         /\ \E s \in DOMAIN keys : /\ x[1] \in FirstOf[s] /\ s \in Source
                                   /\ Turn(keys, x) \in DOMAIN keys[s]
                                   /\ x = keys[s][Turn(keys, x)]
         /\ x[2] \in Nat
<1>1. PICK s \in DOMAIN keys : \E n \in DOMAIN keys[s] : x = keys[s][n]
  BY DEF ItemsOf
<1>2. PICK n \in DOMAIN keys[s] : x = keys[s][n]
  BY <1>1
<1>3. \A t \in DOMAIN keys : /\ t \in Source /\ DOMAIN keys[t] \subseteq 1..MaxLength
                             /\ \A m \in DOMAIN keys[t] : keys[t][m][1] \in FirstOf[t] /\ keys[t][m][2] \in Nat
  BY KeysAre
<1>4. \A t \in Source : x[1] \in FirstOf[t] => t = s
  <2>1. x[1] \in FirstOf[s] /\ s \in Source
    BY <1>2, <1>3
  <2> QED BY <2>1, RetrievalAssumption DEF FirstOf, Source
<1>5. \A t \in DOMAIN keys : \A m \in DOMAIN keys[t] : keys[t][m] = x => t = s /\ m = n
  BY <1>2, <1>3, <1>4 DEF Injections, IsInjective
<1>6. n \in 1..MaxLength
  BY <1>2, <1>3
<1>7. Turn(keys, x) = n
  BY <1>2, <1>5, <1>6 DEF Turn
<1>8. Score(keys, x) = Share(n)
  <2>1. Ranks(keys[s], x) = {n}
    BY <1>2, <1>5 DEF Ranks
  <2>2. \A t \in DOMAIN keys \ {s} : Ranks(keys[t], x) = {}
    BY <1>5 DEF Ranks
  <2>3. IsFiniteSet(DOMAIN keys)
    <3>1. DOMAIN keys \in SUBSET Source
      BY <1>3
    <3> QED BY <3>1, SourceFinite, FS_Subset
  <2> QED BY <1>6, <2>1, <2>2, <2>3, ScoreIs
<1> QED BY <1>1, <1>2, <1>3, <1>6, <1>7, <1>8

\* The scores order the items by their turns.
LEMMA SoonerFirst ==
  ASSUME AnswerTypes, NEW r \in Call, NEW keys, keys = Keys(r), Injections(keys),
         NEW x \in ItemsOf(keys), NEW y \in ItemsOf(keys)
  PROVE  /\ Precedes(keys, x, y) <=> Sooner(keys, x, y)
         /\ x = y \/ Sooner(keys, x, y) \/ Sooner(keys, y, x)
         /\ x[1] \in Int
<1> DEFINE m == Turn(keys, x)
           n == Turn(keys, y)
<1>1. /\ m \in 1..MaxLength /\ Score(keys, x) = Share(m)
      /\ n \in 1..MaxLength /\ Score(keys, y) = Share(n)
      /\ x[2] \in Nat /\ y[2] \in Nat
  BY TurnIs
<1>2. PICK s \in DOMAIN keys : /\ x[1] \in FirstOf[s] /\ s \in Source
                               /\ m \in DOMAIN keys[s] /\ x = keys[s][m]
  BY TurnIs
<1>3. PICK t \in DOMAIN keys : /\ y[1] \in FirstOf[t] /\ t \in Source
                               /\ n \in DOMAIN keys[t] /\ y = keys[t][n]
  BY TurnIs
<1>4. x[1] \in Int /\ y[1] \in Int
  BY <1>2, <1>3, RetrievalAssumption DEF FirstOf, Source
<1>5. x[1] = y[1] => s = t
  BY <1>2, <1>3, RetrievalAssumption DEF FirstOf, Source
<1>6. m = n /\ x[1] = y[1] => x = y
  BY <1>2, <1>3, <1>5
<1> HIDE DEF m, n
<1>7. /\ m < n => Share(m) > Share(n)
      /\ n < m => Share(n) > Share(m)
      /\ Share(m) \in Nat /\ Share(n) \in Nat
  BY <1>1, ShareFalls
<1>8. Precedes(keys, x, y) <=> Share(m) > Share(n) \/ (Share(m) = Share(n) /\ TextBefore(x, y))
  BY <1>1 DEF Precedes
<1>9. m = n => (TextBefore(x, y) <=> x[1] < y[1])
  BY <1>1, <1>4, <1>6 DEF TextBefore
<1>10. m \in Int /\ n \in Int
  BY <1>1
<1>11. Precedes(keys, x, y) <=> m < n \/ (m = n /\ x[1] < y[1])
  BY <1>7, <1>8, <1>9, <1>10
<1>12. x = y \/ m < n \/ n < m \/ (m = n /\ (x[1] < y[1] \/ y[1] < x[1]))
  BY <1>4, <1>6, <1>10
<1> QED BY <1>4, <1>11, <1>12 DEF Sooner, m, n

\* An item that is sooner than one that is sooner than a third is sooner than the third.
LEMMA SoonerOrder ==
  ASSUME AnswerTypes, NEW r \in Call, NEW keys, keys = Keys(r), Injections(keys),
         NEW x \in ItemsOf(keys), NEW y \in ItemsOf(keys), NEW z \in ItemsOf(keys),
         Sooner(keys, x, y), Sooner(keys, y, z)
  PROVE  Sooner(keys, x, z)
<1>1. /\ Turn(keys, x) \in Int /\ Turn(keys, y) \in Int /\ Turn(keys, z) \in Int
      /\ x[1] \in Int /\ y[1] \in Int /\ z[1] \in Int
  BY TurnIs, SoonerFirst
<1> QED BY <1>1 DEF Sooner

\* There are finitely many items.
LEMMA ItemsFinite ==
  ASSUME AnswerTypes, NEW r \in Call PROVE IsFiniteSet(ItemsOf(Keys(r)))
<1> DEFINE keys == Keys(r)
           Of(s) == {keys[s][n] : n \in DOMAIN keys[s]}
<1>2. DOMAIN keys \subseteq Source
  BY KeysAre
<1>3. ASSUME NEW s \in DOMAIN keys PROVE IsFiniteSet(Of(s))
  <2> DEFINE f == [n \in DOMAIN keys[s] |-> keys[s][n]]
  <2>1. IsFiniteSet(DOMAIN keys[s])
    <3>1. DOMAIN keys[s] \in SUBSET (1..MaxLength)
      BY KeysAre
    <3>2. IsFiniteSet(1..MaxLength)
      BY FusionAssumption, FS_Interval
    <3> QED BY <3>1, <3>2, FS_Subset
  <2>2. f \in Surjection(DOMAIN keys[s], Of(s))
    BY DEF Surjection
  <2> QED BY <2>1, <2>2, FS_Surjection
<1> DEFINE Sets == {Of(s) : s \in DOMAIN keys}
           g == [s \in DOMAIN keys |-> Of(s)]
<1>4. g \in Surjection(DOMAIN keys, Sets)
  BY DEF Surjection
<1>5. IsFiniteSet(DOMAIN keys)
  BY <1>2, SourceFinite, FS_Subset
<1>6. IsFiniteSet(Sets)
  BY <1>4, <1>5, FS_Surjection
<1>7. IsFiniteSet(UNION Sets)
  BY <1>3, <1>6, FS_UNION
<1> QED BY <1>7 DEF ItemsOf

\* The fused list of a call takes turns.
LEMMA CallInterleaves ==
  ASSUME AnswerTypes, NEW r \in Call, NEW keys, keys = Keys(r), Injections(keys),
         NEW fused, fused = FusedOf(r), NEW items, items = ItemsOf(keys)
  PROVE  /\ \A i, j \in DOMAIN fused : i < j => Sooner(keys, fused[i], fused[j])
         /\ \A i \in DOMAIN fused : \A y \in items \ ToSet(fused) : Sooner(keys, fused[i], y)
         /\ Len(fused) = Min({FuseLimit, Cardinality(items)})
<1> DEFINE length == IF FuseLimit < Cardinality(items) THEN FuseLimit ELSE Cardinality(items)
<1>1. IsFiniteSet(items) /\ Cardinality(items) \in Nat
  BY ItemsFinite, FS_CardinalityType
<1>2. FuseLimit \in Nat
  BY RetrievalAssumption
<1>3. fused = Fuse(keys, FuseLimit)
  BY DEF FusedOf
<1>4. \A x, y \in items : /\ Precedes(keys, x, y) <=> Sooner(keys, x, y)
                          /\ x = y \/ Sooner(keys, x, y) \/ Sooner(keys, y, x)
  BY SoonerFirst
<1>5. \A x \in items : ~Sooner(keys, x, x)
  <2>1. ASSUME NEW x \in items PROVE Turn(keys, x) \in Int /\ x[1] \in Int
    BY TurnIs, SoonerFirst
  <2> QED BY <2>1 DEF Sooner
<1>6. \A x, y, z \in items : Sooner(keys, x, y) /\ Sooner(keys, y, z) => Sooner(keys, x, z)
  BY SoonerOrder
<1>7. /\ DOMAIN fused = 1..length
      /\ fused = [i \in DOMAIN fused |-> fused[i]]
      /\ \A i \in DOMAIN fused : fused[i] \in items
      /\ \A i, j \in DOMAIN fused : i < j => Precedes(keys, fused[i], fused[j])
      /\ \A i \in DOMAIN fused : \A y \in items \ {fused[j] : j \in DOMAIN fused} :
           Precedes(keys, fused[i], y)
  <2>1. \A x \in items : ~Precedes(keys, x, x)
    BY <1>4, <1>5
  <2>2. \A x, y, z \in items :
          Precedes(keys, x, y) /\ Precedes(keys, y, z) => Precedes(keys, x, z)
    BY <1>4, <1>6
  <2>3. \A x, y \in items : x = y \/ Precedes(keys, x, y) \/ Precedes(keys, y, x)
    BY <1>4
  <2> QED BY <1>1, <1>2, <1>3, <2>1, <2>2, <2>3, FuseSorts
<1>8. Len(fused) = Min({FuseLimit, Cardinality(items)})
  <2>1. length \in Nat
    BY <1>1, <1>2
  <2>2. Len(fused) = length
    <3> HIDE DEF length
    <3>1. fused \in Seq(items)
      BY <1>7, <2>1
    <3> QED BY <1>7, <2>1, <3>1, LenProperties
  <2>3. length = Min({FuseLimit, Cardinality(items)})
    BY <1>1, <1>2 DEF Min
  <2> QED BY <2>2, <2>3
<1>9. ToSet(fused) = {fused[j] : j \in DOMAIN fused}
  BY DEF ToSet
<1> HIDE DEF length
<1>10. \A i, j \in DOMAIN fused : i < j => Sooner(keys, fused[i], fused[j])
  BY <1>4, <1>7
<1>11. \A i \in DOMAIN fused : \A y \in items \ ToSet(fused) : Sooner(keys, fused[i], y)
  BY <1>4, <1>7, <1>9
<1> QED BY <1>8, <1>10, <1>11

\* It does so in every call.
LEMMA Interleaves == AnswerTypes => FusedInterleaves
<1> SUFFICES ASSUME AnswerTypes, NEW r \in Call, Injections(Keys(r))
             PROVE  LET keys == Keys(r)
                        fused == FusedOf(r)
                        items == ItemsOf(keys)
                    IN /\ \A i, j \in DOMAIN fused : i < j => Sooner(keys, fused[i], fused[j])
                       /\ \A i \in DOMAIN fused : \A y \in items \ ToSet(fused) :
                            Sooner(keys, fused[i], y)
                       /\ Len(fused) = Min({FuseLimit, Cardinality(items)})
  BY Zenon DEF FusedInterleaves, Sooner, Turn, Injections
<1> QED BY CallInterleaves

\* Fusing the sources by reciprocal ranks is taking turns (rrf_fuse), whatever the sources answer,
\* for every rank constant, every limit and lists of every length, as long as no list names an
\* item twice: a lower rank always outweighs, for no item is in two sources.
THEOREM FusingTakesTurns == Spec => []FusedInterleaves
<1>1. Typed => FusedInterleaves
  BY Interleaves DEF Typed
<1> QED BY <1>1, TypedInvariance, PTL
=============================================================================
