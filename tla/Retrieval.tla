----------------------------- MODULE Retrieval ------------------------------
(***************************************************************************)
(* What Engram does with the answers of the upstreams of Upstreams: the    *)
(* fused answer of engram.why (path C of router/dispatcher.py),            *)
(* vec.search (tools/vec_enrich.py) and engram.where_does_decision_apply   *)
(* (tools/engram_ns.py).  Both of the latter look for the symbol around a  *)
(* chunk, in anchors_symbol_chunk and else in Serena's overview of a file. *)
(*                                                                         *)
(* The source tree and the table change meanwhile: between two SELECTs and *)
(* between a search and the overview that locates its chunks.              *)
(***************************************************************************)
EXTENDS FactCheck, Fusion, SequencesExt

CONSTANTS
  LastPath,  \* files are 1..LastPath
  Chunk,     \* records [path, start, end, camel, given] (camel: startLine, not start_line;
             \* given: the upstream has filled in an enclosing_symbol)
  Overview,  \* Overview[v][p]: the symbols of file p in version v, records [lo, hi, camel]
  Row,       \* rows of anchors_symbol_chunk, records [path, lo, hi]
  Results,   \* Results[s]: the lists source s may answer with
  FactLists, \* what mempalace_kg_query may answer about a decision, records [object, subject]
  Entity,    \* the decision that is asked for
  Limits,    \* limits a client passes
  FuseLimit, \* default_k
  Menu       \* Menu[r]: the kinds of call r may be

LastVersion == CHOOSE v \in DOMAIN Overview : \A w \in DOMAIN Overview : w <= v

\* A symbol found for a chunk: from a row, live, or whatever the chunk came with.
Symbol == [from : {"cache", "live", "given"}, lo : Nat, hi : Nat]
GivenSymbol == [from |-> "given", lo |-> 0, hi |-> 0]

ASSUME RetrievalAssumption ==
  /\ LastPath \in Nat
  /\ Chunk \subseteq [path : 1..LastPath, start : Nat, end : Nat, camel : BOOLEAN,
                     given : BOOLEAN]
  /\ \A c \in Chunk : c.start <= c.end
  /\ DOMAIN Results = {"vec", "mem", "kg"} /\ Results["vec"] \subseteq Seq(Chunk)
  /\ Results["mem"] \subseteq Seq(Nat) /\ Results["kg"] \subseteq Seq(Nat)
  /\ \A s \in DOMAIN Results : \A l \in Results[s] : Len(l) <= MaxLength
  /\ DOMAIN Overview = 1..LastVersion /\ LastVersion \in Nat \ {0}
  /\ \A v \in DOMAIN Overview : \A p \in 1..LastPath :
       Overview[v][p] \subseteq [lo : Nat, hi : Nat, camel : BOOLEAN]
  /\ Row \subseteq [path : 1..LastPath, lo : Nat, hi : Nat]
  /\ FuseLimit \in Nat \ {0} /\ Limits \subseteq Int /\ None \notin Limits \cup Symbol

VARIABLES
  limit,   \* the limit a call was given
  asked,   \* path C: the sources that have not answered
  part,    \* path C: what each source contributed
  todo,    \* terms to search for
  queue,   \* chunks whose symbol is to be looked up
  out,     \* chunks that are done, each with its symbol
  version, \* of the source tree
  rows,    \* anchors_symbol_chunk
  vbegan, rbegan, offered  \* history: version and rows when the call began, chunks it was offered

fusion == <<asked, part>>
loop   == <<limit, todo, queue, out, offered>>
start  == <<vbegan, rbegan>>
answer == <<fusion, loop, start>>
world  == <<version, rows>>
others == <<process, child, health, fcvars, world>>
vars   == <<upvars, fcvars, answer, world>>

Source == {"vec", "mem", "kg"}
UpstreamOf == [vec |-> "claude_context", mem |-> "mempalace", kg |-> "mempalace"]
Labels == {"proxy", "probe", "gather", "facts", "terms", "search", "resolve", "overview", "check"}

TypeOK ==
  /\ UpstreamsTypeOK(Labels) /\ FactCheckTypeOK
  /\ limit \in [Call -> Limits \cup {None}]
  /\ asked \in [Call -> SUBSET Source]
  /\ \A r \in Call : \A s \in Source : part[r][s] \in Results[s] \cup {<<>>}
  /\ \A r \in Call : ToSet(queue[r]) \cup {o.chunk : o \in ToSet(out[r])} \subseteq Chunk
  /\ \A r \in Call : \A o \in ToSet(out[r]) : o.symbol \in Symbol \cup {None}
  /\ version \in DOMAIN Overview /\ rows \in SUBSET Row
  /\ vbegan \in [Call -> DOMAIN Overview] /\ rbegan \in [Call -> SUBSET Row]
  /\ offered \in [Call -> SUBSET Chunk]

Init ==
  /\ UpstreamsInit /\ FactCheckInit
  /\ limit = [r \in Call |-> None] /\ asked = [r \in Call |-> {}]
  /\ part = [r \in Call |-> [s \in Source |-> <<>>]]
  /\ todo = [r \in Call |-> <<>>] /\ queue = [r \in Call |-> <<>>] /\ out = [r \in Call |-> <<>>]
  /\ version = 1 /\ rows \in SUBSET Row
  /\ vbegan = [r \in Call |-> 1] /\ rbegan = [r \in Call |-> {}]
  /\ offered = [r \in Call |-> {}]

-----------------------------------------------------------------------------
(* The symbol around a chunk *)

\* x.get("startLine") or x.get("start_line"): a 0 under the first name is no line.
Locatable(c) == c.start > 0 \/ ~c.camel
Visible(item) == item.lo > 0 \/ item.camel

Around(spans, c) == {s \in spans : s.lo <= c.start /\ c.end <= s.hi}
Narrowest(spans) == {s \in spans : \A t \in spans : s.hi - s.lo <= t.hi - t.lo}

RowsFor(c) == Around({w \in rows : w.path = c.path}, c)

\* _innermost_symbol_at
FaultyInnermost(items, c) ==
  LET around == {s \in Around(items, c) : Visible(s)}
  IN {s \in around : \A t \in around : s.lo <= t.lo}
Innermost(items, c) == Narrowest(Around({s \in items : Visible(s)}, c))

SymbolsOf(from, spans) == {[from |-> from, lo |-> s.lo, hi |-> s.hi] : s \in spans}
Live(c)   == SymbolsOf("live", Innermost(Overview[version][c.path], c))
Cached(c) == SymbolsOf("cache", Narrowest(RowsFor(c)))

\* Two rows or two symbols of the same width: either may come first.
OrNone(found) == IF found = {} THEN {None} ELSE found

-----------------------------------------------------------------------------
(* What an upstream answers: any of the lists it may, nothing with isError, and nothing when *)
(* the request raises; the default lookups make an empty list of both.                       *)

FaultyAnswers(u, lists) == IF Replies(u) THEN lists \cup {<<>>} ELSE {}
Answers(u, lists) ==
  (IF Replies(u) THEN lists \cup {<<>>} ELSE {}) \cup (IF Raises(u) THEN {<<>>} ELSE {})

Started(r, kind) ==
  /\ Begin(r) /\ kind \in Menu[r]
  /\ vbegan' = [vbegan EXCEPT ![r] = version]
  /\ rbegan' = [rbegan EXCEPT ![r] = rows]

-----------------------------------------------------------------------------
(* engram.why, path C *)

\* asyncio.gather; a source without upstream has answered at once.
WhyBegin(r) ==
  /\ Started(r, "why")
  /\ asked' = [asked EXCEPT ![r] = {s \in Source : UpstreamOf[s] \in clients}]
  /\ Goto(r, IF asked'[r] = {} THEN "ok" ELSE "gather")
  /\ UNCHANGED <<others, at, part, loop>>

SourceAnswers(r) ==
  /\ pc[r] = "gather"
  /\ \E s \in asked[r] :
       /\ \E l \in Answers(UpstreamOf[s], Results[s]) : part' = [part EXCEPT ![r][s] = l]
       /\ asked' = [asked EXCEPT ![r] = @ \ {s}]
  /\ Goto(r, IF asked'[r] = {} THEN "ok" ELSE "gather")
  /\ UNCHANGED <<others, at, began, start, loop>>

\* _chunk_key, _memory_key, _fact_key.  Only start_line is looked for: chunks with startLine all
\* have the key "chunk:?:0-0".
ChunkKey(c) == IF c.camel THEN <<0, 0>> ELSE <<c.path, c.start>>
KeyOf(s, x) ==
  CASE s = "vec" -> ChunkKey(x)
    [] s = "kg"  -> <<LastPath + 1, x>>
    [] s = "mem" -> <<LastPath + 2, x>>
Keys(r) == [s \in {t \in Source : part[r][t] # <<>>} |->
              [i \in DOMAIN part[r][s] |-> KeyOf(s, part[r][s][i])]]
FusedOf(r) == Fuse(Keys(r), FuseLimit)

-----------------------------------------------------------------------------
(* engram.where_does_decision_apply *)

\* _related_terms: the entity, then the object and the subject of each fact, each term once.
AddTerm(terms, t) == IF t \in ToSet(terms) THEN terms ELSE Append(terms, t)
RelatedTerms(facts) ==
  FoldLeft(LAMBDA terms, f : AddTerm(AddTerm(terms, f.object), f.subject), <<Entity>>, facts)

\* related[:n], where a negative n leaves out the last -n.
FirstTerms(terms, n) ==
  LET last == IF n < 0 THEN Len(terms) + n ELSE n
  IN [i \in DOMAIN terms \cap 1..last |-> terms[i]]

\* The next search, or the answer: enough was found, no term is left or nothing can be searched.
NextTerm(r, terms, enough) ==
  IF enough \/ terms = <<>> \/ "claude_context" \notin clients
  THEN Goto(r, "ok") /\ Awaits(r, None) /\ todo' = [todo EXCEPT ![r] = <<>>]
  ELSE Goto(r, "terms") /\ Awaits(r, "claude_context") /\ todo' = [todo EXCEPT ![r] = terms]

WhereBegin(r) ==
  /\ Started(r, "where")
  /\ \E n \in Limits :
       /\ limit' = [limit EXCEPT ![r] = n]
       /\ IF "mempalace" \in clients
          THEN Goto(r, "facts") /\ Awaits(r, "mempalace") /\ UNCHANGED todo
          ELSE NextTerm(r, FirstTerms(<<Entity>>, n), FALSE)
  /\ UNCHANGED <<others, fusion, queue, out, offered>>

FactsArrive(r) ==
  /\ pc[r] = "facts"
  /\ \E facts \in Answers("mempalace", FactLists) :
       NextTerm(r, FirstTerms(RelatedTerms(facts), limit[r]), FALSE)
  /\ UNCHANGED <<others, began, start, fusion, limit, queue, out, offered>>

\* The loop passes over a chunk without a line and one from a place it has had.
Place(c) == <<c.path, c.start>>
Places(done) == {Place(done[i].chunk) : i \in DOMAIN done}
FaultySkipped(c, seen) == ~Locatable(c)
Skipped(c, seen) == ~Locatable(c) \/ Place(c) \in seen

\* It goes on with the first chunk it does not pass over, if there is one.
Resumes(chunks, seen) ==
  {k \in 1..(Len(chunks) + 1) :
    /\ \A j \in 1..(k - 1) : Skipped(chunks[j], seen)
    /\ k <= Len(chunks) => ~Skipped(chunks[k], seen)}
GoingOn(chunks, seen) == {SubSeq(chunks, k, Len(chunks)) : k \in Resumes(chunks, seen)}

ChunksArrive(r) ==
  /\ pc[r] = "terms"
  /\ \E chunks \in Answers("claude_context", Results["vec"]) :
       \E rest \in GoingOn(chunks, Places(out[r])) :
         /\ offered' = [offered EXCEPT ![r] = @ \cup ToSet(chunks)]
         /\ queue' = [queue EXCEPT ![r] = rest]
         /\ IF rest = <<>> THEN NextTerm(r, Tail(todo[r]), FALSE)
            ELSE Goto(r, "resolve") /\ Awaits(r, None) /\ todo' = [todo EXCEPT ![r] = Tail(@)]
  /\ UNCHANGED <<others, began, start, fusion, limit, out>>

-----------------------------------------------------------------------------
(* vec.search *)

\* The handler replaces the proxy of search_code.
VecBegin(r) ==
  /\ Started(r, "vec") /\ "claude_context" \in clients
  /\ Goto(r, "search") /\ Awaits(r, "claude_context")
  /\ UNCHANGED <<others, fusion, loop>>

VecArrives(r) ==
  /\ pc[r] = "search"
  /\ \/ /\ Replies("claude_context")
        /\ \E chunks \in Results["vec"] :
             /\ queue' = [queue EXCEPT ![r] = chunks]
             /\ Goto(r, IF chunks = <<>> THEN "ok" ELSE "resolve")
     \/ /\ Replies("claude_context") \/ Raises("claude_context")
        /\ Goto(r, "failed") /\ UNCHANGED queue
  /\ Awaits(r, None)
  /\ UNCHANGED <<others, began, start, fusion, limit, todo, out, offered>>

-----------------------------------------------------------------------------
(* resolve_chunk_symbol, and what both loops do with the symbol.  A limit of None: vec.search. *)

Resolved(r, symbol) ==
  LET done == Append(out[r], [chunk |-> Head(queue[r]), symbol |-> symbol])
      enough == limit[r] # None /\ Len(done) >= limit[r]
      left == Tail(queue[r])
  IN /\ out' = [out EXCEPT ![r] = done]
     /\ \E rest \in IF limit[r] = None THEN {left}
                   ELSE IF enough THEN {<<>>} ELSE GoingOn(left, Places(done)) :
          /\ queue' = [queue EXCEPT ![r] = rest]
          /\ IF rest # <<>> THEN Goto(r, "resolve") /\ Awaits(r, None) /\ UNCHANGED todo
             ELSE NextTerm(r, todo[r], enough)

\* where_does_decision_apply keeps the symbol a chunk comes with; vec.search looks for its own.
Carries(r, c) == limit[r] # None /\ c.given
AtOnce(r, c) ==
  IF Carries(r, c) THEN {GivenSymbol} ELSE IF Locatable(c) THEN Cached(c) ELSE {}

\* Only vec.search meets a chunk without a line here.
LookUp(r) ==
  /\ pc[r] = "resolve"
  /\ LET c == Head(queue[r])
     IN IF ~Carries(r, c) /\ Locatable(c) /\ RowsFor(c) = {} /\ "serena" \in clients
        THEN Goto(r, "overview") /\ Awaits(r, "serena") /\ UNCHANGED <<out, queue, todo>>
        ELSE \E s \in OrNone(AtOnce(r, c)) : Resolved(r, s)
  /\ UNCHANGED <<others, began, start, fusion, limit, offered>>

OverviewArrives(r) ==
  /\ pc[r] = "overview"
  /\ \/ Replies("serena") /\ \E s \in OrNone(Live(Head(queue[r]))) : Resolved(r, s)
     \/ (Replies("serena") \/ Raises("serena")) /\ Resolved(r, None)
  /\ UNCHANGED <<others, began, start, fusion, limit, offered>>

-----------------------------------------------------------------------------
(* Everybody else.  What they do while no call is under way makes no difference to one. *)

Busy == {r \in Call : pc[r] \in Labels}

\* A file is edited.
Edit ==
  /\ Busy # {} /\ version < LastVersion
  /\ version' = version + 1
  /\ UNCHANGED <<upvars, fcvars, answer, rows>>

\* The sweep or the reconciler removes a row.
DropRow ==
  /\ Busy # {}
  /\ \E w \in rows : rows' = rows \ {w}
  /\ UNCHANGED <<upvars, fcvars, answer, version>>

ServerStep ==
  /\ \/ Boot \/ Interrupt \/ Shutdown \/ Disconnect
     \/ \E u \in Upstream : Die(u) \/ Hang(u)
     \/ \E r \in Call : \/ "proxy" \in Menu[r] /\ ProxyBegin(r)
                        \/ "health" \in Menu[r] /\ HealthBegin(r)
  /\ UNCHANGED <<fcvars, answer, world>>

Asked(r) ==
  \/ "contradicts" \in Menu[r] /\ ContradictsBegin(r) /\ UNCHANGED <<answer, world>>
  \/ WhyBegin(r) \/ WhereBegin(r) \/ VecBegin(r)

Answered(r) ==
  \/ (ProxyEnd(r) \/ ProbeEnd(r)) /\ UNCHANGED <<fcvars, answer, world>>
  \/ SubprocessEnds(r) /\ UNCHANGED <<answer, world>>
  \/ SourceAnswers(r) \/ FactsArrive(r) \/ ChunksArrive(r) \/ VecArrives(r)
  \/ LookUp(r) \/ OverviewArrives(r)

Next ==
  \/ ServerStep
  \/ \E r \in Call : Asked(r) \/ Answered(r)
  \/ Edit \/ DropRow

\* The event loop runs what can run, and an upstream that neither died nor hangs answers.
\* Nobody has to edit, to call or to close the server.
Spec ==
  /\ Init /\ [][Next]_vars
  /\ WF_vars(Boot /\ UNCHANGED <<fcvars, answer, world>>)
  /\ WF_vars(Disconnect /\ UNCHANGED <<fcvars, answer, world>>)
  /\ \A r \in Call : WF_vars(Answered(r))

-----------------------------------------------------------------------------
(* Properties *)

\* When no list names an item twice, fusing is taking turns: every item of rank n comes before any
\* of rank n + 1, those of one rank come in the order chunk, fact, memory, and what the limit cuts
\* off comes after all that is kept.
FusedInterleaves ==
  \A r \in Call :
    LET keys == Keys(r)
        fused == FusedOf(r)
        items == ItemsOf(keys)
        Rank(x) == CHOOSE n \in 1..MaxLength :
                     \E s \in DOMAIN keys : n \in DOMAIN keys[s] /\ keys[s][n] = x
        Before(x, y) == Rank(x) < Rank(y) \/ (Rank(x) = Rank(y) /\ x[1] < y[1])
    IN (\A s \in DOMAIN keys : IsInjective(keys[s])) =>
         /\ \A i, j \in DOMAIN fused : i < j => Before(fused[i], fused[j])
         /\ \A i \in DOMAIN fused : \A y \in items \ ToSet(fused) : Before(fused[i], y)
         /\ Len(fused) = Min({FuseLimit, Cardinality(items)})

\* An answer of where_does_decision_apply names no place twice and no more places than asked for
\* (one, for a negative limit); unless it is full, every place with a line that some search of the
\* call offered is in it, whatever upstreams failed meanwhile.
WhereComplete ==
  \A r \in Call : pc[r] = "ok" /\ limit[r] # None =>
    /\ IsInjective([i \in DOMAIN out[r] |-> Place(out[r][i].chunk)])
    /\ limit[r] # 0 => Len(out[r]) <= Max({limit[r], 1})
    /\ limit[r] = 0 => out[r] = <<>>
    /\ \/ Len(out[r]) >= limit[r]
       \/ {Place(c) : c \in {d \in offered[r] : Locatable(d)}} \subseteq Places(out[r])

\* The symbol of a chunk is one around it with none narrower in between: a live one among the
\* symbols with a start line in a version the file had during the call, a cached one in a row from
\* before the call, compared with the rows that are still there.  A row that is there throughout
\* is never passed over for Serena.  Only a chunk that came with a symbol has it unexamined.
SymbolEncloses ==
  \A r \in Call : \A o \in ToSet(out[r]) :
    LET c == o.chunk
        IsInnermost(spans) == \E s \in Narrowest(Around(spans, c)) :
                                s.lo = o.symbol.lo /\ s.hi = o.symbol.hi
    IN IF o.symbol # None /\ o.symbol.from = "given" THEN c.given
       ELSE IF o.symbol # None /\ o.symbol.from = "cache"
       THEN \E w \in {v \in rbegan[r] : v.path = c.path} : IsInnermost({w} \cup RowsFor(c))
       ELSE /\ Locatable(c) => RowsFor(c) = {}
            /\ o.symbol # None => \E v \in vbegan[r]..version :
                                   IsInnermost({s \in Overview[v][c.path] : Visible(s)})

\* No call has a timeout and none needs one unless an upstream hangs: whatever dies, fails or
\* answers with an error, a call ends, and the process comes up, goes down or is interrupted.
WaitsForHung(r) == Silent(at[r]) \/ \E s \in asked[r] : Silent(UpstreamOf[s])
BootWaitsForHung ==
  \/ phase = "connect" /\ child[Current] = "hung"
  \/ phase \in DOMAIN WarmUpTool /\ Asks(phase) /\ Silent("serena")

OnlyHungDelays ==
  /\ \A r \in Call : []<>(r \notin Busy \/ WaitsForHung(r))
  /\ []<>(phase \in {"serve", "down", "aborted"} \/ BootWaitsForHung)
=============================================================================
