------------------------------- MODULE Router -------------------------------
(***************************************************************************)
(* engram.why (tools/engram_ns.py) with the retrieval router behind it     *)
(* (router/classifier.py, router/dispatcher.py) and the LRU cache in front *)
(* of it (router/cache.py), in one server process.                         *)
(*                                                                         *)
(* A call is a task of the event loop.  It suspends where it awaits an     *)
(* upstream; between two awaits it is one step.  What an upstream answers  *)
(* is abstracted to the set of code changes the answer takes into account. *)
(* A change is applied to the source tree first and, unless its call is    *)
(* cancelled or another process made it, published on the hook bus later.  *)
(* The cache key is JSON text and eviction looks for a name in that text.  *)
(***************************************************************************)
EXTENDS Integers, Sequences, FiniteSets

CONSTANTS
  Name, File,   \* name paths and relative paths
  Escaped,      \* those that JSON writes differently (json.dumps escapes non-ASCII)
  Within,       \* pairs <<x, y>>: the text of x occurs in the text of y, which may also be the
                \* client's own text or the words every key has
  Menu,         \* the calls clients make (records of Query)
  Call,         \* calls of engram.why
  Change,       \* changes of the code (records of Event), each happens once
  MaxEntries,
  None

Query == [name : Name \cup {None}, file : File \cup {None}, text : BOOLEAN]
Event == [type : {"renamed"}, of : Name, to : Name]
           \cup [type : {"tombstoned"}, of : Name] \cup [type : {"replaced"}, of : File]

ASSUME RouterAssumption ==
  /\ Menu \subseteq Query /\ \A q \in Menu : q.name # None \/ q.text
  /\ Change \subseteq Event
  /\ Within \subseteq (Name \cup File) \X (Name \cup File \cup {"free_query", "words"})
  /\ MaxEntries \in Nat \ {0}
  /\ None \notin Name \cup File

Source == {"symbol", "mem", "kg", "vec"}

VARIABLES
  cache,    \* the entries, least recently used first
  pc, query,
  asked,    \* sources a call waits for
  have,     \* the sources whose part of the result it has
  reflects, \* the changes that none of these parts has missed
  since,    \* history: the events the cache had heard when the call missed
  change,   \* each change: "ahead", "applied", "heard" (delivered to the cache), "unheard"
  clock, lastUse  \* history: when each key was last put or hit

work == <<pc, query, asked, have, reflects, since>>
use  == <<clock, lastUse>>
vars == <<cache, work, change, use>>

Applied == {e \in Change : change[e] # "ahead"}
Heard   == {e \in Change : change[e] = "heard"}

\* A cached RouterResult: the changes all of its parts reflect.
Entry == [key : Menu, reflects : SUBSET Change, since : SUBSET Change, heard : SUBSET Change]
Keys(c) == {c[i].key : i \in DOMAIN c}

TypeOK ==
  /\ cache \in Seq(Entry)
  /\ Len(cache) <= MaxEntries /\ Cardinality(Keys(cache)) = Len(cache)
  /\ pc \in [Call -> {"new", "resolve", "dispatch", "ok", "failed", "lost"}]
  /\ query \in [Call -> Menu \cup {None}]
  /\ asked \in [Call -> SUBSET Source]
  /\ \A r \in Call : have[r] \subseteq Source \ asked[r]
  /\ reflects \in [Call -> SUBSET Change]
  /\ since \in [Call -> SUBSET Change]
  /\ change \in [Change -> {"ahead", "applied", "heard", "unheard"}]
  /\ clock \in 0..Cardinality(Call) /\ lastUse \in [Menu -> 0..clock]

Init ==
  /\ cache = <<>>
  /\ pc = [r \in Call |-> "new"] /\ query = [r \in Call |-> None]
  /\ asked = [r \in Call |-> {}] /\ have = [r \in Call |-> {}]
  /\ reflects = [r \in Call |-> {}] /\ since = [r \in Call |-> {}]
  /\ change = [e \in Change |-> "ahead"]
  /\ clock = 0 /\ lastUse = [k \in Menu |-> 0]

-----------------------------------------------------------------------------
(* LRUCache *)

\* The entries of c but those with a key of K, in their order.
Without(c, K) ==
  LET kept == {i \in DOMAIN c : c[i].key \notin K}
      Place(n) == CHOOSE i \in kept : Cardinality({j \in kept : j <= i}) = n
  IN [n \in 1..Cardinality(kept) |-> c[Place(n)]]

FaultyOthers(k) == cache
Others(k) == Without(cache, {k})
EntryOf(k) == CHOOSE i \in DOMAIN cache : cache[i].key = k

\* get moves the entry to the end, put replaces it there, and a new key may push out the
\* first one.
FaultyTouched(k) == cache
Touched(k) == Append(Others(k), cache[EntryOf(k)])

FaultyStored(e) ==
  LET all == Append(Others(e.key), e)
  IN IF Len(all) >= MaxEntries THEN Tail(all) ELSE all
Stored(e) ==
  LET all == Append(Others(e.key), e)
  IN IF Len(all) > MaxEntries THEN Tail(all) ELSE all

Subjects(e) == IF e.type = "renamed" THEN {e.of, e.to} ELSE {e.of}
Mentioned(k) == {k.name, k.file} \ {None}
Concerns(e, k) == Subjects(e) \cap Mentioned(k) # {}

\* The JSON text of a key: its names, the client's text, and the words around them.
Texts(k) == Mentioned(k) \cup {"words"} \cup (IF k.text THEN {"free_query"} ELSE {})

\* `old in args`: also a text that only contains the old name, and never an escaped one.
FaultyReferences(k, x) == x \in Mentioned(k) \cap Name
References(k, x) ==
  /\ x \notin Escaped
  /\ \E y \in Texts(k) : y = x \/ <<x, y>> \in Within
Evicts(e, k) == \E x \in Subjects(e) : References(k, x)

-----------------------------------------------------------------------------
(* engram.why *)

Used(k) == clock' = clock + 1 /\ lastUse' = [lastUse EXCEPT ![k] = clock + 1]
Goto(r, l) == pc' = [pc EXCEPT ![r] = l]

\* classify_query; the sources each path asks first, and which follow them.
PathOf(q) == IF q.name # None /\ q.text THEN "C" ELSE IF q.name # None THEN "B" ELSE "A"

NeedsSymbol(q) == q.name # None /\ q.file # None
SourcesOf(q) ==
  CASE PathOf(q) = "A" -> {"vec"}
    [] PathOf(q) = "B" -> {"mem", "kg"} \cup (IF NeedsSymbol(q) THEN {"symbol"} ELSE {})
    [] PathOf(q) = "C" -> {"vec", "mem", "kg"} \cup (IF NeedsSymbol(q) THEN {"symbol"} ELSE {})

\* Path B awaits its sources one after the other, path C gathers them.
NextSources(q, got) ==
  LET left == SourcesOf(q) \ got
  IN IF PathOf(q) # "B" THEN left
     ELSE IF "symbol" \in left THEN {"symbol"} ELSE IF "mem" \in left THEN {"mem"} ELSE left

\* The changes an answer to this call should reflect.
Relevant(q) == {e \in Change : Concerns(e, q)}

\* The look into the cache, and on a miss the first calls of the dispatch.
LookUp(r, q) ==
  IF q \in Keys(cache)
  THEN /\ cache' = Touched(q) /\ Used(q)
       /\ Goto(r, "ok")
       /\ UNCHANGED <<asked, reflects, since>>
  ELSE /\ Goto(r, "dispatch")
       /\ asked' = [asked EXCEPT ![r] = NextSources(q, {})]
       /\ reflects' = [reflects EXCEPT ![r] = Relevant(q)]
       /\ since' = [since EXCEPT ![r] = Heard \cap Relevant(q)]
       /\ UNCHANGED <<cache, use>>

\* With a name and a file the symbol is looked up at Serena before the cache.
Ask(r) ==
  /\ pc[r] = "new"
  /\ \E q \in Menu :
       /\ query' = [query EXCEPT ![r] = q]
       /\ \/ /\ NeedsSymbol(q)
             /\ Goto(r, "resolve")
             /\ UNCHANGED <<cache, asked, reflects, since, use>>
          \/ ~NeedsSymbol(q) /\ LookUp(r, q)
  /\ UNCHANGED <<have, change>>

Resolved(r) ==
  /\ pc[r] = "resolve"
  /\ \/ LookUp(r, query[r])
     \/ \* symbol-not-found
        Goto(r, "failed") /\ UNCHANGED <<cache, asked, reflects, since, use>>
  /\ UNCHANGED <<query, have, change>>

\* An upstream answers from what it sees now; one that fails adds a warning and an empty
\* part, in which nothing is out of date.
Answer(r, s) ==
  /\ pc[r] = "dispatch" /\ s \in asked[r]
  /\ asked' = [asked EXCEPT ![r] = @ \ {s}]
  /\ have' = [have EXCEPT ![r] = @ \cup {s}]
  /\ \E seen \in {Applied, Change} : reflects' = [reflects EXCEPT ![r] = @ \cap seen]
  /\ UNCHANGED <<cache, pc, query, since, change, use>>

\* Everything that was asked for is there: path B asks on, or the result is cached.
Complete(r) == NextSources(query[r], have[r]) = {}

Continue(r) ==
  /\ pc[r] = "dispatch" /\ asked[r] = {} /\ ~Complete(r)
  /\ asked' = [asked EXCEPT ![r] = NextSources(query[r], have[r])]
  /\ UNCHANGED <<cache, pc, query, have, reflects, since, change, use>>

\* Nothing of the call outlives it.
Forget(r) ==
  /\ asked' = [asked EXCEPT ![r] = {}] /\ have' = [have EXCEPT ![r] = {}]
  /\ reflects' = [reflects EXCEPT ![r] = {}] /\ since' = [since EXCEPT ![r] = {}]
  /\ UNCHANGED query

Put(r) ==
  /\ pc[r] = "dispatch" /\ asked[r] = {} /\ Complete(r)
  /\ cache' = Stored([key |-> query[r], reflects |-> reflects[r], since |-> since[r],
                      heard |-> Heard \cap Relevant(query[r])])
  /\ Used(query[r])
  /\ Goto(r, "ok")
  /\ Forget(r)
  /\ UNCHANGED change

\* The client cancels the call.
Cancel(r) ==
  /\ pc[r] \in {"resolve", "dispatch"}
  /\ Goto(r, "lost")
  /\ Forget(r)
  /\ UNCHANGED <<cache, change, use>>

-----------------------------------------------------------------------------
(* Changes of the code: an interceptor's call to Serena, or another writer *)

Apply(e) ==
  /\ change[e] = "ahead"
  /\ change' = [change EXCEPT ![e] = "applied"]
  /\ UNCHANGED <<cache, work, use>>

\* on_renamed, on_tombstoned, on_file_replaced
Deliver(e) ==
  /\ change[e] = "applied"
  /\ change' = [change EXCEPT ![e] = "heard"]
  /\ cache' = Without(cache, {k \in Keys(cache) : Evicts(e, k)})
  /\ UNCHANGED <<work, use>>

\* The interceptor was cancelled before its publish, or the change was not made through
\* this server.
StayUnheard(e) ==
  /\ change[e] = "applied"
  /\ change' = [change EXCEPT ![e] = "unheard"]
  /\ UNCHANGED <<cache, work, use>>

-----------------------------------------------------------------------------
Next ==
  \/ \E r \in Call : \/ Ask(r) \/ Resolved(r) \/ Continue(r) \/ Put(r) \/ Cancel(r)
                     \/ \E s \in Source : Answer(r, s)
  \/ \E e \in Change : Apply(e) \/ Deliver(e) \/ StayUnheard(e)

Spec == Init /\ [][Next]_vars

-----------------------------------------------------------------------------
(* Properties *)

\* When the cache has heard of a change, what it still holds about the names and files of
\* that change was cached later; and an entry that does not reflect the change all the
\* same comes from a call that was under way when the event arrived.
StaleOnlyFromOverlap ==
  \A i \in DOMAIN cache : \A e \in Heard :
    LET c == cache[i]
    IN (Concerns(e, c.key) /\ Subjects(e) \cap Escaped = {}) =>
         /\ e \in c.heard
         /\ e \in c.reflects \/ e \notin c.since

\* The order of the cache is the order of use, over hits, puts, replaced entries and
\* evictions: what the next put pushes out is what was not used longest.
RecencyOrder ==
  \A i, j \in DOMAIN cache : i < j => lastUse[cache[i].key] < lastUse[cache[j].key]

\* An entry leaves the cache for an event that references it, or when a new key finds the
\* cache full and no other entry was unused for longer.
EvictsOldest ==
  [][\A k \in Keys(cache) \ Keys(cache') :
       \/ \E e \in Change : change'[e] = "heard" /\ change[e] # "heard" /\ Evicts(e, k)
       \/ /\ Len(cache) = MaxEntries
          /\ \A other \in Keys(cache') : lastUse[k] < lastUse'[other]]_vars

\* No entry of the cache is older than an event the cache has heard that concerns it.
NoStaleEntry ==
  \A i \in DOMAIN cache : \A e \in Heard :
    Concerns(e, cache[i].key) => e \in cache[i].reflects
=============================================================================
