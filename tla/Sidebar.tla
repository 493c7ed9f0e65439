------------------------------ MODULE Sidebar ------------------------------
(***************************************************************************)
(* The sidebar's schema tree (schema_tree.rs) and the fetches behind it    *)
(* (main.rs): database lists and schemas asked for by the user and by      *)
(* switches of the active database, answers of servers and of the caches   *)
(* in the profile folder landing in any order, the bounded memory of       *)
(* schemas, the idle prefetch, and swaps of the settings' context.         *)
(* One editor tab, an open vault, saved connections to servers.            *)
(***************************************************************************)
EXTENDS Naturals, FiniteSets, SequencesExt

CONSTANTS
    Conns,        \* ids of saved connections, the same in every context
    Dbs,          \* names of databases
    Lists,        \* the database lists a server may answer with
    Nil,          \* no fallback slot, no cache entry, no prefetch
    Cap,          \* LOADED_SNAPSHOT_CAP
    MaxFetches,   \* bound: fetches the user and the switches ask for
    MaxSwitches,  \* bound: switches of the active database
    MaxSwaps,     \* bound: swaps of the context
    MaxFails      \* bound: failures of the prefetch

ASSUME SidebarAssumption ==
    /\ IsFiniteSet(Conns) /\ Lists \subseteq (SUBSET Dbs) \ {{}}
    /\ Nil \notin Dbs /\ Nil \notin Conns \X Dbs
    /\ Cap \in Nat \ {0}
    /\ MaxFetches \in Nat /\ MaxSwitches \in Nat /\ MaxSwaps \in Nat /\ MaxFails \in Nat

VARIABLES
    tree,        \* SchemaTree: lists, slots, fallback (active_slot), lru
    fetch,       \* the fetches so far; the index is sidebar_fetch_generation
    switches,    \* the switches so far
    flying,      \* switches whose test_connect has not answered
    lastSwitch,  \* switch_generation: the switch that may land, 0 for none
    active,      \* the switch that set the tab's connection, 0 for none
    ctx,         \* the context in force, a number
    disk,        \* conn_cache and schema_cache, in the profile folder
    prefetch     \* armed, target (prefetch_in_flight), fails

sidebarVars == <<tree, fetch, switches, flying, lastSwitch, active, ctx, disk, prefetch>>

Keys == Conns \X Dbs
SlotStates == {"none", "loading", "error", "loaded"}
Sources == {"none", "server", "cache"}
\* A slot: its state, the fetch it is of, and whose answer it shows.
Empty == [st |-> "none", gen |-> 0, from |-> "none", ctx |-> 0]
Slots == [st : SlotStates, gen : 0 .. MaxFetches, from : Sources, ctx : 0 .. MaxSwaps]
Unlisted == [st |-> "none", gen |-> 0, from |-> "none", ctx |-> 0, names |-> {}]
Bare == [lists |-> [c \in Conns |-> Unlisted], slots |-> [k \in Keys |-> Empty],
         fallback |-> Nil, lru |-> <<>>]

Reply(from, c) == [st |-> "loaded", from |-> from, ctx |-> c]
Failure == [st |-> "error", from |-> "none", ctx |-> 0]

ActiveKey == IF active = 0 THEN Nil ELSE switches[active].key

Rows == [st : SlotStates, gen : 0 .. MaxFetches, from : Sources, ctx : 0 .. MaxSwaps, names : SUBSET Dbs]
Trees == [lists : [Conns -> Rows], slots : [Keys -> Slots],
          fallback : {Nil} \cup [key : Keys, slot : Slots], lru : Seq(Keys)]
Fetches == {f \in [kind : {"list", "schema"}, key : Conns \X (Dbs \cup {Nil}), ctx : 0 .. MaxSwaps,
                   live : {"pending", "ok", "error"}, served : BOOLEAN] :
              f.kind = "schema" => f.key \in Keys}

SidebarTypeOK ==
    /\ tree \in Trees
    /\ fetch \in Seq(Fetches) /\ Len(fetch) <= MaxFetches
    /\ switches \in Seq([key : Keys, ctx : 0 .. MaxSwaps, listed : BOOLEAN])
    /\ flying \subseteq DOMAIN switches
    /\ lastSwitch \in {0} \cup DOMAIN switches
    /\ active \in {0} \cup DOMAIN switches
    /\ ctx \in 0 .. MaxSwaps
    /\ disk \in [lists : [Conns -> {Nil} \cup [ctx : 0 .. MaxSwaps, names : SUBSET Dbs]],
                 schemas : [Keys -> {Nil} \cup 0 .. MaxSwaps]]
    /\ prefetch \in [armed : BOOLEAN, target : {Nil} \cup [key : Keys, ctx : 0 .. MaxSwaps],
                     fails : 0 .. MaxFails]

(* What earlier runs left in the caches: nothing or everything.            *)
SidebarInit ==
    /\ tree = Bare
    /\ fetch = <<>> /\ switches = <<>> /\ flying = {}
    /\ lastSwitch = 0 /\ active = 0 /\ ctx = 0
    /\ \/ disk = [lists |-> [c \in Conns |-> Nil], schemas |-> [k \in Keys |-> Nil]]
       \/ disk = [lists |-> [c \in Conns |-> [ctx |-> 0, names |-> Dbs]],
                  schemas |-> [k \in Keys |-> 0]]
    /\ prefetch = [armed |-> FALSE, target |-> Nil, fails |-> 0]

-----------------------------------------------------------------------------
(* The tree's own operations, from a tree to a tree.                       *)

HasSlot(t, k) == t.lists[k[1]].st = "loaded" /\ k[2] \in t.lists[k[1]].names
HasFallback(t, k) == t.fallback # Nil /\ t.fallback.key = k
(* slot_ref: what the rest of the window sees of a schema. *)
Shown(t, k) == CASE HasSlot(t, k)     -> t.slots[k]
                 [] HasFallback(t, k) /\ ~HasSlot(t, k) -> t.fallback.slot
                 [] OTHER             -> Empty

Loading(g) == [st |-> "loading", gen |-> g, from |-> "none", ctx |-> 0]
Filled(g, answer) == [st |-> answer.st, gen |-> g, from |-> answer.from, ctx |-> answer.ctx]
(* apply_schema_result: the last dispatched wins. *)
Awaits(slot, g) == slot.st = "loading" /\ slot.gen = g
Settle(slot, g, answer) == IF Awaits(slot, g) THEN Filled(g, answer) ELSE slot

(* A row's list from the cache, if it has none; and its list asked for.    *)
SeedDbList(row, c) ==
    IF row.st = "none" /\ disk.lists[c] # Nil
    THEN [st |-> "loaded", gen |-> 0, from |-> "cache",
          ctx |-> disk.lists[c].ctx, names |-> disk.lists[c].names]
    ELSE row

BeginDbList(row, g) ==
    IF row.st = "loaded" THEN row ELSE [Unlisted EXCEPT !.st = "loading", !.gen = g]

BeginSchema(t, act, k, g) ==
    CASE HasSlot(t, k)              -> [t EXCEPT !.slots[k] = Loading(g)]
      [] ~HasSlot(t, k) /\ act = k  -> [t EXCEPT !.fallback = [key |-> k, slot |-> Loading(g)]]
      [] OTHER                      -> t

(* The elements of s that are in S, in their order.                        *)
Only(s, S) ==
    LET upTo[i \in 0 .. Len(s)] ==
          IF i = 0 THEN <<>> ELSE IF s[i] \in S THEN Append(upTo[i - 1], s[i]) ELSE upTo[i - 1]
    IN upTo[Len(s)]

LoadedKeys(t) == {k \in Keys : HasSlot(t, k) /\ t.slots[k].st = "loaded"}

(* Mutant: the active schema is a victim like any other. *)
Victims_Any(loaded, act) == ToSet(SubSeq(loaded, 1, Len(loaded) - Cap))

(* The oldest of the loaded beyond Cap; never the active one. *)
Victims(loaded, act) == ToSet(SubSeq(Only(loaded, Keys \ {act}), 1, Len(loaded) - Cap))

TouchAndEvict(t, k, act) ==
    LET touched == Append(Only(t.lru, Keys \ {k}), k)
        loaded == Only(touched, LoadedKeys(t))
        gone == IF Len(loaded) > Cap THEN Victims(loaded, act) ELSE {}
    IN [t EXCEPT !.lru = Only(touched, Keys \ gone),
                 !.slots = [x \in Keys |-> IF x \in gone THEN Empty ELSE @[x]]]

FinishSchema(t, act, k, g, answer) ==
    CASE HasSlot(t, k) ->
           TouchAndEvict([t EXCEPT !.slots[k] = Settle(@, g, answer)], k, act)
      [] ~HasSlot(t, k) /\ HasFallback(t, k) ->
           [t EXCEPT !.fallback.slot = Settle(@, g, answer)]
      [] OTHER -> t

(* The active schema, fetched before its list, finds its place in the list. *)
MigrateFallback(t, act, c) ==
    IF t.fallback # Nil /\ t.fallback.key[1] = c /\ HasSlot(t, t.fallback.key)
    THEN LET k == t.fallback.key
             moved == [t EXCEPT !.slots[k] = t.fallback.slot, !.fallback = Nil]
         IN IF t.fallback.slot.st = "loaded" THEN TouchAndEvict(moved, k, act) ELSE moved
    ELSE t

FinishDbList(t, act, c, g, answer, names) ==
    MigrateFallback(IF Awaits(t.lists[c], g)
                    THEN [t EXCEPT !.lists[c] = [st |-> answer.st, gen |-> g, from |-> answer.from,
                                                 ctx |-> answer.ctx, names |-> names]]
                    ELSE t, act, c)

(* any_fetch_in_flight: of every list, and of the slots of loaded lists. *)
AnyFetchInFlight == \/ \E c \in Conns : tree.lists[c].st = "loading"
                    \/ \E k \in Keys : HasSlot(tree, k) /\ tree.slots[k].st = "loading"

-----------------------------------------------------------------------------
(* Dispatch, of a pair of the tree and the fetches.                        *)

Request(kind, k) == [kind |-> kind, key |-> k, ctx |-> ctx, live |-> "pending", served |-> FALSE]

(* start_db_list_fetch: the cached list is painted first. *)
StartDbList(d, c) ==
    [tree |-> [d.tree EXCEPT !.lists[c] = BeginDbList(SeedDbList(@, c), Len(d.fetch) + 1)],
     fetch |-> Append(d.fetch, Request("list", <<c, Nil>>))]

StartSchema(d, act, k) ==
    [tree |-> BeginSchema(d.tree, act, k, Len(d.fetch) + 1),
     fetch |-> Append(d.fetch, Request("schema", k))]

(* load_missing_db_lists: StartDbList of each open row with nothing behind *)
(* it, in some order.                                                      *)
LoadMissing(d, open) ==
    LET rows == SetToSeq({c \in open : d.tree.lists[c].st = "none"})
        turn(c) == CHOOSE i \in DOMAIN rows : rows[i] = c
    IN [tree |-> [d.tree EXCEPT !.lists = [c \in Conns |->
                    IF c \in ToSet(rows)
                    THEN BeginDbList(SeedDbList(@[c], c), Len(d.fetch) + turn(c))
                    ELSE @[c]]],
        fetch |-> d.fetch \o [i \in DOMAIN rows |-> Request("list", <<rows[i], Nil>>)]]

Now == [tree |-> tree, fetch |-> fetch]
Dispatched(d) == /\ Len(d.fetch) <= MaxFetches
                 /\ tree' = d.tree
                 /\ fetch' = d.fetch

(* A row opened with nothing behind it, the click on an error row, and     *)
(* "refresh database list" of the menu, which may come in any state.       *)
AskList(c) ==
    /\ Dispatched(StartDbList(Now, c))
    /\ UNCHANGED <<switches, flying, lastSwitch, active, ctx, disk, prefetch>>

(* A database's row opened or refreshed; the refresh of the active schema, *)
(* listed or not, from the toolbar or after an applied change.             *)
LoadSchema(k) ==
    /\ HasSlot(tree, k) \/ k = ActiveKey
    /\ Dispatched(StartSchema(Now, ActiveKey, k))
    /\ UNCHANGED <<switches, flying, lastSwitch, active, ctx, disk, prefetch>>

-----------------------------------------------------------------------------
(* Answers.  A cache file is written and read by tasks of their own; here  *)
(* it is written when the answer lands and read when it is painted.        *)

(* names: the list, or {} for a fetch that failed; both arm the prefetch.   *)
ListLands(g, names) ==
    /\ g \in DOMAIN fetch /\ fetch[g].kind = "list" /\ fetch[g].live = "pending"
    /\ LET c == fetch[g].key[1]
           ok == names # {}
       IN /\ fetch' = [fetch EXCEPT ![g].live = IF ok THEN "ok" ELSE "error"]
          /\ disk' = IF ok THEN [disk EXCEPT !.lists[c] = [ctx |-> fetch[g].ctx, names |-> names]]
                     ELSE disk
          /\ tree' = FinishDbList(tree, ActiveKey, c, g,
                                  IF ok THEN Reply("server", fetch[g].ctx) ELSE Failure, names)
    /\ prefetch' = [prefetch EXCEPT !.armed = TRUE]
    /\ UNCHANGED <<switches, flying, lastSwitch, active, ctx>>

CacheLands(g) ==
    /\ g \in DOMAIN fetch /\ fetch[g].kind = "schema"
    /\ fetch[g].live = "pending" /\ ~fetch[g].served
    /\ LET k == fetch[g].key
       IN /\ disk.schemas[k] # Nil
          /\ tree' = FinishSchema(tree, ActiveKey, k, g, Reply("cache", disk.schemas[k]))
    /\ fetch' = [fetch EXCEPT ![g].served = TRUE]
    /\ UNCHANGED <<switches, flying, lastSwitch, active, ctx, disk, prefetch>>

(* A failed refresh does not wipe what the cache has painted. *)
SchemaLands(g, ok) ==
    /\ g \in DOMAIN fetch /\ fetch[g].kind = "schema" /\ fetch[g].live = "pending"
    /\ fetch' = [fetch EXCEPT ![g].live = IF ok THEN "ok" ELSE "error", ![g].served = FALSE]
    /\ disk' = IF ok THEN [disk EXCEPT !.schemas[fetch[g].key] = fetch[g].ctx] ELSE disk
    /\ tree' = IF ~ok /\ fetch[g].served THEN tree
               ELSE FinishSchema(tree, ActiveKey, fetch[g].key, g,
                                 IF ok THEN Reply("server", fetch[g].ctx) ELSE Failure)
    /\ UNCHANGED <<switches, flying, lastSwitch, active, ctx, prefetch>>

-----------------------------------------------------------------------------
(* Switches of the active database, and of the context.                    *)

(* listed: the first switch, of a restored session, asks for the list too. *)
SwitchTo(k, listed) ==
    /\ Len(switches) < MaxSwitches
    /\ k # ActiveKey
    /\ listed => switches = <<>>
    /\ switches' = Append(switches, [key |-> k, ctx |-> ctx, listed |-> listed])
    /\ flying' = flying \cup {Len(switches')}
    /\ lastSwitch' = Len(switches')
    /\ UNCHANGED <<tree, fetch, active, ctx, disk, prefetch>>

(* Mutant: no generation is compared. *)
Superseded_Never(i) == FALSE

(* Of two switches under way the first asked for lands on nothing. *)
Superseded(i) == i # lastSwitch

(* A switch that fails, like one superseded, changes nothing.  open: rows  *)
(* a restored session or an earlier context left open.                     *)
SwitchLands(i, open) ==
    /\ i \in flying /\ ~Superseded(i)
    /\ flying' = flying \ {i}
    /\ active' = i
    /\ LET k == switches[i].key
           schema == StartSchema(Now, k, k)
           list == IF switches[i].listed THEN StartDbList(schema, k[1]) ELSE schema
       IN Dispatched(LoadMissing(list, open \cup {k[1]}))
    /\ UNCHANGED <<switches, lastSwitch, ctx, disk, prefetch>>

(* Mutant: the fallback slot survives. *)
Cleared_Lists(t) == [Bare EXCEPT !.fallback = t.fallback]

(* clear_fetched_context *)
Cleared(t) == Bare

(* apply_context: everything fetched goes, and so does the connection. *)
SwapContext ==
    /\ ctx < MaxSwaps
    /\ ctx' = ctx + 1
    /\ active' = 0 /\ lastSwitch' = 0
    /\ tree' = Cleared(tree)
    /\ UNCHANGED <<fetch, switches, flying, disk, prefetch>>

-----------------------------------------------------------------------------
(* The idle prefetch: it warms the cache and never touches the tree.       *)

(* Mutant: what is cached already is warmed again. *)
Candidates_Again(c) == {k \in {c} \X tree.lists[c].names :
                          tree.slots[k].st = "none" /\ k # ActiveKey}

(* next_target, but for the order; known: the tree has something for it. *)
Candidates(c) == {k \in {c} \X tree.lists[c].names :
                    tree.slots[k].st = "none" /\ disk.schemas[k] = Nil /\ k # ActiveKey}

PrefetchMayStart == active # 0 /\ ~AnyFetchInFlight /\ prefetch.target = Nil

(* A busy lap changes nothing; an idle one with nothing to do is the last. *)
PrefetchStarts ==
    /\ prefetch.armed /\ PrefetchMayStart
    /\ tree.lists[ActiveKey[1]].st = "loaded"
    /\ \E k \in Candidates(ActiveKey[1]) :
          prefetch' = [prefetch EXCEPT !.target = [key |-> k, ctx |-> ctx]]
    /\ UNCHANGED <<tree, fetch, switches, flying, lastSwitch, active, ctx, disk>>

PrefetchEnds ==
    /\ prefetch.armed
    /\ \/ active = 0
       \/ /\ PrefetchMayStart
          /\ tree.lists[ActiveKey[1]].st # "loaded" \/ Candidates(ActiveKey[1]) = {}
    /\ prefetch' = [prefetch EXCEPT !.armed = FALSE]
    /\ UNCHANGED <<tree, fetch, switches, flying, lastSwitch, active, ctx, disk>>

PrefetchLands(ok) ==
    /\ prefetch.target # Nil
    /\ ok \/ prefetch.fails < MaxFails
    /\ disk' = IF ok THEN [disk EXCEPT !.schemas[prefetch.target.key] = prefetch.target.ctx] ELSE disk
    /\ prefetch' = [prefetch EXCEPT !.target = Nil, !.fails = @ + (IF ok THEN 0 ELSE 1)]
    /\ UNCHANGED <<tree, fetch, switches, flying, lastSwitch, active, ctx>>

-----------------------------------------------------------------------------
SidebarUser == \/ \E c \in Conns : AskList(c)
               \/ \E k \in Keys : LoadSchema(k)
               \/ \E k \in Keys, listed \in BOOLEAN : SwitchTo(k, listed)
               \/ SwapContext

Lands(g) == \/ \E names \in Lists \cup {{}} : ListLands(g, names)
            \/ \E ok \in BOOLEAN : SchemaLands(g, ok)

Lap == PrefetchStarts \/ PrefetchEnds

SidebarNext == \/ SidebarUser
               \/ \E g \in 1 .. MaxFetches : Lands(g) \/ CacheLands(g)
               \/ \E i \in 1 .. MaxSwitches, open \in SUBSET Conns : SwitchLands(i, open)
               \/ Lap
               \/ \E ok \in BOOLEAN : PrefetchLands(ok)

(* Every fetch answers or fails (its task drops its channel), and the loop *)
(* of the prefetch looks every five seconds.                               *)
Fairness == /\ WF_sidebarVars(\E g \in 1 .. MaxFetches : Lands(g))
            /\ WF_sidebarVars(Lap)
            /\ WF_sidebarVars(\E ok \in BOOLEAN : PrefetchLands(ok))

SidebarSpec == SidebarInit /\ [][SidebarNext]_sidebarVars /\ Fairness

-----------------------------------------------------------------------------
(* The seed of the cached list (seed_db_list_from_cache) does not give the *)
(* fallback's schema its place, so nothing below is promised of a          *)
(* connection while its list is the cache's.                               *)
Painted(c) == tree.lists[c].from = "cache"

(* No more than Cap schemas are kept in memory, whatever lands in whatever *)
(* order (touch_and_evict).                                                *)
CacheBounded == Cardinality(LoadedKeys(tree)) <= Cap

(* What a server answered under one context is never shown under another,  *)
(* and the active connection was switched to in the context in force       *)
(* (apply_context, reset_fetched_context, switch_generation).              *)
ContextsApart ==
    /\ \A c \in Conns : tree.lists[c].from = "server" => tree.lists[c].ctx = ctx
    /\ \A k \in Keys : Shown(tree, k).from = "server" => Shown(tree, k).ctx = ctx
    /\ active # 0 => switches[active].ctx = ctx

(* A row that says it is loading has a fetch of its own still to answer.   *)
LoadingIsAwaited ==
    /\ \A c \in Conns : tree.lists[c].st = "loading" =>
          /\ fetch[tree.lists[c].gen].live = "pending"
          /\ fetch[tree.lists[c].gen].key[1] = c
    /\ \A k \in Keys : Shown(tree, k).st = "loading" /\ ~Painted(k[1]) =>
          /\ fetch[Shown(tree, k).gen].live = "pending"
          /\ fetch[Shown(tree, k).gen].key = k

(* An older fetch never shows over the answer of a newer one.              *)
NewestWins ==
    \A k \in Keys, g \in DOMAIN fetch :
        (/\ fetch[g].key = k /\ fetch[g].live = "ok" /\ fetch[g].ctx = ctx
         /\ Shown(tree, k).st # "none" /\ ~Painted(k[1])) => Shown(tree, k).gen >= g

(* The parts together: the tree is well formed, bounded, of one context,   *)
(* and shows the newest answers there are.                                 *)
SidebarInv == SidebarTypeOK /\ CacheBounded /\ ContextsApart /\ LoadingIsAwaited /\ NewestWins

(* The schema of the active database, once there, is not taken away by an  *)
(* answer to something else - a list, another schema, an eviction - nor by *)
(* the prefetch: only a fetch or a switch the user asks for does that.     *)
ActiveKeepsItsSchema ==
    [][ active # 0 /\ active' = active /\ Len(fetch') = Len(fetch) /\ ~Painted(ActiveKey[1])
        /\ Shown(tree, ActiveKey).st = "loaded"
        => Shown(tree', ActiveKey).st = "loaded" ]_sidebarVars

(* The fallback's schema and a seeded list: the one way a row loads for    *)
(* ever (see Painted).                                                     *)
Stuck == \E k \in Keys : /\ HasSlot(tree, k) /\ tree.slots[k].st = "loading"
                         /\ fetch[tree.slots[k].gen].live # "pending"

(* The prefetch is no heartbeat: when the user is done and its failures    *)
(* are over the loop ends, unless a row loads for ever.                    *)
PrefetchRests == <>[]~prefetch.armed \/ <>[]Stuck

-----------------------------------------------------------------------------
(* "The cache is never the final answer - the fetch below still runs and   *)
(* replaces it": a schema the server has answered for is not the cache's.  *)
CachedIsReplaced ==
    \A k \in Keys : Shown(tree, k).from = "cache"
                    => fetch[Shown(tree, k).gen].live # "ok"

(* LoadingIsAwaited for every connection, seeded from the cache or not.    *)
EveryLoadingIsAwaited == ~Stuck

=============================================================================
