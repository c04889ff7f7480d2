-------------------------- MODULE KVEventPipeline --------------------------
(***************************************************************************)
(* How the blocks of one engine replica become hints of the server's       *)
(* index: the engine's event stream, the subscriber's Reporter with its    *)
(* positional reverse map and debounce buffer, the time-bounded RPCs, and  *)
(* the replica's share of the index with its freshness TTL.                *)
(*                                                                         *)
(* A prefix hash is modelled by what it identifies: the sequence of token  *)
(* blocks from position 0 (hash collisions are abstracted away).  Time is  *)
(* modelled by ages: every timestamp is its age, capped at TTL, and Tick   *)
(* makes everything older.                                                 *)
(***************************************************************************)
EXTENDS Integers, FiniteSets, Sequences, SequencesExt

CONSTANTS
  Block,         \* the engine's block hashes
  Root,          \* NONE_HASH, the parent of a first block
  Parent(_),     \* the block a block extends, or Root
  Token(_),      \* the token ids a block covers
  PathOf(_),     \* the token blocks from position 0 up to and including a block
  Adapter,       \* adapter partitions; Base is the base model
  Base,
  Unmapped,      \* a LoRA id without a --lora-adapter-names mapping
  LoRA(_),       \* the adapter a block was computed under
  MaxPend,       \* buffered adds that force a flush
  TTL,           \* the age at which the server may sweep an entry
  MaxStream,     \* bound: events between engine and Reporter
  MaxFaults,     \* bound: faults of the calls and of the server
  MaxLosses      \* bound: faults before losing events or the reverse map

ASSUME BlockAssumption ==
  /\ Root \notin Block /\ Base \in Adapter /\ Unmapped \notin Adapter
  /\ \A b \in Block : /\ Parent(b) \in Block \cup {Root}
                      /\ LoRA(b) \in Adapter \cup {Unmapped}
                      /\ Parent(b) \in Block => LoRA(Parent(b)) = LoRA(b)
                      /\ PathOf(b) = IF Parent(b) = Root THEN <<Token(b)>>
                                     ELSE Append(PathOf(Parent(b)), Token(b))

(* The engine hashes content and adapter, so a key belongs to one block.   *)
ASSUME KeyAssumption ==
  \A b, c \in Block : LoRA(b) = LoRA(c) /\ PathOf(b) = PathOf(c) => b = c

ASSUME LimitAssumption ==
  /\ MaxPend \in Nat \ {0} /\ TTL \in Nat \ {0} /\ MaxStream \in Nat \ {0}
  /\ MaxFaults \in Nat /\ MaxLosses \in Nat /\ MaxLosses <= MaxFaults

VARIABLES
  held,          \* blocks in the engine's KV cache
  stream,        \* events published and not yet read by the Reporter
  l2TierPresent, \* is the engine paired with an offload tier
  pos,           \* positionalIndex.blocks
  pending,       \* buffered adds
  pendTs,        \* the age of the newest buffered add
  outbox,        \* the calls the Reporter still makes; it waits for the first
  late,          \* calls the Reporter gave up on, which may still arrive
  index,         \* the server's entries of this replica
  faults,        \* faults so far
  lossy,         \* history: the stream or the reverse map lost something
  tainted,       \* history: keys a failed or late call was about, until the
                 \*          next call about them is served
  gone,          \* history: why a key left the index, other than its eviction
  since          \* history: age of the engine's last store or eviction of a key,
                 \*          kept while nothing was lost

engineVars == <<held, l2TierPresent>>
reporterVars == <<pos, pending, pendTs>>
serverVars == <<index, gone>>
vars == <<held, stream, l2TierPresent, pos, pending, pendTs, outbox, late, index,
          faults, lossy, tainted, gone, since>>

older(a) == IF a < TTL THEN a + 1 ELSE a

Mapped == {b \in Block : LoRA(b) # Unmapped}
Key(b) == [adapter |-> LoRA(b), prefix |-> PathOf(b)]
Keys == {Key(b) : b \in Mapped}

Without(f, S) == [x \in DOMAIN f \ S |-> f[x]]
Over(f, g) == [x \in DOMAIN f \cup DOMAIN g |-> IF x \in DOMAIN g THEN g[x] ELSE f[x]]

-----------------------------------------------------------------------------
(* The engine.  It stores a chain of blocks whose parent it holds, evicts  *)
(* blocks, clears its cache, or crashes and forgets it without a word.     *)

Chains == {<<b>> : b \in Block}
          \cup {c \in Block \X Block : Parent(c[2]) = c[1]}

publish(ev) == /\ Len(stream) < MaxStream
               /\ stream' = Append(stream, ev)

mark(S) == since' = [k \in Keys |-> IF k \in {Key(b) : b \in S \cap Mapped} THEN 0 ELSE since[k]]
forget == since' = [k \in Keys |-> 0]

BlockStored ==
  /\ \E c \in Chains :
       /\ \A i \in DOMAIN c : c[i] \notin held
       /\ Parent(c[1]) \in held \cup {Root}
       /\ held' = held \cup ToSet(c)
       /\ mark(ToSet(c))
       /\ publish([type |-> "stored", blocks |-> c, age |-> 0])
  /\ UNCHANGED <<l2TierPresent, reporterVars, outbox, late, serverVars, faults, lossy, tainted>>

BlockRemoved ==
  /\ \E c \in Chains :
       /\ ToSet(c) \subseteq held
       /\ held' = held \ ToSet(c)
       /\ mark(ToSet(c))
       /\ publish([type |-> "removed", blocks |-> c, age |-> 0])
  /\ UNCHANGED <<l2TierPresent, reporterVars, outbox, late, serverVars, faults, lossy, tainted>>

AllBlocksCleared ==
  /\ held # {}
  /\ held' = {}
  /\ mark(held)
  /\ publish([type |-> "cleared", blocks |-> << >>, age |-> 0])
  /\ UNCHANGED <<l2TierPresent, reporterVars, outbox, late, serverVars, faults, lossy, tainted>>

fault == faults < MaxFaults /\ faults' = faults + 1
loss == faults < MaxLosses /\ faults' = faults + 1 /\ lossy' = TRUE /\ forget

EngineCrash ==
  /\ held # {} /\ loss
  /\ held' = {}
  /\ UNCHANGED <<stream, l2TierPresent, reporterVars, outbox, late, serverVars, tainted>>

(* A PUB socket over its high-water mark, a reconnect, or an undecodable   *)
(* batch loses an event.                                                   *)
LoseEvent ==
  /\ loss
  /\ \E i \in DOMAIN stream : stream' = RemoveAt(stream, i)
  /\ UNCHANGED <<engineVars, reporterVars, outbox, late, serverVars, tainted>>

-----------------------------------------------------------------------------
(* positionalIndex.                                                        *)

(* Mutant: a suffix is keyed as if it started at position 0. *)
Stored_Unchained(c) ==
  [i \in DOMAIN c |-> [adapter |-> LoRA(c[i]), prefix |-> [j \in 1..i |-> Token(c[j])]]]

(* The derived entries of a stored chain: each block extends its parent's  *)
(* prefix if the reverse map knows it, else the chain starts at position 0.*)
Stored(c) ==
  LET parent == Parent(c[1])
      base == IF parent \in DOMAIN pos THEN pos[parent].prefix ELSE << >>
  IN  [i \in DOMAIN c |->
         [adapter |-> LoRA(c[i]), prefix |-> base \o [j \in 1..i |-> Token(c[j])]]]

(* Mutant: an eviction forgets the partition of the block. *)
Removed_NoAdapter(c) ==
  LET known == SelectSeq(c, LAMBDA b : b \in DOMAIN pos)
  IN  [i \in DOMAIN known |-> [adapter |-> Base, prefix |-> pos[known[i]].prefix]]

(* The keys of the evicted blocks the reverse map knows.                   *)
Removed(c) == LET known == SelectSeq(c, LAMBDA b : b \in DOMAIN pos)
              IN  [i \in DOMAIN known |-> pos[known[i]]]

-----------------------------------------------------------------------------
(* Reporter.Run.  The loop reads the next event only when the calls of the *)
(* previous one have returned.                                             *)

AddCall(ks, tier, age) == [type |-> "add", keys |-> ks, tier |-> tier, age |-> age]
EvictedEvent(k, age) == [type |-> "evicted", keys |-> {k}, tier |-> "T1", age |-> age]
ClearedEvent(age) == [type |-> "cleared", keys |-> {}, tier |-> "T1", age |-> age]

flush == IF pending = << >> THEN << >> ELSE <<AddCall(ToSet(pending), "T1", pendTs)>>

read(type) == /\ outbox = << >>
              /\ stream # << >> /\ Head(stream).type = type
              /\ stream' = Tail(stream)

full(buffered) == Len(buffered) >= MaxPend

flushFull(buffered, age) == <<AddCall(ToSet(buffered), "T1", age)>>

(* A chain of an unmapped LoRA id is dropped; any other is recorded and    *)
(* buffered, and the newest timestamp becomes the buffer's.                *)
RunBlockStored ==
  LET c == Head(stream).blocks
      age == Head(stream).age
      buffered == pending \o Stored(c)
  IN  /\ read("stored")
      /\ IF LoRA(c[1]) = Unmapped
         THEN UNCHANGED <<reporterVars, outbox>>
         ELSE /\ pos' = Over(pos, [b \in ToSet(c) |->
                                     Stored(c)[CHOOSE i \in DOMAIN c : c[i] = b]])
              /\ outbox' = IF full(buffered) THEN flushFull(buffered, age) ELSE << >>
              /\ pending' = IF full(buffered) THEN << >> ELSE buffered
              /\ pendTs' = IF full(buffered) THEN 0 ELSE age
      /\ UNCHANGED <<engineVars, late, serverVars, faults, lossy, tainted, since>>

(* With an offload tier the evicted blocks moved, without one they left.   *)
report(evicted, age) ==
  IF l2TierPresent THEN <<AddCall(ToSet(evicted), "T2", age)>>
  ELSE [i \in DOMAIN evicted |-> EvictedEvent(evicted[i], age)]

(* Mutant: the eviction overtakes the buffered adds. *)
evictionCalls_Overtakes(evicted, age) == report(evicted, age) \o flush

evictionCalls(evicted, age) == flush \o report(evicted, age)

(* The reverse map always forgets the blocks; with an offload tier the     *)
(* rest is skipped if none of them was known.                              *)
RunBlockRemoved ==
  LET c == Head(stream).blocks
      evicted == Removed(c)
      skip == l2TierPresent /\ evicted = << >>
  IN  /\ read("removed")
      /\ pos' = Without(pos, ToSet(c))
      /\ outbox' = IF skip THEN << >> ELSE evictionCalls(evicted, Head(stream).age)
      /\ pending' = IF skip THEN pending ELSE << >>
      /\ pendTs' = IF skip THEN pendTs ELSE 0
      /\ UNCHANGED <<engineVars, late, serverVars, faults, lossy, tainted, since>>

Cleared == pos' = Without(pos, Block)

supersede == pending' = << >> /\ pendTs' = 0

(* A clear supersedes the buffered adds.                                   *)
RunAllBlocksCleared ==
  /\ read("cleared")
  /\ supersede
  /\ Cleared
  /\ outbox' = <<ClearedEvent(Head(stream).age)>>
  /\ UNCHANGED <<engineVars, late, serverVars, faults, lossy, tainted, since>>

due == pending # << >>

RunTicker ==
  /\ outbox = << >> /\ due
  /\ outbox' = flush
  /\ pending' = << >> /\ pendTs' = 0
  /\ UNCHANGED <<engineVars, stream, pos, late, serverVars, faults, lossy, tainted, since>>

-----------------------------------------------------------------------------
(* The server's side of a call, and the fate of calls.                     *)

(* An eviction names a partition; the base partition's is taken for every  *)
(* partition.                                                              *)
matches(call, k) ==
  \/ call.type = "cleared"
  \/ /\ call.type = "evicted"
     /\ \E e \in call.keys : e.prefix = k.prefix /\ (e.adapter = Base \/ e.adapter = k.adapter)

removedBy(call) == {k \in DOMAIN index : matches(call, k)}

apply(call) ==
  IF call.type = "add"
  THEN /\ index' = Over(index, [k \in call.keys |-> [tier |-> call.tier, age |-> call.age]])
       /\ gone' = [k \in Keys |-> IF k \in call.keys THEN "" ELSE gone[k]]
  ELSE /\ index' = Without(index, removedBy(call))
       /\ gone' = [k \in Keys |->
                     IF k \in call.keys \/ call.type = "cleared" THEN ""
                     ELSE IF k \in removedBy(call) THEN "swept" ELSE gone[k]]

affected(call) == {k \in Keys : k \in call.keys \/ matches(call, k)}

\* The keys of which a served call tells the server everything, unless an
\* older call about them is still on its way.
settled(call) ==
  (IF call.type = "cleared" THEN Keys ELSE call.keys) \ UNION {affected(c) : c \in late}

Serve ==
  /\ outbox # << >>
  /\ apply(Head(outbox))
  /\ outbox' = Tail(outbox)
  /\ tainted' = tainted \ settled(Head(outbox))
  /\ UNCHANGED <<engineVars, stream, reporterVars, late, faults, lossy, since>>

(* The server is unreachable: the call returns an error and is dropped.    *)
FailCall ==
  /\ outbox # << >> /\ fault
  /\ outbox' = Tail(outbox)
  /\ tainted' = tainted \cup affected(Head(outbox))
  /\ UNCHANGED <<engineVars, stream, reporterVars, late, serverVars, lossy, since>>

(* rpcTimeout passes although the request may still reach the index.       *)
TimeoutCall ==
  /\ outbox # << >> /\ fault
  /\ outbox' = Tail(outbox)
  /\ late' = late \cup {Head(outbox)}
  /\ tainted' = tainted \cup affected(Head(outbox))
  /\ UNCHANGED <<engineVars, stream, reporterVars, serverVars, lossy, since>>

LateServe ==
  /\ \E call \in late : apply(call) /\ late' = late \ {call}
  /\ UNCHANGED <<engineVars, stream, reporterVars, outbox, faults, lossy, tainted, since>>

LateDrop ==
  /\ \E call \in late : late' = late \ {call}
  /\ UNCHANGED <<engineVars, stream, reporterVars, outbox, serverVars, faults, lossy, tainted, since>>

(* The index is memory only: a new server process starts empty.            *)
ServerRestart ==
  /\ index # << >> /\ fault
  /\ index' = << >>
  /\ gone' = [k \in Keys |-> IF k \in DOMAIN index THEN "restart" ELSE gone[k]]
  /\ late' = {}
  /\ UNCHANGED <<engineVars, stream, reporterVars, outbox, lossy, tainted, since>>

(* Mutant: an entry exactly as old as the TTL survives. *)
evictExpired_Strict ==
  /\ \E k \in DOMAIN index : index[k].age > TTL
  /\ UNCHANGED vars

evictExpired ==
  LET expired == {k \in DOMAIN index : index[k].age >= TTL}
  IN  /\ expired # {}
      /\ index' = Without(index, expired)
      /\ gone' = [k \in Keys |-> IF k \in expired THEN "expired" ELSE gone[k]]
      /\ UNCHANGED <<engineVars, stream, reporterVars, outbox, late, faults, lossy, tainted, since>>

-----------------------------------------------------------------------------
(* The sidecar process stops: on a signal it drains what it has buffered,  *)
(* in a crash it does not.  Its successor has an empty reverse map.        *)

Shutdown ==
  /\ stream = << >> /\ outbox = << >> /\ loss
  /\ outbox' = flush
  /\ pending' = << >> /\ pendTs' = 0
  /\ pos' = << >>
  /\ UNCHANGED <<engineVars, stream, late, serverVars, tainted>>

SidecarCrash ==
  /\ loss
  /\ outbox' = << >> /\ pending' = << >> /\ pendTs' = 0
  /\ late' = late \cup {outbox[i] : i \in DOMAIN outbox \cap {1}}
  /\ pos' = << >>
  /\ UNCHANGED <<engineVars, stream, serverVars, tainted>>

Tick ==
  /\ stream' = [i \in DOMAIN stream |-> [stream[i] EXCEPT !.age = older(@)]]
  /\ pendTs' = IF pending = << >> THEN 0 ELSE older(pendTs)
  /\ outbox' = [i \in DOMAIN outbox |-> [outbox[i] EXCEPT !.age = older(@)]]
  /\ late' = {[c EXCEPT !.age = older(@)] : c \in late}
  /\ index' = [k \in DOMAIN index |-> [index[k] EXCEPT !.age = older(@)]]
  /\ since' = IF lossy THEN since ELSE [k \in Keys |-> older(since[k])]
  /\ UNCHANGED <<engineVars, pos, pending, gone, faults, lossy, tainted>>

Init ==
  /\ held = {} /\ stream = << >>
  /\ l2TierPresent \in BOOLEAN
  /\ pos = << >> /\ pending = << >> /\ pendTs = 0
  /\ outbox = << >> /\ late = {}
  /\ index = << >>
  /\ faults = 0 /\ lossy = FALSE /\ tainted = {}
  /\ gone = [k \in Keys |-> ""]
  /\ since = [k \in Keys |-> 0]

Engine == BlockStored \/ BlockRemoved \/ AllBlocksCleared
Run == RunBlockStored \/ RunBlockRemoved \/ RunAllBlocksCleared
Faults == EngineCrash \/ LoseEvent \/ FailCall \/ TimeoutCall \/ ServerRestart
            \/ Shutdown \/ SidecarCrash

Next == \/ Engine \/ Run \/ RunTicker \/ Serve \/ LateServe \/ LateDrop
        \/ evictExpired \/ Faults \/ Tick

Spec == Init /\ [][Next]_vars

(* The Reporter's loop runs, its select serves a ready ticker, every call  *)
(* ends, time passes, and the server's sweep ticker fires.                 *)
Fairness == /\ WF_vars(Run) /\ SF_vars(RunTicker) /\ WF_vars(Serve)
            /\ WF_vars(LateServe \/ LateDrop)
            /\ WF_vars(Tick) /\ WF_vars(evictExpired)

FairSpec == Spec /\ Fairness

-----------------------------------------------------------------------------
(* Properties                                                              *)

HeldKeys == {Key(b) : b \in held \cap Mapped}
KeysOf(ev) == {Key(b) : b \in ToSet(ev.blocks) \cap Mapped}
Hints == {k \in DOMAIN index : index[k].tier = "T1"}

(* While the stream is whole, the reverse map the Reporter has built when  *)
(* it catches up is exactly the engine's cache: every held block at its    *)
(* true position, and no evicted one (the map does not grow).              *)
ReverseMapExact ==
  ~lossy /\ stream = << >> =>
    /\ DOMAIN pos = held \cap Mapped
    /\ \A b \in DOMAIN pos : pos[b] = Key(b)

RemovalUnderway(k) ==
  \/ \E ev \in Range(stream) : ev.type = "cleared" \/ (ev.type = "removed" /\ k \in KeysOf(ev))
  \/ \E c \in Range(outbox) : matches(c, k) \/ (c.type = "add" /\ c.tier = "T2" /\ k \in c.keys)

ReportUnderway(k) ==
  \/ \E ev \in Range(stream) : ev.type = "stored" /\ k \in KeysOf(ev)
  \/ k \in Range(pending)
  \/ \E c \in Range(outbox) : c.type = "add" /\ c.tier = "T1" /\ k \in c.keys

(* A hint that claims the hottest tier is backed by a block the engine     *)
(* holds, or the eviction (or downgrade) that corrects it is on its way    *)
(* and cannot be overtaken by an older add.  The key of a call that failed *)
(* or came late is let off until the next call about it is served.         *)
HintsBacked ==
  ~lossy => \A k \in Hints \ tainted : k \in HeldKeys \/ RemovalUnderway(k)

DroppedByServer(k) ==
  gone[k] \in {"expired", "restart"} \/ (gone[k] = "swept" /\ k.adapter # Base)

(* Every held block of a mapped adapter is hinted at T1, or its report is  *)
(* on its way, or the server dropped the hint: by the TTL, by losing its   *)
(* memory, or, of a LoRA partition only, by a base-model eviction.  What a *)
(* failed flush lost is hinted again once the engine has stored it again   *)
(* and the add is served.                                                  *)
HoldsHinted ==
  ~lossy => \A k \in HeldKeys \ tainted : k \in Hints \/ DroppedByServer(k) \/ ReportUnderway(k)

(* At rest a T2 hint is exactly as old as the eviction that confirmed it,  *)
(* and a T1 hint is no older than its store: the shared window timestamp   *)
(* may refresh an add but never a downgrade.                               *)
FreshnessAnchored ==
  ~lossy /\ stream = << >> /\ pending = << >> /\ outbox = << >> =>
    \A k \in (Keys \cap DOMAIN index) \ tainted :
      IF index[k].tier = "T2" THEN index[k].age = since[k] ELSE index[k].age <= since[k]

(* Whatever was lost, delayed or crashed, a hint the engine does not back  *)
(* leaves the index: the damage of every fault is bounded by the TTL.      *)
Phantom(k) == k \in DOMAIN index /\ k \notin HeldKeys
PhantomsExpire == \A k \in Keys : Phantom(k) ~> ~Phantom(k)

(* A suffix whose parent the Reporter missed is keyed as if it started at  *)
(* position 0.  Such a key fades once the engine stops storing those       *)
(* tokens; until then every store or downgrade may renew it.               *)
FalseRoots == {[adapter |-> LoRA(b), prefix |-> <<Token(b)>>] : b \in Mapped} \ Keys
FalseRootsFade ==
  \A k \in FalseRoots :
    <>[](\A b \in held : <<Token(b)>> # k.prefix) => <>[](k \notin DOMAIN index)

(* Everything the Reporter has buffered is delivered or given up, again    *)
(* and again: neither a busy engine nor a server that fails or hangs keeps *)
(* the debounce window open or wedges the forwarder, so what HoldsHinted   *)
(* allows to be on its way arrives.                                        *)
FlushesFinish == []<>(pending = << >> /\ outbox = << >>)

(* The hints are current: what the engine holds is hinted, and at rest a   *)
(* hint is as old as the store or the eviction it stands for.              *)
HintsCurrent == HoldsHinted /\ FreshnessAnchored

(* The pipeline recovers (forwarder.flush, evictExpired): the Reporter     *)
(* keeps delivering, and wrong hints of every kind leave the index.        *)
PipelineRecovers == PhantomsExpire /\ FalseRootsFade /\ FlushesFinish
=============================================================================
