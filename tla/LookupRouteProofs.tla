------------------------- MODULE LookupRouteProofs --------------------------
(* Theorems about LookupRoute for every set of handlers, requests, updates *)
(* and policies, every length of a chain and any number of slots.          *)
EXTENDS LookupCallProofs

-----------------------------------------------------------------------------
(* The tokenizer slots.                                                    *)
SlotInv ==
  /\ CallsOK /\ HeldOK /\ access \in [Entries -> Nat]
  /\ slots \in Nat /\ orphans \in [{"start", "encode"} -> Nat]
  /\ SlotsMatchEncodes

LEMMA EncodingDef == Encoding = {h \in Handler : Encodes(call[h])} /\ Encoding' = {h \in Handler : Encodes(call'[h])}
BY DEF Encoding, Encodes, At

LEMMA EncodingFinite == IsFiniteSet(Encoding) /\ Cardinality(Encoding) \in Nat
<1>1. Encoding \subseteq Handler /\ IsFiniteSet(Handler)
  BY ConstantAssumption DEF Encoding
<1> QED BY <1>1, FS_Subset, FS_CardinalityType

LEMMA EncodingSame ==
  ASSUME NEW h \in Handler, \A g \in Handler \ {h} : call'[g] = call[g], Encodes(call[h]) <=> Encodes(call'[h])
  PROVE  Encoding' = Encoding
BY EncodingDef DEF Encodes

LEMMA EncodingAdds ==
  ASSUME NEW h \in Handler, \A g \in Handler \ {h} : call'[g] = call[g], ~Encodes(call[h]), Encodes(call'[h])
  PROVE  Cardinality(Encoding') = Cardinality(Encoding) + 1
<1>1. Encoding' = Encoding \cup {h} /\ h \notin Encoding
  BY EncodingDef DEF Encodes
<1> QED BY <1>1, EncodingFinite, FS_AddElement, ZenonT(60)

LEMMA EncodingDrops ==
  ASSUME NEW h \in Handler, \A g \in Handler \ {h} : call'[g] = call[g], Encodes(call[h]), ~Encodes(call'[h])
  PROVE  Cardinality(Encoding') = Cardinality(Encoding) - 1
<1>1. Encoding' = Encoding \ {h} /\ h \in Encoding
  BY EncodingDef DEF Encodes
<1> QED BY <1>1, EncodingFinite, FS_RemoveElement, ZenonT(60)

(* SlotsMatchEncodes with Encoding named.                                  *)
Slotted == slots = orphans.encode + Cardinality(Encoding) /\ slots <= MaxConcurrentTokenize

LEMMA SlottedIs == (SlotsMatchEncodes <=> Slotted) /\ (SlotsMatchEncodes' <=> Slotted')
BY DEF SlotsMatchEncodes, Slotted, Encoding, At

LEMMA SlotsKept ==
  ASSUME SlotInv, UNCHANGED <<slots, orphans>>, Encoding' = Encoding
  PROVE  SlotsMatchEncodes' /\ slots' \in Nat /\ orphans' \in [{"start", "encode"} -> Nat]
BY SlottedIs DEF SlotInv, Slotted

LEMMA HeldKept == ASSUME HeldOK, UNCHANGED <<held, events>> PROVE HeldOK'
BY DEF HeldOK, Key

LEMMA TypedAccess ==
  ASSUME access \in [Entries -> Nat], NEW h \in Handler, Silent(h) \/ Speaks(h)
  PROVE  access' \in [Entries -> Nat]
<1>1. CASE Silent(h)
  BY <1>1 DEF Silent
<1>2. CASE Speaks(h)
  <2>1. PICK a : access' = [e \in Entries |-> access[e] + IF e \in a.entries THEN 1 ELSE 0]
    BY <1>2 DEF Speaks
  <2> QED BY <2>1
<1> QED BY <1>1, <1>2

LEMMA SlotStepOne ==
  ASSUME SlotInv, NEW h \in Handler, Silent(h) \/ Speaks(h), UNCHANGED <<held, events>>,
         \/ (Encodes(call[h]) <=> Encodes(call'[h])) /\ UNCHANGED slots
              /\ orphans' \in {orphans, [orphans EXCEPT !["start"] = @ + 1]}
         \/ /\ ~Encodes(call[h]) /\ Encodes(call'[h]) /\ slots < MaxConcurrentTokenize
            /\ slots' = slots + 1 /\ UNCHANGED orphans
         \/ /\ Encodes(call[h]) /\ ~Encodes(call'[h]) /\ slots' = slots - 1 /\ UNCHANGED orphans
         \/ /\ Encodes(call[h]) /\ ~Encodes(call'[h]) /\ UNCHANGED slots
            /\ orphans' = [orphans EXCEPT !["encode"] = @ + 1]
  PROVE  SlotInv'
<1>1. CallsOK' /\ \A g \in Handler \ {h} : call'[g] = call[g]
  BY DEF Silent, Speaks, Keeps
<1>2. HeldOK' /\ access' \in [Entries -> Nat]
  BY HeldKept, TypedAccess DEF SlotInv
<1>3. /\ slots = orphans.encode + Cardinality(Encoding) /\ slots <= MaxConcurrentTokenize
      /\ slots \in Nat /\ orphans \in [{"start", "encode"} -> Nat] /\ Cardinality(Encoding) \in Nat
      /\ MaxConcurrentTokenize \in Nat
  BY SlottedIs, EncodingFinite, ConstantAssumption DEF SlotInv, Slotted
<1>4. CASE /\ (Encodes(call[h]) <=> Encodes(call'[h])) /\ UNCHANGED slots
           /\ orphans' \in {orphans, [orphans EXCEPT !["start"] = @ + 1]}
  <2>1. Encoding' = Encoding
    BY <1>1, <1>4, EncodingSame
  <2>2. orphans' \in [{"start", "encode"} -> Nat] /\ orphans'.encode = orphans.encode
    BY <1>3, <1>4
  <2> QED BY <1>1, <1>2, <1>3, <1>4, <2>1, <2>2, SlottedIs DEF SlotInv, Slotted
<1>5. CASE /\ ~Encodes(call[h]) /\ Encodes(call'[h]) /\ slots < MaxConcurrentTokenize
           /\ slots' = slots + 1 /\ UNCHANGED orphans
  <2>1. Cardinality(Encoding') = Cardinality(Encoding) + 1
    BY <1>1, <1>5, EncodingAdds
  <2>2. slots' \in Nat /\ slots' = orphans'.encode + Cardinality(Encoding') /\ slots' <= MaxConcurrentTokenize
    BY <1>3, <1>5, <2>1
  <2> QED BY <1>1, <1>2, <1>3, <1>5, <2>2, SlottedIs DEF SlotInv, Slotted
<1>6. CASE Encodes(call[h]) /\ ~Encodes(call'[h]) /\ slots' = slots - 1 /\ UNCHANGED orphans
  <2>1. Cardinality(Encoding') = Cardinality(Encoding) - 1 /\ Cardinality(Encoding') \in Nat
    <3>1. Cardinality(Encoding') = Cardinality(Encoding) - 1
      BY <1>1, <1>6, EncodingDrops
    <3>2. h \in Encoding
      BY <1>6, EncodingDef
    <3>3. Cardinality(Encoding) # 0
      BY <3>2, EncodingFinite, FS_EmptySet
    <3> QED BY <1>3, <3>1, <3>3
  <2>2. slots' \in Nat /\ slots' = orphans'.encode + Cardinality(Encoding') /\ slots' <= MaxConcurrentTokenize
    BY <1>3, <1>6, <2>1
  <2> QED BY <1>1, <1>2, <1>3, <1>6, <2>2, SlottedIs DEF SlotInv, Slotted
<1>7. CASE /\ Encodes(call[h]) /\ ~Encodes(call'[h]) /\ UNCHANGED slots
           /\ orphans' = [orphans EXCEPT !["encode"] = @ + 1]
  <2>1. Cardinality(Encoding') = Cardinality(Encoding) - 1
    BY <1>1, <1>7, EncodingDrops
  <2>2. orphans' \in [{"start", "encode"} -> Nat] /\ orphans'.encode = orphans.encode + 1
    BY <1>3, <1>7
  <2>3. slots' = orphans'.encode + Cardinality(Encoding')
    BY <1>3, <1>7, <2>1, <2>2
  <2> QED BY <1>1, <1>2, <1>3, <1>7, <2>2, <2>3, SlottedIs DEF SlotInv, Slotted
<1> QED BY <1>4, <1>5, <1>6, <1>7

(* Every step of a handler's goroutine.                                    *)
LEMMA HandlerStepOK ==
  ASSUME SlotInv, NEW h \in Handler, HandlerStep(h)
  PROVE  SlotInv' /\ (Silent(h) \/ Speaks(h))
<1>1. CallsOK /\ HeldOK /\ access \in [Entries -> Nat] /\ UNCHANGED <<held, events>>
  BY DEF SlotInv, HandlerStep, indexVars
<1>2. CASE Resolve(h)
  BY <1>1, <1>2, ResolveOK, SlotStepOne
<1>3. CASE ResolveTimeout(h)
  BY <1>1, <1>3, ResolveTimeoutOK, SlotStepOne
<1>4. CASE ~Resolve(h) /\ ~ResolveTimeout(h)
  <2>1. UNCHANGED tokenizeVars
    BY <1>4, ZenonT(60) DEF HandlerStep, Budget, ReadChainMatching, ChainGate, TakeInputs, Admit, AdmitAffinity,
      LookupStart, LookupMatch, LookupHot, LookupClassify, LookupTimeout, TakeResult, TenantHotGate,
      MinimumPrefixGate, applyMatchedTokensFloor, RoutingFloorGate, TryAffinity, PickAffinity, Deliver
  <2>2. Steps(h)
    BY <1>1, <1>4, BudgetOK, ReadChainMatchingOK, ChainGateOK, TakeInputsOK, GatesOK, FloorOK, PickAffinityOK,
       DeliverOK, LookupStartOK, LookupMatchOK, LookupMissOK DEF HandlerStep
  <2> QED BY <1>1, <2>1, <2>2, SlotStepOne, SMTT(20) DEF Steps, tokenizeVars
<1> QED BY <1>2, <1>3, <1>4

LEMMA EncodeStepOK ==
  ASSUME SlotInv, NEW h \in Handler, EncodeReturns(h)
  PROVE  SlotInv' /\ Silent(h)
<1>1. CallsOK /\ UNCHANGED <<held, events>>
  BY DEF SlotInv, EncodeReturns, indexVars
<1> QED BY <1>1, EncodeReturnsOK, SlotStepOne

LEMMA EndsOK ==
  ASSUME SlotInv, NEW h \in Handler, Ends(h)
  PROVE  SlotInv' /\ Silent(h)
<1> DEFINE c == [call[h] EXCEPT !.done = TRUE]
<1>1. Change(h, c) /\ UNCHANGED <<held, access, slots, orphans, events>> /\ call[h].pc \notin {"idle", "answered"}
  BY DEF Ends, Active, indexVars, tokenizeVars
<1>2. /\ CallOK(c) /\ c.pc = call[h].pc /\ c.resolver = call[h].resolver /\ c.req = call[h].req
      /\ c.answer = call[h].answer
  BY DEF SlotInv, CallsOK, CallOK, Fields, Early, Late
<1> HIDE DEF c
<1>3. Silent(h) /\ (Encodes(call[h]) <=> Encodes(call'[h]))
  BY <1>1, <1>2, SilentOK DEF SlotInv, Encodes
<1> QED BY <1>1, <1>3, SlotStepOne

(* A handler that takes a call or gives it back holds no slot.             *)
LEMMA FrameOK ==
  ASSUME SlotInv, NEW h \in Handler, NEW c, Change(h, c), CallOK(c), ~Encodes(c), ~Encodes(call[h]),
         UNCHANGED <<held, access, slots, orphans, events>>
  PROVE  SlotInv'
<1>1. CallsOK' /\ call'[h] = c /\ \A g \in Handler \ {h} : call'[g] = call[g]
  BY ChangeFacts, ChangeOK DEF SlotInv
<1>2. Encoding' = Encoding
  BY <1>1, EncodingSame
<1> QED BY <1>1, <1>2, SlotsKept, HeldKept DEF SlotInv

LEMMA BeginOK == ASSUME SlotInv, NEW h \in Handler, Begin(h)
  PROVE  /\ SlotInv' /\ call[h].answer = {}
         /\ call[h].pc = "idle" /\ call'[h].pc = "budget" /\ call'[h].answer = {}
         /\ \A g \in Handler \ {h} : call'[g] = call[g]
<1> PICK r \in Requests : Change(h, [Idle EXCEPT !.pc = "budget", !.req = r, !.pols = {policy},
                                                 !.ever = DOMAIN held, !.always = DOMAIN held])
  BY ZenonT(60) DEF Begin
<1> DEFINE c == [Idle EXCEPT !.pc = "budget", !.req = r, !.pols = {policy},
                             !.ever = DOMAIN held, !.always = DOMAIN held]
<1>1. CallOK(c) /\ c.pc = "budget" /\ c.answer = {}
  BY NoResultOK, NoInputsSeeded, ZenonT(60) DEF CallOK, Idle, Fields, Early, Late, NoInputs, TextOnly
<1>2. Change(h, c) /\ UNCHANGED <<held, access, slots, orphans, events>> /\ call[h].pc = "idle"
  BY DEF Begin, At, indexVars, tokenizeVars
<1>3. call[h].answer = {}
  BY <1>2 DEF SlotInv, CallsOK, CallOK
<1> HIDE DEF c
<1> QED BY <1>1, <1>2, <1>3, FrameOK, ChangeFacts, SMTT(20) DEF Encodes, SlotInv

LEMMA CloseOK == ASSUME SlotInv, NEW h \in Handler, Close(h)
  PROVE  /\ SlotInv' /\ call[h].pc = "answered" /\ call[h].answer # {}
         /\ call'[h] = Idle /\ \A g \in Handler \ {h} : call'[g] = call[g]
<1>1. Change(h, Idle) /\ UNCHANGED <<held, access, slots, orphans, events>> /\ call[h].pc = "answered"
  BY DEF Close, At, indexVars, tokenizeVars
<1>2. call[h].answer # {} /\ ~Encodes(call[h]) /\ ~Encodes(Idle)
  BY <1>1 DEF SlotInv, CallsOK, CallOK, Encodes, Idle
<1> QED BY <1>1, <1>2, IdleOK, FrameOK, ChangeFacts DEF SlotInv

(* The calls as the contract sees them do not change.                      *)
Alike(c, d) == CallOK(d) /\ d.pc = c.pc /\ d.req = c.req /\ d.resolver = c.resolver /\ d.answer = c.answer
SameCalls == DOMAIN call' = Handler /\ \A h \in Handler : Alike(call[h], call'[h])

LEMMA SameCallsOK == ASSUME SameCalls PROVE CallsOK' /\ Encoding' = Encoding
<1>1. CallsOK'
  <2>1. DOMAIN call' = Handler /\ \A g \in Handler : CallOK(call'[g])
    BY DEF SameCalls, Alike
  <2> QED BY <2>1 DEF CallsOK, CallOK, InputKind, Given, CarriesChain, TextOnly, ResultOK, HitsOK
<1>2. Encoding' = Encoding
  BY EncodingDef DEF SameCalls, Alike, Encodes
<1> QED BY <1>1, <1>2

LEMMA UnchangedCalls == ASSUME CallsOK, UNCHANGED call PROVE SameCalls
BY DEF CallsOK, SameCalls, Alike

(* What the calls record of their surroundings is theirs alone.            *)
LEMMA RecordOK ==
  ASSUME NEW c, CallOK(c), NEW x, NEW d,
         d = [c EXCEPT !.ever = x] \/ d = [c EXCEPT !.always = x] \/ d = [c EXCEPT !.pols = x]
  PROVE  Alike(c, d)
<1>1. DOMAIN c = Fields
  BY DEF CallOK
<1>2. DOMAIN d = Fields /\ \A f \in Fields \ {"ever", "always", "pols"} : d[f] = c[f]
  BY <1>1
<1> QED BY <1>2 DEF Alike, CallOK, Fields

LEMMA IngestOK == ASSUME SlotInv, Ingest PROVE SlotInv' /\ SameCalls /\ UNCHANGED access
<1>1. PICK i \in DOMAIN Updates :
        LET k == Updates[i].key
            id == IF k \in DOMAIN held THEN held[k].id ELSE Len(Updates) + events + 1
        IN  /\ held' = [j \in DOMAIN held \cup {k} |-> IF j = k THEN Stored(Updates[i], id) ELSE held[j]]
            /\ call' = [h \in Handler |-> [call[h] EXCEPT !.ever = IF Active(h) THEN @ \cup {k} ELSE @]]
  BY ZenonT(60) DEF Ingest
<1> DEFINE k == Updates[i].key
           id == IF k \in DOMAIN held THEN held[k].id ELSE Len(Updates) + events + 1
<1>2. /\ DOMAIN held' = DOMAIN held \cup {k} /\ held'[k].id = id
      /\ \A j \in DOMAIN held \ {k} : held'[j] = held[j]
  BY <1>1 DEF Stored
<1>3. /\ k.replica \in Replica /\ k = Key(k.scope, k.hash, k.replica) /\ Len(Updates) \in Nat
      /\ events \in Nat /\ events' = events + 1 /\ UNCHANGED <<access, slots, orphans>>
  <2>1. k.replica \in Replica /\ k = [scope |-> k.scope, hash |-> k.hash, replica |-> k.replica]
    <3>1. \A n \in DOMAIN Updates :
            /\ Updates[n].key.replica \in Replica
            /\ Updates[n].key = [scope |-> Updates[n].key.scope, hash |-> Updates[n].key.hash,
                                 replica |-> Updates[n].key.replica]
      BY ConstantAssumption
    <3> QED BY <3>1
  <2>2. Len(Updates) \in Nat
    BY ConstantAssumption DEF Finite
  <2> QED BY <2>1, <2>2 DEF Key, SlotInv, HeldOK, Ingest, tokenizeVars
<1>4. \A h \in Handler : call'[h] = [call[h] EXCEPT !.ever = IF Active(h) THEN @ \cup {k} ELSE @]
  BY <1>1
<1>5. DOMAIN call' = Handler
  BY <1>1
<1> HIDE DEF k
<1>6. HeldOK'
  <2>1. \A j \in DOMAIN held' : held'[j].id \in 1..(Len(Updates) + events')
    BY <1>2, <1>3 DEF SlotInv, HeldOK
  <2>2. \A j, l \in DOMAIN held' : held'[j].id = held'[l].id => j = l
    <3>1. \A j \in DOMAIN held \ {k} : held[j].id # id
      BY <1>3 DEF SlotInv, HeldOK
    <3> HIDE DEF id
    <3> QED BY <1>2, <3>1 DEF SlotInv, HeldOK
  <2>3. \A j \in DOMAIN held' : j.replica \in Replica /\ j = Key(j.scope, j.hash, j.replica)
    BY <1>2, <1>3 DEF SlotInv, HeldOK
  <2> QED BY <1>3, <2>1, <2>2, <2>3 DEF HeldOK, Key
<1>7. SameCalls
  <2>1. \A h \in Handler : CallOK(call[h])
    BY DEF SlotInv, CallsOK
  <2>2. ASSUME NEW h \in Handler
        PROVE  Alike(call[h], call'[h])
    <3>1. \E x : call'[h] = [call[h] EXCEPT !.ever = x]
      BY <1>4, ZenonT(60)
    <3> QED BY <2>1, <3>1, RecordOK
  <2> QED BY <1>5, <2>2 DEF SameCalls
<1> QED BY <1>3, <1>6, <1>7, SameCallsOK, SlotsKept DEF SlotInv

LEMMA ForgetOK == ASSUME SlotInv, Forget PROVE SlotInv' /\ SameCalls /\ UNCHANGED access
<1>1. PICK k \in DOMAIN held : /\ held' = [j \in DOMAIN held \ {k} |-> held[j]]
                               /\ call' = [h \in Handler |-> [call[h] EXCEPT !.always = @ \ {k}]]
  BY ZenonT(60) DEF Forget
<1>2. /\ events \in Nat /\ events' = events + 1 /\ UNCHANGED <<access, slots, orphans>> /\ DOMAIN call' = Handler
      /\ Len(Updates) \in Nat
  BY <1>1, ConstantAssumption DEF SlotInv, HeldOK, Forget, tokenizeVars, Finite
<1>3. HeldOK'
  <2>1. DOMAIN held' = DOMAIN held \ {k} /\ \A j \in DOMAIN held' : held'[j] = held[j]
    BY <1>1
  <2> QED BY <1>2, <2>1 DEF HeldOK, SlotInv, Key
<1>4. ASSUME NEW h \in Handler
      PROVE  Alike(call[h], call'[h])
  <2>1. CallOK(call[h]) /\ \E x : call'[h] = [call[h] EXCEPT !.always = x]
    BY <1>1, ZenonT(60) DEF SlotInv, CallsOK
  <2> QED BY <2>1, RecordOK
<1>5. SameCalls
  BY <1>2, <1>4 DEF SameCalls
<1> QED BY <1>2, <1>3, <1>5, SameCallsOK, SlotsKept DEF SlotInv

LEMMA policyHandlerOK == ASSUME SlotInv, policyHandler PROVE SlotInv' /\ SameCalls /\ UNCHANGED access
<1>1. PICK b : call' = [h \in Handler |-> [call[h] EXCEPT !.pols = IF Active(h) THEN @ \cup {Installed(b)} ELSE @]]
  BY ZenonT(60) DEF policyHandler
<1>2. /\ events \in Nat /\ events' = events + 1 /\ UNCHANGED <<held, access, slots, orphans>>
      /\ DOMAIN call' = Handler /\ Len(Updates) \in Nat
  BY <1>1, ConstantAssumption DEF SlotInv, HeldOK, policyHandler, tokenizeVars, indexVars, Finite
<1>3. HeldOK'
  BY <1>2 DEF HeldOK, SlotInv, Key
<1>4. ASSUME NEW h \in Handler
      PROVE  Alike(call[h], call'[h])
  <2>1. CallOK(call[h]) /\ \E x : call'[h] = [call[h] EXCEPT !.pols = x]
    BY <1>1, ZenonT(60) DEF SlotInv, CallsOK
  <2> QED BY <2>1, RecordOK
<1>5. SameCalls
  BY <1>2, <1>4 DEF SameCalls
<1> QED BY <1>2, <1>3, <1>5, SameCallsOK, SlotsKept DEF SlotInv

LEMMA QuietOK == ASSUME SlotInv, ReportStats \/ Tick PROVE SlotInv' /\ SameCalls /\ UNCHANGED access
<1>1. /\ events \in Nat /\ events' = events + 1 /\ UNCHANGED <<held, access, call, slots, orphans>>
      /\ Len(Updates) \in Nat
  BY ConstantAssumption DEF SlotInv, HeldOK, ReportStats, Tick, tokenizeVars, indexVars, Finite
<1>2. HeldOK'
  BY <1>1 DEF HeldOK, SlotInv, Key
<1>3. SameCalls
  BY <1>1, UnchangedCalls DEF SlotInv
<1> QED BY <1>1, <1>2, <1>3, SameCallsOK, SlotsKept DEF SlotInv

LEMMA OrphansOK == ASSUME SlotInv, OrphanAcquires \/ OrphanReturns PROVE SlotInv' /\ SameCalls /\ UNCHANGED access
<1>1. UNCHANGED <<held, access, call, events>>
  BY DEF OrphanAcquires, OrphanReturns, indexVars
<1>2. HeldOK' /\ SameCalls
  BY <1>1, HeldKept, UnchangedCalls DEF SlotInv
<1>3. CallsOK' /\ Encoding' = Encoding
  BY <1>2, SameCallsOK
<1>4. /\ slots = orphans.encode + Cardinality(Encoding) /\ slots <= MaxConcurrentTokenize
      /\ slots \in Nat /\ orphans \in [{"start", "encode"} -> Nat] /\ Cardinality(Encoding) \in Nat
      /\ MaxConcurrentTokenize \in Nat
  BY SlottedIs, EncodingFinite, ConstantAssumption DEF SlotInv, Slotted
<1>5. CASE OrphanAcquires
  <2>1. PICK taken \in {0, 1} :
          /\ taken = 1 => slots < MaxConcurrentTokenize
          /\ slots' = slots + taken /\ orphans.start > 0
          /\ orphans' = [start |-> orphans.start - 1, encode |-> orphans.encode + taken]
    BY <1>5 DEF OrphanAcquires
  <2>2. orphans.start - 1 \in Nat /\ orphans.encode + taken \in Nat
    BY <1>4, <2>1
  <2>3. orphans' \in [{"start", "encode"} -> Nat] /\ orphans'.encode = orphans.encode + taken
    BY <2>1, <2>2
  <2>4. slots' \in Nat /\ slots' = orphans'.encode + Cardinality(Encoding') /\ slots' <= MaxConcurrentTokenize
    BY <1>3, <1>4, <2>1, <2>3
  <2> QED BY <1>1, <1>2, <1>3, <2>3, <2>4, SlottedIs DEF SlotInv, Slotted
<1>6. CASE OrphanReturns
  <2>1. slots' = slots - 1 /\ orphans.encode > 0 /\ orphans' = [orphans EXCEPT !.encode = @ - 1]
    BY <1>6 DEF OrphanReturns
  <2>2. orphans' \in [{"start", "encode"} -> Nat] /\ orphans'.encode = orphans.encode - 1
    BY <1>4, <2>1
  <2>3. slots' \in Nat /\ slots' = orphans'.encode + Cardinality(Encoding') /\ slots' <= MaxConcurrentTokenize
    BY <1>3, <1>4, <2>1, <2>2
  <2> QED BY <1>1, <1>2, <1>3, <2>2, <2>3, SlottedIs DEF SlotInv, Slotted
<1> QED BY <1>5, <1>6

LEMMA InitOK == Init => SlotInv
<1> SUFFICES ASSUME Init PROVE SlotInv
  OBVIOUS
<1>1. PICK S \in SUBSET DOMAIN Updates :
        held = [k \in {Updates[i].key : i \in S} |->
                  LET i == CHOOSE i \in S : Updates[i].key = k IN Stored(Updates[i], i)]
  BY ZenonT(60) DEF Init
<1>2. ASSUME NEW k \in DOMAIN held
      PROVE  held[k].id \in S /\ Updates[held[k].id].key = k
  <2> DEFINE i == CHOOSE i \in S : Updates[i].key = k
  <2>1. i \in S /\ Updates[i].key = k
    BY <1>1
  <2>2. held[k].id = i
    BY <1>1, ZenonT(60) DEF Stored
  <2> QED BY <2>1, <2>2
<1>3. Len(Updates) \in Nat /\ DOMAIN Updates = 1..Len(Updates) /\ events \in Nat
  BY ConstantAssumption, BoundAssumption DEF Finite, Init
<1>4. HeldOK
  <2>1. \A n \in DOMAIN Updates :
          /\ Updates[n].key.replica \in Replica
          /\ Updates[n].key = [scope |-> Updates[n].key.scope, hash |-> Updates[n].key.hash,
                               replica |-> Updates[n].key.replica]
    BY ConstantAssumption
  <2>2. \A j, k \in DOMAIN held : held[j].id = held[k].id => j = k
    BY <1>2
  <2>3. ASSUME NEW k \in DOMAIN held
        PROVE  /\ held[k].id \in 1..(Len(Updates) + events)
               /\ k.replica \in Replica /\ k = Key(k.scope, k.hash, k.replica)
    <3>1. held[k].id \in 1..Len(Updates) /\ Updates[held[k].id].key = k
      BY <1>2, <1>3
    <3>2. held[k].id \in 1..(Len(Updates) + events)
      BY <1>3, <3>1
    <3>3. k.replica \in Replica /\ k = [scope |-> k.scope, hash |-> k.hash, replica |-> k.replica]
      <4> DEFINE n == held[k].id
      <4>1. n \in DOMAIN Updates /\ Updates[n].key = k
        BY <1>3, <3>1
      <4> HIDE DEF n
      <4> QED BY <2>1, <4>1, ZenonT(60)
    <3> QED BY <3>2, <3>3 DEF Key
  <2> QED BY <1>3, <2>2, <2>3 DEF HeldOK
<1>5. CallsOK /\ \A h \in Handler : ~Encodes(call[h])
  BY IdleOK DEF Init, CallsOK, Encodes, Idle
<1>6. Encoding = {}
  BY <1>5, EncodingDef
<1>7. slots = 0 /\ orphans \in [{"start", "encode"} -> Nat] /\ orphans.encode = 0 /\ access \in [Entries -> Nat]
  BY DEF Init
<1>8. Cardinality(Encoding) = 0 /\ 0 <= MaxConcurrentTokenize
  BY <1>6, FS_EmptySet, ConstantAssumption
<1> QED BY <1>4, <1>5, <1>7, <1>8, SlottedIs DEF SlotInv, Slotted

LEMMA StutterOK == ASSUME SlotInv, UNCHANGED vars PROVE SlotInv' /\ SameCalls /\ UNCHANGED access
<1>1. UNCHANGED <<held, access, call, slots, orphans, events>>
  BY DEF vars
<1>2. HeldOK' /\ SameCalls
  BY <1>1, HeldKept, UnchangedCalls DEF SlotInv
<1> QED BY <1>1, <1>2, SameCallsOK, SlotsKept DEF SlotInv

LEMMA SlotStep == ASSUME SlotInv, [Next]_vars PROVE SlotInv'
<1>1. CASE \E h \in Handler : Begin(h) \/ HandlerStep(h) \/ EncodeReturns(h) \/ Close(h) \/ DeadlinePasses(h)
                              \/ ClientCancels(h)
  BY <1>1, BeginOK, HandlerStepOK, EncodeStepOK, CloseOK, EndsOK DEF DeadlinePasses, ClientCancels
<1>2. CASE OrphanAcquires \/ OrphanReturns \/ Ingest \/ ReportStats \/ Forget \/ policyHandler \/ Tick
  BY <1>2, OrphansOK, IngestOK, QuietOK, ForgetOK, policyHandlerOK
<1>3. CASE UNCHANGED vars
  BY <1>3, StutterOK
<1> QED BY <1>1, <1>2, <1>3 DEF Next

(* A tokenizer slot is taken exactly as long as an Encode runs, also when  *)
(* its handler has timed out and gone (resolveLookupChain's goroutine and  *)
(* tokenizeSem), for any number of handlers and slots.                     *)
THEOREM SlotsTheorem == Spec => []SlotsMatchEncodes
<1>1. Init => SlotInv
  BY InitOK
<1>2. SlotInv /\ [Next]_vars => SlotInv'
  BY SlotStep
<1>3. SlotInv => SlotsMatchEncodes
  BY DEF SlotInv
<1> QED BY <1>1, <1>2, <1>3, PTL DEF Spec

-----------------------------------------------------------------------------
(* The refinement of the contract.                                         *)
LEMMA SilentRefines ==
  ASSUME NEW h \in Handler, Silent(h) PROVE UNCHANGED Contract!vars
<1>1. CallsAsked' = CallsAsked /\ CallsAnswered' = CallsAnswered
  BY DEF Silent, Keeps, CallsAsked, CallsAnswered, At
<1> QED BY <1>1 DEF Contract!vars, Silent

LEMMA SpeaksRefines ==
  ASSUME NEW h \in Handler, Speaks(h) PROVE Contract!Answer(h)
<1>1. PICK a : /\ call'[h].answer = {a} /\ Contract!Legal(Asked(call[h].req), a)
               /\ access' = [e \in Entries |-> access[e] + IF e \in a.entries THEN 1 ELSE 0]
  BY DEF Speaks
<1>2. CallsAsked' = CallsAsked
  BY DEF Speaks, Keeps, CallsAsked, At
<1>3. CallsAsked[h] = {Asked(call[h].req)} /\ CallsAnswered[h] = {} /\ CallsAnswered'[h] = {a}
  BY <1>1 DEF Speaks, Keeps, CallsAsked, CallsAnswered, At
<1>4. \A g \in Handler \ {h} : CallsAnswered'[g] = CallsAnswered[g]
  BY DEF Speaks, Keeps, CallsAnswered
<1> QED BY <1>1, <1>2, <1>3, <1>4 DEF Contract!Answer

LEMMA SameRefines ==
  ASSUME SameCalls, UNCHANGED access PROVE UNCHANGED Contract!vars
<1>1. CallsAsked' = CallsAsked /\ CallsAnswered' = CallsAnswered
  BY DEF SameCalls, Alike, CallsAsked, CallsAnswered, At
<1> QED BY <1>1 DEF Contract!vars

LEMMA BeginRefines == ASSUME SlotInv, NEW h \in Handler, Begin(h) PROVE Contract!Ask(h)
<1>1. /\ call[h].pc = "idle" /\ call[h].answer = {} /\ call'[h].pc = "budget" /\ call'[h].answer = {}
      /\ \A g \in Handler \ {h} : call'[g] = call[g]
  BY BeginOK
<1>2. /\ CallsAsked[h] = {} /\ CallsAsked'[h] # {}
      /\ \A g \in Handler \ {h} : CallsAsked'[g] = CallsAsked[g]
  BY <1>1 DEF CallsAsked, At
<1>3. CallsAnswered' = CallsAnswered /\ UNCHANGED access
  BY <1>1, ZenonT(60) DEF CallsAnswered, Begin
<1> QED BY <1>2, <1>3 DEF Contract!Ask

LEMMA CloseRefines == ASSUME SlotInv, NEW h \in Handler, Close(h) PROVE Contract!Close(h)
<1>1. /\ call[h].answer # {} /\ call'[h] = Idle /\ \A g \in Handler \ {h} : call'[g] = call[g]
  BY CloseOK
<1>2. Idle.pc = "idle" /\ Idle.answer = {}
  BY DEF Idle
<1>3. CallsAnswered[h] # {} /\ CallsAnswered' = [CallsAnswered EXCEPT ![h] = {}]
  BY <1>1, <1>2, ZenonT(60) DEF CallsAnswered
<1>4. CallsAsked' = [CallsAsked EXCEPT ![h] = {}]
  BY <1>1, <1>2, ZenonT(60) DEF CallsAsked, At
<1> QED BY <1>3, <1>4 DEF Contract!Close, Close

LEMMA StepRefines == ASSUME SlotInv, [Next]_vars PROVE [Contract!Next]_(Contract!vars)
<1>1. CASE \E h \in Handler : Begin(h) \/ HandlerStep(h) \/ EncodeReturns(h) \/ Close(h) \/ DeadlinePasses(h)
                              \/ ClientCancels(h)
  <2>1. PICK h \in Handler : Begin(h) \/ HandlerStep(h) \/ EncodeReturns(h) \/ Close(h) \/ DeadlinePasses(h)
                             \/ ClientCancels(h)
    BY <1>1
  <2>2. CASE Begin(h)
    BY <2>2, BeginRefines DEF Contract!Next
  <2>3. CASE HandlerStep(h)
    BY <2>3, HandlerStepOK, SilentRefines, SpeaksRefines DEF Contract!Next
  <2>4. CASE EncodeReturns(h) \/ DeadlinePasses(h) \/ ClientCancels(h)
    BY <2>4, EncodeStepOK, EndsOK, SilentRefines DEF DeadlinePasses, ClientCancels
  <2>5. CASE Close(h)
    BY <2>5, CloseRefines DEF Contract!Next
  <2> QED BY <2>1, <2>2, <2>3, <2>4, <2>5
<1>2. CASE OrphanAcquires \/ OrphanReturns \/ Ingest \/ ReportStats \/ Forget \/ policyHandler \/ Tick
  BY <1>2, OrphansOK, IngestOK, QuietOK, ForgetOK, policyHandlerOK, SameRefines
<1>3. CASE UNCHANGED vars
  BY <1>3, StutterOK, SameRefines
<1> QED BY <1>1, <1>2, <1>3 DEF Next

(* The handler refines the contract: whatever the interleaving, a call is  *)
(* answered once, hints name replicas and misses none, an affinity hint    *)
(* names one, a text-only request is hinted only with its tokens echoed,   *)
(* and the access counts move with the answer, by one for each entry       *)
(* behind it (LookupRoute, creditHits).  That every call is answered needs *)
(* fairness and stays with the model checker.                              *)
THEOREM ContractTheorem == Spec => Contract!Init /\ [][Contract!Next]_(Contract!vars)
<1>1. Init => SlotInv /\ Contract!Init
  <2>1. Init => CallsAsked = [h \in Handler |-> {}] /\ CallsAnswered = [h \in Handler |-> {}]
    <3>1. Init => call = [h \in Handler |-> Idle]
      BY ZenonT(60) DEF Init
    <3>2. Idle.pc = "idle" /\ Idle.answer = {}
      BY ZenonT(60) DEF Idle
    <3> QED BY <3>1, <3>2, ZenonT(60) DEF CallsAsked, CallsAnswered, At
  <2> QED BY <2>1, InitOK, ZenonT(60) DEF Init, Contract!Init
<1>2. SlotInv /\ [Next]_vars => SlotInv'
  BY SlotStep
<1>3. SlotInv /\ [Next]_vars => [Contract!Next]_(Contract!vars)
  BY StepRefines
<1> QED BY <1>1, <1>2, <1>3, PTL DEF Spec
=============================================================================
