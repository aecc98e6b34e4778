------------------------ MODULE PolicyServiceProofs ------------------------
(***************************************************************************)
(* Proofs about PolicyService, for every number of instances, callers,     *)
(* keys and policies, and batches of any length.                           *)
(***************************************************************************)
EXTENDS PolicyService, WellFoundedInduction, TLAPS

-----------------------------------------------------------------------------
(***************************************************************************)
(* Merging a batch one entry at a time is merging it at once.              *)
(***************************************************************************)
LEMMA LastIs ==
  ASSUME NEW S \in SUBSET Nat, NEW j \in S, \A x \in S : x <= j
  PROVE  M!Last(S) = j
<1> DEFINE P(i) == i \in S /\ \A x \in S : x <= i
<1>1. P(CHOOSE i : P(i))
  <2>1. P(j)
    OBVIOUS
  <2> HIDE DEF P
  <2> QED
    BY <2>1
<1>2. M!Last(S) = CHOOSE i : P(i)
  BY DEF M!Last
<1>3. \A i \in S : (\A x \in S : x <= i) => i = j
  OBVIOUS
<1> QED
  BY <1>1, <1>2, <1>3

\* A set of positions that is not empty has a last one.
LEMMA LastExists ==
  ASSUME NEW n \in Nat, NEW S \in SUBSET (1 .. n), S # {} PROVE M!Last(S) \in S
<1> DEFINE T == {n - j : j \in S}
           R == {p \in Nat \X Nat : p[1] < p[2]}
<1>1. T \subseteq Nat /\ T # {}
  <2>1. \A j \in S : j \in 1 .. n /\ n - j \in Nat
    OBVIOUS
  <2> QED
    BY <2>1
<1>2. IsWellFoundedOn(R, Nat)
  BY NatLessThanWellFounded DEF OpToRel
<1>3. PICK x \in T : \A y \in T : ~(<<y, x>> \in R)
  <2> HIDE DEF T, R
  <2> QED
    BY <1>1, <1>2, WFMin
<1>4. \A y \in T : ~(y < x)
  <2> HIDE DEF T
  <2> QED
    BY <1>1, <1>3
<1>5. PICK j \in S : x = n - j
  OBVIOUS
<1>6. \A i \in S : i <= j
  <2> SUFFICES ASSUME NEW i \in S PROVE i <= j
    OBVIOUS
  <2>1. n - i \in T
    OBVIOUS
  <2>2. ~(n - i < n - j)
    BY <1>4, <1>5, <2>1
  <2>3. i \in 1 .. n /\ j \in 1 .. n
    OBVIOUS
  <2> QED
    BY <2>2, <2>3
<1>7. S \in SUBSET Nat
  OBVIOUS
<1> QED
  BY <1>6, <1>7, LastIs

LEMMA MergedNothing ==
  ASSUME NEW map \in Caches, NEW es PROVE M!Merged(map, es, 0) = map
<1>1. \A k \in Keys : M!Setters(es, 0, k) = {}
  BY DEF M!Setters
<1> QED
  BY <1>1 DEF M!Merged, Caches

LEMMA MergedNext ==
  ASSUME NEW map \in Caches, NEW es \in Seq(Entries), NEW n \in Nat, n < Len(es)
  PROVE  M!Merged(map, es, n + 1) = Put(M!Merged(map, es, n), es[n + 1])
<1> DEFINE e == es[n + 1]
           S(k) == M!Setters(es, n, k)
           T(k) == M!Setters(es, n + 1, k)
<1>1. e \in Entries /\ e.slot \in Slots /\ e.slot.key \in Keys
  <2>1. n + 1 \in 1 .. Len(es)
    OBVIOUS
  <2>2. e \in Entries
    BY <2>1
  <2> HIDE DEF e
  <2> QED
    BY <2>2, PolicySlots DEF Entries
<1>2. ASSUME NEW k \in Keys, M!Kept(e), e.slot.key = k
      PROVE  T(k) # {} /\ M!Last(T(k)) = n + 1
  <2>1. n + 1 \in T(k) /\ T(k) \in SUBSET Nat /\ \A x \in T(k) : x <= n + 1
    BY <1>2 DEF M!Setters
  <2> HIDE DEF T
  <2> QED
    BY <2>1, LastIs
<1>3. ASSUME NEW k \in Keys, ~(M!Kept(e) /\ e.slot.key = k)
      PROVE  T(k) = S(k)
  <2>1. \A j \in 1 .. n + 1 : j \in 1 .. n \/ j = n + 1
    OBVIOUS
  <2>2. 1 .. n \subseteq 1 .. n + 1
    OBVIOUS
  <2> QED
    BY <1>3, <2>1, <2>2 DEF M!Setters
<1>4. M!Merged(map, es, n) = [k \in Keys |-> IF S(k) = {} THEN map[k] ELSE es[M!Last(S(k))].permissions]
  BY DEF M!Merged
<1>5. M!Merged(map, es, n + 1)
        = [k \in Keys |-> IF T(k) = {} THEN map[k] ELSE es[M!Last(T(k))].permissions]
  BY DEF M!Merged
<1> HIDE DEF S, T
<1>6. CASE M!Kept(e)
  <2>1. \A k \in Keys : M!Merged(map, es, n + 1)[k]
                          = IF k = e.slot.key THEN e.permissions ELSE M!Merged(map, es, n)[k]
    BY <1>2, <1>3, <1>4, <1>5, <1>6
  <2> HIDE DEF e
  <2> QED
    BY <1>1, <1>4, <1>5, <1>6, <2>1 DEF Put, e
<1>7. CASE ~M!Kept(e)
  <2>1. \A k \in Keys : T(k) = S(k)
    BY <1>3, <1>7
  <2> QED
    BY <1>4, <1>5, <1>7, <2>1 DEF Put
<1> QED
  BY <1>6, <1>7

\* SetPolicy is a batch of one.
LEMMA MergedOne ==
  ASSUME NEW map \in Caches, NEW es \in Seq(Entries), Len(es) = 1, M!Kept(es[1])
  PROVE  M!Merged(map, es, 1) = [map EXCEPT ![es[1].slot.key] = es[1].permissions]
<1>1. M!Merged(map, es, 0 + 1) = Put(M!Merged(map, es, 0), es[0 + 1])
  BY MergedNext
<1>2. 0 + 1 = 1
  OBVIOUS
<1> QED
  BY <1>1, <1>2, MergedNothing DEF Put

-----------------------------------------------------------------------------
(***************************************************************************)
(* The invariant.                                                          *)
(***************************************************************************)
LEMMA PolicyInit == Init => PolicyInv
<1> SUFFICES ASSUME Init PROVE PolicyInv
  OBVIOUS
<1>1. M!Empty \in Caches /\ \A k \in Keys : M!Empty[k] = NULL
  BY DEF M!Empty, Caches
<1>2. Idle(NULL) \in Calls /\ Idle(NULL).pc = "idle" /\ Idle(NULL).op = "none"
  BY DEF Idle, Calls
<1>3. \A c \in Callers : call[c] = Idle(NULL)
  BY DEF Init
<1>4. \A i \in Instances : cache[i] = M!Empty
  BY DEF Init
<1>5. TypeOK
  BY <1>1, <1>2 DEF Init, TypeOK
<1>6. CallsInOrder
  BY <1>2, <1>3 DEF CallsInOrder
<1>7. SyncsRunAlone /\ MergesInProgress
  BY <1>2, <1>3 DEF SyncsRunAlone, MergesInProgress, Runs
<1>8. RequestsWereHeld
  BY <1>2, <1>3 DEF RequestsWereHeld, Asked, Init
<1>9. OnlyWhatJennHeld
  BY <1>1, <1>4 DEF OnlyWhatJennHeld
<1> QED
  BY <1>5, <1>6, <1>7, <1>8, <1>9 DEF PolicyInv

LEMMA FaultsTyped == TypeOK /\ (UNCHANGED faults \/ Fault) => faults' \in Nat
  BY DEF TypeOK, Fault

LEMMA SingleEntry ==
  ASSUME NEW e PROVE DOMAIN <<e>> = {1} /\ <<e>>[1] = e
  OBVIOUS

\* Jenn changes, forgets or resends a policy, or a request gets lost.
LEMMA JennStep ==
  ASSUME PolicyInv, UNCHANGED <<cache, call>>,
         edits' \in Nat, faults' \in Nat,
         jenn' \in [Slots -> Permissions \cup {NULL}], held' \in [Slots -> SUBSET Permissions],
         net' \subseteq Requests,
         \A s \in Slots : held[s] \subseteq held'[s] /\ (jenn'[s] # NULL => jenn'[s] \in held'[s]),
         \A m \in net' : m \in net \/ \A j \in DOMAIN m.entries :
             m.entries[j].permissions \in held'[m.entries[j].slot]
  PROVE  PolicyInv'
<1>1. TypeOK'
  BY DEF PolicyInv, TypeOK
<1>2. CallsInOrder' /\ SyncsRunAlone' /\ MergesInProgress'
  BY DEF PolicyInv, CallsInOrder, SyncsRunAlone, MergesInProgress, Runs
<1>3. ASSUME NEW es \in Seq(Entries), HeldOnce(es) PROVE HeldOnce(es)'
  <2>1. \A j \in DOMAIN es : es[j] \in Entries
    OBVIOUS
  <2>2. \A e \in Entries : e.slot \in Slots
    BY DEF Entries
  <2> QED
    BY <1>3, <2>1, <2>2 DEF HeldOnce
<1>4. \A m \in net : m.entries \in Seq(Entries) /\ HeldOnce(m.entries)
  BY PolicyBatch DEF PolicyInv, RequestsWereHeld, TypeOK, Requests
<1>5. \A c \in Callers : call[c].entries \in Seq(Entries) /\ (Asked(c) => HeldOnce(call[c].entries))
  BY DEF PolicyInv, RequestsWereHeld, TypeOK, Calls
<1>6. RequestsWereHeld'
  <2>1. ASSUME NEW m \in net' PROVE HeldOnce(m.entries)'
    <3>1. CASE m \in net
      BY <1>3, <1>4, <3>1
    <3>2. CASE m \notin net
      BY <3>2 DEF HeldOnce
    <3> QED
      BY <3>1, <3>2
  <2>2. ASSUME NEW c \in Callers, Asked(c) PROVE \A j \in DOMAIN call[c].entries :
          call[c].entries[j].permissions \in held'[call[c].entries[j].slot]
    BY <1>3, <1>5, <2>2 DEF HeldOnce
  <2> QED
    BY <2>1, <2>2 DEF RequestsWereHeld, HeldOnce, Asked
<1>7. OnlyWhatJennHeld'
  BY DEF PolicyInv, OnlyWhatJennHeld
<1> QED
  BY <1>1, <1>2, <1>6, <1>7 DEF PolicyInv

LEMMA ChangeStep ==
  ASSUME PolicyInv, NEW s \in Slots, NEW p \in Permissions, Change(s, p) PROVE PolicyInv'
<1> DEFINE e == [slot |-> s, permissions |-> p]
<1>1. /\ jenn' = [jenn EXCEPT ![s] = p] /\ held' = [held EXCEPT ![s] = @ \cup {p}]
      /\ <<e>> \in Batches
      /\ net' = net \cup { [to |-> i, entries |-> <<e>>] : i \in Instances }
      /\ edits' = edits + 1 /\ UNCHANGED <<cache, call, faults>>
  BY DEF Change
<1>2. TypeOK /\ edits' \in Nat /\ faults' \in Nat
  BY <1>1 DEF PolicyInv, TypeOK
<1>3. /\ jenn' \in [Slots -> Permissions \cup {NULL}] /\ held' \in [Slots -> SUBSET Permissions]
      /\ \A t \in Slots : held[t] \subseteq held'[t] /\ (jenn'[t] # NULL => jenn'[t] \in held'[t])
  BY <1>1, <1>2 DEF TypeOK, PolicyInv, RequestsWereHeld
<1>4. p \in held'[s]
  BY <1>1, <1>2 DEF TypeOK
<1>5. net' \subseteq Requests
  <2> HIDE DEF e
  <2> QED
    BY <1>1, <1>2 DEF TypeOK, Requests
<1>6. ASSUME NEW m \in net', m \notin net
      PROVE  \A j \in DOMAIN m.entries : m.entries[j].permissions \in held'[m.entries[j].slot]
  <2>1. m.entries = <<e>>
    <3> HIDE DEF e
    <3> QED
      BY <1>1, <1>6
  <2>2. e.slot = s /\ e.permissions = p
    OBVIOUS
  <2> HIDE DEF e
  <2> QED
    BY <1>4, <2>1, <2>2, SingleEntry
<1> QED
  BY <1>1, <1>2, <1>3, <1>5, <1>6, JennStep

LEMMA DeleteStep == ASSUME PolicyInv, NEW s \in Slots, Delete(s) PROVE PolicyInv'
<1>1. /\ jenn' = [jenn EXCEPT ![s] = NULL] /\ edits' = edits + 1
      /\ UNCHANGED <<held, net, cache, call, faults>>
  BY DEF Delete
<1>2. TypeOK /\ edits' \in Nat /\ faults' \in Nat
  BY <1>1 DEF PolicyInv, TypeOK
<1>3. /\ jenn' \in [Slots -> Permissions \cup {NULL}] /\ held' \in [Slots -> SUBSET Permissions]
      /\ \A t \in Slots : held[t] \subseteq held'[t] /\ (jenn'[t] # NULL => jenn'[t] \in held'[t])
  BY <1>1, <1>2 DEF TypeOK, PolicyInv, RequestsWereHeld
<1> QED
  BY <1>1, <1>2, <1>3, JennStep DEF TypeOK

LEMMA FullSyncStep == ASSUME PolicyInv, NEW i \in Instances, FullSync(i) PROVE PolicyInv'
<1>1. UNCHANGED <<jenn, held, cache, call, edits, faults>>
  BY DEF FullSync
<1>2. PICK es \in Batches : Lists(es) /\ net' = net \cup {[to |-> i, entries |-> es]}
  BY DEF FullSync
<1>3. TypeOK /\ edits' \in Nat /\ faults' \in Nat
  BY <1>1 DEF PolicyInv, TypeOK
<1>4. \A s \in Slots : jenn[s] # NULL => jenn[s] \in held[s]
  BY DEF PolicyInv, RequestsWereHeld
<1>5. \A j \in DOMAIN es : es[j].permissions \in held[es[j].slot]
  <2> SUFFICES ASSUME NEW j \in DOMAIN es PROVE es[j].permissions \in held[es[j].slot]
    OBVIOUS
  <2>1. PICK s \in Slots : jenn[s] # NULL /\ es[j] = [slot |-> s, permissions |-> jenn[s]]
    BY <1>2 DEF Lists
  <2> QED
    BY <1>4, <2>1
<1>6. net' \subseteq Requests
  BY <1>2, <1>3 DEF TypeOK, Requests
<1> QED
  BY <1>1, <1>2, <1>3, <1>4, <1>5, <1>6, JennStep DEF TypeOK

LEMMA LoseStep == ASSUME PolicyInv, NEW m \in net, Lose(m) PROVE PolicyInv'
<1>1. net' = net \ {m} /\ UNCHANGED <<jenn, held, cache, call, edits>>
  BY DEF Lose
<1>2. TypeOK /\ edits' \in Nat /\ faults' \in Nat
  BY <1>1, FaultsTyped DEF Lose, PolicyInv, TypeOK
<1>3. \A s \in Slots : jenn[s] # NULL => jenn[s] \in held[s]
  BY DEF PolicyInv, RequestsWereHeld
<1> QED
  BY <1>1, <1>2, <1>3, JennStep DEF TypeOK

-----------------------------------------------------------------------------
(***************************************************************************)
(* The steps of callers.                                                   *)
(***************************************************************************)
LEMMA IdleCall ==
  ASSUME NEW a \in BOOLEAN \cup {NULL}
  PROVE  /\ Idle(a) \in Calls
         /\ Idle(a).pc = "idle" /\ Idle(a).op = "none" /\ Idle(a).answer = a
  BY DEF Idle, Calls

\* One caller moves; the cache of its process changes only if it runs and is
\* not a check.
LEMMA CallerStep ==
  ASSUME PolicyInv, NEW c \in Callers, NEW new \in Calls,
         call' = [call EXCEPT ![c] = new], UNCHANGED <<jenn, held>>,
         net' \subseteq net, edits' \in Nat, faults' \in Nat,
         cache' \in [Instances -> Caches],
         \A i \in Instances : \/ cache'[i] = cache[i]
                              \/ i = Home[c] /\ call[c].pc = "run" /\ call[c].op # "check",
         new.pc = "idle" <=> new.op = "none",
         new.op \in {"sync", "set"} =>
            /\ new.entries \in Batches
            /\ \A j \in DOMAIN new.entries : new.entries[j].permissions \in held[new.entries[j].slot],
         new.op = "set" => Len(new.entries) = 1 /\ M!Kept(new.entries[1]),
         new.op = "check" => new.key \in Keys,
         new.pc = "lock" => new.done = 0,
         new.pc = "run" => \A d \in Callers \ {c} :
            Home[d] = Home[c] /\ call[d].pc = "run" => new.op = "check" /\ call[d].op = "check",
         new.pc = "run" /\ new.op = "sync" =>
            /\ new.before \in Caches /\ new.done <= Len(new.entries)
            /\ cache'[Home[c]] = M!Merged(new.before, new.entries, new.done),
         OnlyWhatJennHeld'
  PROVE  PolicyInv'
<1>1. TypeOK /\ call \in [Callers -> Calls]
  BY DEF PolicyInv, TypeOK
<1>2. TypeOK'
  BY <1>1 DEF TypeOK
<1>3. call'[c] = new /\ \A d \in Callers \ {c} : call'[d] = call[d]
  BY <1>1
<1>4. CallsInOrder'
  <2> SUFFICES ASSUME NEW d \in Callers
               PROVE  /\ call'[d].pc = "idle" <=> call'[d].op = "none"
                      /\ call'[d].op \in {"sync", "set"} => call'[d].entries \in Batches
                      /\ call'[d].op = "set" =>
                            Len(call'[d].entries) = 1 /\ M!Kept(call'[d].entries[1])
                      /\ call'[d].op = "check" => call'[d].key \in Keys
                      /\ call'[d].pc = "lock" => call'[d].done = 0
    BY DEF CallsInOrder, M!Kept
  <2>1. CASE d = c
    BY <1>3, <2>1
  <2>2. CASE d # c
    <3>1. call'[d] = call[d]
      BY <1>3, <2>2
    <3> QED
      BY <3>1 DEF PolicyInv, CallsInOrder
  <2> QED
    BY <2>1, <2>2
<1>5. SyncsRunAlone'
  <2> SUFFICES ASSUME NEW d \in Callers, NEW x \in Callers, d # x, Home[d] = Home[x],
                      call'[d].pc = "run", call'[x].pc = "run"
               PROVE  call'[d].op = "check" /\ call'[x].op = "check"
    BY DEF SyncsRunAlone
  <2>1. CASE d = c
    BY <1>3, <2>1
  <2>2. CASE x = c
    BY <1>3, <2>2
  <2>3. CASE d # c /\ x # c
    BY <1>3, <2>3 DEF PolicyInv, SyncsRunAlone
  <2> QED
    BY <2>1, <2>2, <2>3
<1>6. MergesInProgress'
  <2> SUFFICES ASSUME NEW d \in Callers, call'[d].pc = "run", call'[d].op = "sync"
               PROVE  /\ call'[d].before \in Caches /\ call'[d].done <= Len(call'[d].entries)
                      /\ cache'[Home[d]] = M!Merged(call'[d].before, call'[d].entries, call'[d].done)
    BY Zenon DEF MergesInProgress, Runs
  <2>1. CASE d = c
    BY <1>3, <2>1
  <2>2. CASE d # c
    <3>1. call'[d] = call[d] /\ Home[d] \in Instances
      BY <1>3, <2>2, PolicyHome
    <3>2. Runs(d, "sync")
      BY <3>1 DEF Runs
    <3>3. Home[d] = Home[c] => call[c].pc # "run"
      BY <2>2, <3>2 DEF PolicyInv, SyncsRunAlone, Runs
    <3>4. cache'[Home[d]] = cache[Home[d]]
      BY <3>1, <3>3
    <3> QED
      BY <3>1, <3>2, <3>4 DEF PolicyInv, MergesInProgress
  <2> QED
    BY <2>1, <2>2, Zenon
<1>7. RequestsWereHeld'
  <2>1. ASSUME NEW d \in Callers, call'[d].op \in {"sync", "set"}
        PROVE  \A j \in DOMAIN call'[d].entries :
                  call'[d].entries[j].permissions \in held[call'[d].entries[j].slot]
    <3>1. CASE d = c
      BY <1>3, <2>1, <3>1
    <3>2. CASE d # c
      <4>1. call'[d] = call[d]
        BY <1>3, <3>2
      <4> QED
        BY <2>1, <4>1 DEF PolicyInv, RequestsWereHeld, HeldOnce, Asked
    <3> QED
      BY <3>1, <3>2
  <2>2. \A m \in net' : \A j \in DOMAIN m.entries : m.entries[j].permissions \in held[m.entries[j].slot]
    BY DEF PolicyInv, RequestsWereHeld, HeldOnce
  <2>3. \A s \in Slots : jenn[s] # NULL => jenn[s] \in held[s]
    BY DEF PolicyInv, RequestsWereHeld
  <2> QED
    BY <2>1, <2>2, <2>3 DEF RequestsWereHeld, HeldOnce, Asked
<1> QED
  BY <1>2, <1>4, <1>5, <1>6, <1>7 DEF PolicyInv

LEMMA DeliverStep ==
  ASSUME PolicyInv, NEW m \in net, NEW c \in Callers, Deliver(m, c) PROVE PolicyInv'
<1>1. PICK op \in {"sync", "set"} :
         /\ op = "set" => Len(m.entries) = 1 /\ M!Kept(m.entries[1])
         /\ call' = [call EXCEPT ![c] = [Idle(@.answer) EXCEPT
                         !.pc = "lock", !.op = op, !.entries = m.entries]]
  BY DEF Deliver
<1> DEFINE new == [Idle(call[c].answer) EXCEPT !.pc = "lock", !.op = op, !.entries = m.entries]
<1>2. UNCHANGED <<jenn, held, cache, edits>> /\ net' \subseteq net /\ (UNCHANGED faults \/ Fault)
  BY DEF Deliver
<1>3. TypeOK /\ call[c].answer \in BOOLEAN \cup {NULL}
  BY DEF PolicyInv, TypeOK, Calls
<1>4. m.entries \in Batches /\ m.entries \in Seq(Entries)
      /\ \A j \in DOMAIN m.entries : m.entries[j].permissions \in held[m.entries[j].slot]
  BY <1>3, PolicyBatch DEF PolicyInv, TypeOK, Requests, RequestsWereHeld, HeldOnce
<1>5. new \in Calls /\ new.pc = "lock" /\ new.op = op /\ new.entries = m.entries /\ new.done = 0
  BY <1>3, <1>4 DEF Idle, Calls
<1>6. call' = [call EXCEPT ![c] = new]
  BY <1>1
<1>7. edits' \in Nat /\ faults' \in Nat /\ cache' \in [Instances -> Caches]
  BY <1>2, <1>3, FaultsTyped DEF TypeOK
<1>8. OnlyWhatJennHeld'
  BY <1>2 DEF PolicyInv, OnlyWhatJennHeld
<1> HIDE DEF new
<1>9. /\ new.pc # "idle" /\ new.pc # "run" /\ new.op # "none" /\ new.op # "check"
      /\ new.entries \in Batches
      /\ \A j \in DOMAIN new.entries : new.entries[j].permissions \in held[new.entries[j].slot]
      /\ new.op = "set" => Len(new.entries) = 1 /\ M!Kept(new.entries[1])
  BY <1>1, <1>4, <1>5
<1>10. UNCHANGED <<jenn, held>> /\ net' \subseteq net /\ \A i \in Instances : cache'[i] = cache[i]
  BY <1>2
<1> QED
  BY <1>5, <1>6, <1>7, <1>8, <1>9, <1>10, CallerStep

LEMMA AskStep == ASSUME PolicyInv, NEW c \in Callers, Ask(c) PROVE PolicyInv'
<1>1. PICK k \in Keys : call' = [call EXCEPT ![c] = [Idle(@.answer) EXCEPT
                                    !.pc = "lock", !.op = "check", !.key = k]]
  BY DEF Ask
<1> DEFINE new == [Idle(call[c].answer) EXCEPT !.pc = "lock", !.op = "check", !.key = k]
<1>2. UNCHANGED <<jenn, held, net, cache, edits, faults>>
  BY DEF Ask
<1>3. TypeOK /\ call[c].answer \in BOOLEAN \cup {NULL}
  BY DEF PolicyInv, TypeOK, Calls
<1>4. new \in Calls /\ new.pc = "lock" /\ new.op = "check" /\ new.key = k /\ new.done = 0
  <2>1. Idle(call[c].answer) \in Calls /\ Idle(call[c].answer).done = 0
    BY <1>3, IdleCall DEF Idle
  <2> QED
    BY <2>1 DEF Calls
<1>5. call' = [call EXCEPT ![c] = new]
  BY <1>1
<1>6. edits' \in Nat /\ faults' \in Nat /\ cache' \in [Instances -> Caches]
  BY <1>2, <1>3 DEF TypeOK
<1>7. OnlyWhatJennHeld'
  BY <1>2 DEF PolicyInv, OnlyWhatJennHeld
<1> HIDE DEF new
<1> QED
  BY <1>2, <1>4, <1>5, <1>6, <1>7, CallerStep

LEMMA LockStep == ASSUME PolicyInv, NEW c \in Callers, Lock(c) PROVE PolicyInv'
<1> DEFINE before == IF call[c].op = "sync" THEN cache[Home[c]] ELSE NULL
           new == [call[c] EXCEPT !.pc = "run", !.before = before]
<1>1. /\ call[c].pc = "lock" /\ call' = [call EXCEPT ![c] = new]
      /\ UNCHANGED <<jenn, held, net, cache, edits, faults>>
  BY DEF Lock
<1>2. ASSUME NEW d \in Callers \ {c}, Home[d] = Home[c], call[d].pc = "run"
      PROVE  ~Exclusive(call[c].op) /\ ~Exclusive(call[d].op)
  BY <1>2 DEF Lock
<1>3. TypeOK /\ call[c] \in Calls /\ \A d \in Callers : call[d] \in Calls
  BY DEF PolicyInv, TypeOK
<1>4. call[c].op # "none" /\ call[c].done = 0 /\ \A d \in Callers : call[d].pc = "run" => call[d].op # "none"
  BY <1>1 DEF PolicyInv, CallsInOrder
<1>5. cache[Home[c]] \in Caches /\ before \in Caches \cup {NULL}
  BY <1>3, PolicyHome DEF TypeOK
<1>6. /\ new \in Calls /\ new.pc = "run" /\ new.op = call[c].op /\ new.entries = call[c].entries
      /\ new.key = call[c].key /\ new.done = 0 /\ new.before = before
  <2> HIDE DEF before
  <2> QED
    BY <1>3, <1>4, <1>5 DEF Calls
<1>7. /\ new.op \in {"sync", "set"} =>
            /\ new.entries \in Batches
            /\ \A j \in DOMAIN new.entries : new.entries[j].permissions \in held[new.entries[j].slot]
      /\ new.op = "set" => Len(new.entries) = 1 /\ M!Kept(new.entries[1])
      /\ new.op = "check" => new.key \in Keys
  <2> HIDE DEF new
  <2> QED
    BY <1>6 DEF PolicyInv, CallsInOrder, RequestsWereHeld, HeldOnce, Asked
<1>8. \A d \in Callers \ {c} :
         Home[d] = Home[c] /\ call[d].pc = "run" => new.op = "check" /\ call[d].op = "check"
  <2> HIDE DEF new
  <2> QED
    BY <1>2, <1>3, <1>4, <1>6 DEF Exclusive, Calls
<1>9. new.op = "sync" =>
         /\ new.before \in Caches /\ new.done <= Len(new.entries)
         /\ cache'[Home[c]] = M!Merged(new.before, new.entries, new.done)
  <2> SUFFICES ASSUME new.op = "sync"
               PROVE  /\ new.before \in Caches /\ new.done <= Len(new.entries)
                      /\ cache'[Home[c]] = M!Merged(new.before, new.entries, new.done)
    OBVIOUS
  <2>1. new.before = cache[Home[c]] /\ new.before \in Caches /\ cache' = cache
    <3> HIDE DEF new
    <3> QED
      BY <1>1, <1>5, <1>6
  <2>2. M!Merged(new.before, new.entries, 0) = new.before
    BY <2>1, MergedNothing
  <2>3. new.entries \in Seq(Entries)
    BY <1>3, <1>6 DEF Calls
  <2> HIDE DEF new
  <2> QED
    BY <1>6, <2>1, <2>2, <2>3
<1>10. edits' \in Nat /\ faults' \in Nat /\ cache' \in [Instances -> Caches]
  BY <1>1, <1>3 DEF TypeOK
<1>11. OnlyWhatJennHeld'
  BY <1>1 DEF PolicyInv, OnlyWhatJennHeld
<1> HIDE DEF new
<1> QED
  BY <1>1, <1>4, <1>6, <1>7, <1>8, <1>9, <1>10, <1>11, CallerStep

LEMMA PutTyped ==
  ASSUME NEW map \in Caches, NEW e \in Entries
  PROVE  /\ Put(map, e) \in Caches
         /\ \A k \in Keys : \/ Put(map, e)[k] = map[k]
                            \/ M!Kept(e) /\ e.slot.key = k /\ Put(map, e)[k] = e.permissions
<1>1. e.permissions \in Permissions /\ e.slot \in Slots
  BY DEF Entries
<1> QED
  BY <1>1 DEF Put, Caches

\* An entry that Jenn sent may be put into the cache.
LEMMA PutWasHeld ==
  ASSUME PolicyInv, NEW i \in Instances, NEW e \in Entries, e.permissions \in held[e.slot],
         cache' = [cache EXCEPT ![i] = Put(@, e)], UNCHANGED held
  PROVE  /\ cache' \in [Instances -> Caches]
         /\ OnlyWhatJennHeld'
<1>1. cache \in [Instances -> Caches]
  BY DEF PolicyInv, TypeOK
<1>2. e.slot \in Slots
  BY DEF Entries
<1>3. cache[i] \in Caches /\ Put(cache[i], e) \in Caches
  BY <1>1, PutTyped
<1>4. cache'[i] = Put(cache[i], e) /\ \A j \in Instances \ {i} : cache'[j] = cache[j]
  BY <1>1
<1>5. cache' \in [Instances -> Caches]
  BY <1>1, <1>3
<1>6. ASSUME NEW j \in Instances, NEW k \in Keys, cache'[j][k] # NULL
      PROVE  \E s \in Slots : /\ s.principalType = "user" /\ s.targetType = "device"
                              /\ s.key = k /\ cache'[j][k] \in held[s]
  <2>1. CASE cache'[j][k] = cache[j][k]
    BY <1>6, <2>1 DEF PolicyInv, OnlyWhatJennHeld
  <2>2. CASE cache'[j][k] # cache[j][k]
    <3>1. j = i
      BY <1>4, <2>2
    <3>2. cache'[j][k] = e.permissions /\ M!Kept(e) /\ e.slot.key = k
      BY <1>3, <1>4, <2>2, <3>1, PutTyped
    <3> QED
      BY <1>2, <3>2 DEF M!Kept
  <2> QED
    BY <2>1, <2>2
<1> QED
  BY <1>5, <1>6 DEF OnlyWhatJennHeld

LEMMA SyncPolicyStep == ASSUME PolicyInv, NEW c \in Callers, SyncPolicy(c) PROVE PolicyInv'
<1> DEFINE n == call[c].done
           es == call[c].entries
           e == es[n + 1]
           new == [call[c] EXCEPT !.done = n + 1]
<1>1. /\ call[c].pc = "run" /\ call[c].op = "sync" /\ n < Len(es)
      /\ cache' = [cache EXCEPT ![Home[c]] = Put(@, e)]
      /\ call' = [call EXCEPT ![c] = new]
      /\ UNCHANGED <<jenn, held, net, edits, faults>>
  BY DEF SyncPolicy, Runs
<1>2. TypeOK /\ call[c] \in Calls /\ n \in Nat /\ es \in Seq(Entries) /\ Home[c] \in Instances
  BY PolicyHome DEF PolicyInv, TypeOK, Calls
<1>3. n + 1 \in 1 .. Len(es)
  BY <1>1, <1>2
<1>4. e \in Entries
  BY <1>2, <1>3
<1>5. es \in Batches /\ \A j \in DOMAIN es : es[j].permissions \in held[es[j].slot]
  BY <1>1 DEF PolicyInv, CallsInOrder, RequestsWereHeld, HeldOnce, Asked
<1>6. e.permissions \in held[e.slot]
  BY <1>2, <1>3, <1>5
<1>7. cache' \in [Instances -> Caches] /\ OnlyWhatJennHeld'
  BY <1>1, <1>2, <1>4, <1>6, PutWasHeld
<1>8. /\ new \in Calls /\ new.pc = "run" /\ new.op = "sync" /\ new.entries = es
      /\ new.before = call[c].before /\ new.done = n + 1
  BY <1>1, <1>2 DEF Calls
<1>9. call[c].before \in Caches /\ cache[Home[c]] = M!Merged(call[c].before, es, n)
  BY <1>1 DEF PolicyInv, MergesInProgress, Runs
<1>10. cache'[Home[c]] = M!Merged(call[c].before, es, n + 1)
  <2>1. M!Merged(call[c].before, es, n + 1) = Put(M!Merged(call[c].before, es, n), e)
    BY <1>1, <1>2, <1>9, MergedNext
  <2>2. cache'[Home[c]] = Put(cache[Home[c]], e)
    <3> HIDE DEF e
    <3> QED
      BY <1>1, <1>2 DEF TypeOK
  <2> QED
    BY <1>9, <2>1, <2>2
<1>11. \A d \in Callers \ {c} :
          Home[d] = Home[c] /\ call[d].pc = "run" => new.op = "check" /\ call[d].op = "check"
  BY <1>1 DEF PolicyInv, SyncsRunAlone
<1>12. n + 1 <= Len(es)
  BY <1>3
<1>13. \A i \in Instances : cache'[i] = cache[i] \/ (i = Home[c] /\ call[c].pc = "run" /\ call[c].op # "check")
  <2> HIDE DEF e
  <2> QED
    BY <1>1, <1>2 DEF TypeOK
<1>14. edits' \in Nat /\ faults' \in Nat
  BY <1>1, <1>2 DEF TypeOK
<1> HIDE DEF new, e
<1> QED
  BY <1>1, <1>5, <1>7, <1>8, <1>9, <1>10, <1>11, <1>12, <1>13, <1>14, CallerStep

\* A call that ends leaves nothing to check but the cache.
LEMMA EndStep ==
  ASSUME PolicyInv, NEW c \in Callers, NEW a \in BOOLEAN \cup {NULL},
         call' = [call EXCEPT ![c] = Idle(a)], UNCHANGED <<jenn, held, net, edits, faults>>,
         cache' \in [Instances -> Caches],
         \A i \in Instances : \/ cache'[i] = cache[i]
                              \/ i = Home[c] /\ call[c].pc = "run" /\ call[c].op # "check",
         OnlyWhatJennHeld'
  PROVE  PolicyInv'
<1>1. edits' \in Nat /\ faults' \in Nat
  BY DEF PolicyInv, TypeOK
<1>2. Idle(a) \in Calls /\ Idle(a).pc = "idle" /\ Idle(a).op = "none"
  BY IdleCall
<1> QED
  BY <1>1, <1>2, CallerStep

LEMMA SyncPoliciesStep == ASSUME PolicyInv, NEW c \in Callers, SyncPolicies(c) PROVE PolicyInv'
<1>1. call[c].answer \in BOOLEAN \cup {NULL} /\ cache \in [Instances -> Caches]
  BY DEF PolicyInv, TypeOK, Calls
<1>2. /\ call' = [call EXCEPT ![c] = Idle(call[c].answer)]
      /\ UNCHANGED <<jenn, held, net, cache, edits, faults>>
  BY DEF SyncPolicies
<1>3. OnlyWhatJennHeld'
  BY <1>2 DEF PolicyInv, OnlyWhatJennHeld
<1> QED
  BY <1>1, <1>2, <1>3, EndStep

LEMMA SetPolicyStep == ASSUME PolicyInv, NEW c \in Callers, SetPolicy(c) PROVE PolicyInv'
<1> DEFINE e == call[c].entries[1]
<1>1. /\ call[c].pc = "run" /\ call[c].op = "set"
      /\ cache' = [cache EXCEPT ![Home[c]] = [@ EXCEPT ![e.slot.key] = e.permissions]]
      /\ call' = [call EXCEPT ![c] = Idle(call[c].answer)]
      /\ UNCHANGED <<jenn, held, net, edits, faults>>
  BY DEF SetPolicy, Runs
<1>2. TypeOK /\ call[c].answer \in BOOLEAN \cup {NULL} /\ Home[c] \in Instances
      /\ call[c].entries \in Seq(Entries)
  BY PolicyHome DEF PolicyInv, TypeOK, Calls
<1>3. Len(call[c].entries) = 1 /\ M!Kept(e)
      /\ \A j \in DOMAIN call[c].entries :
            call[c].entries[j].permissions \in held[call[c].entries[j].slot]
  BY <1>1 DEF PolicyInv, CallsInOrder, RequestsWereHeld, HeldOnce, Asked
<1>4. 1 \in DOMAIN call[c].entries
  BY <1>2, <1>3
<1>5. e \in Entries /\ e.permissions \in held[e.slot]
  BY <1>2, <1>3, <1>4
<1> HIDE DEF e
<1>6. cache' = [cache EXCEPT ![Home[c]] = Put(@, e)]
  BY <1>1, <1>3 DEF Put
<1>7. cache' \in [Instances -> Caches] /\ OnlyWhatJennHeld'
  BY <1>1, <1>2, <1>5, <1>6, PutWasHeld
<1>8. \A i \in Instances : cache'[i] = cache[i] \/ (i = Home[c] /\ call[c].pc = "run" /\ call[c].op # "check")
  BY <1>1, <1>2, <1>6 DEF TypeOK
<1> QED
  BY <1>1, <1>2, <1>7, <1>8, EndStep

LEMMA AllowsIsBoolean == ASSUME NEW p PROVE M!Allows(p) \in BOOLEAN
  BY Zenon DEF M!Allows

LEMMA CanAccessGUIStep == ASSUME PolicyInv, NEW c \in Callers, CanAccessGUI(c) PROVE PolicyInv'
<1> DEFINE a == M!Allows(cache[Home[c]][call[c].key])
<1>1. call' = [call EXCEPT ![c] = Idle(a)] /\ UNCHANGED <<jenn, held, net, cache, edits, faults>>
  BY DEF CanAccessGUI
<1>2. a \in BOOLEAN \cup {NULL}
  BY AllowsIsBoolean
<1>3. cache' \in [Instances -> Caches]
  BY <1>1 DEF PolicyInv, TypeOK
<1>4. OnlyWhatJennHeld'
  BY <1>1 DEF PolicyInv, OnlyWhatJennHeld
<1> HIDE DEF a
<1> QED
  BY <1>1, <1>2, <1>3, <1>4, EndStep

LEMMA NewPolicyServiceStep ==
  ASSUME PolicyInv, NEW i \in Instances, NewPolicyService(i) PROVE PolicyInv'
<1>1. /\ cache' = [cache EXCEPT ![i] = M!Empty]
      /\ call' = [c \in Callers |-> IF Home[c] = i THEN Idle(NULL) ELSE call[c]]
      /\ UNCHANGED <<jenn, held, net, edits>>
  BY DEF NewPolicyService
<1>2. TypeOK /\ faults' \in Nat
  BY FaultsTyped DEF NewPolicyService, PolicyInv, TypeOK
<1>3. M!Empty \in Caches /\ \A k \in Keys : M!Empty[k] = NULL
  BY DEF M!Empty, Caches
<1>4. Idle(NULL) \in Calls /\ Idle(NULL).pc = "idle" /\ Idle(NULL).op = "none"
  BY IdleCall
<1>5. \A c \in Callers : \/ call'[c] = Idle(NULL)
                         \/ call'[c] = call[c] /\ Home[c] # i /\ Home[c] \in Instances
  BY <1>1, PolicyHome
<1>6. cache'[i] = M!Empty /\ \A j \in Instances \ {i} : cache'[j] = cache[j]
  BY <1>1, <1>2 DEF TypeOK
<1>7. TypeOK'
  BY <1>1, <1>2, <1>3, <1>4 DEF TypeOK
<1>8. CallsInOrder'
  <2> SUFFICES ASSUME NEW c \in Callers
               PROVE  /\ call'[c].pc = "idle" <=> call'[c].op = "none"
                      /\ call'[c].op \in {"sync", "set"} => call'[c].entries \in Batches
                      /\ call'[c].op = "set" =>
                            Len(call'[c].entries) = 1 /\ M!Kept(call'[c].entries[1])
                      /\ call'[c].op = "check" => call'[c].key \in Keys
                      /\ call'[c].pc = "lock" => call'[c].done = 0
    BY DEF CallsInOrder, M!Kept
  <2>1. CASE call'[c] = Idle(NULL)
    BY <1>4, <2>1
  <2>2. CASE call'[c] = call[c]
    BY <2>2 DEF PolicyInv, CallsInOrder
  <2> QED
    BY <1>5, <2>1, <2>2
<1>9. SyncsRunAlone'
  BY <1>4, <1>5 DEF PolicyInv, SyncsRunAlone
<1>10. MergesInProgress'
  <2> SUFFICES ASSUME NEW c \in Callers, call'[c].pc = "run", call'[c].op = "sync"
               PROVE  /\ call'[c].before \in Caches /\ call'[c].done <= Len(call'[c].entries)
                      /\ cache'[Home[c]] = M!Merged(call'[c].before, call'[c].entries, call'[c].done)
    BY Zenon DEF MergesInProgress, Runs
  <2>1. call'[c] = call[c] /\ Home[c] # i /\ Home[c] \in Instances
    BY <1>4, <1>5
  <2> QED
    <3>1. call[c].pc = "run" /\ call[c].op = "sync"
      BY <2>1
    <3>2. /\ call[c].before \in Caches /\ call[c].done <= Len(call[c].entries)
          /\ cache[Home[c]] = M!Merged(call[c].before, call[c].entries, call[c].done)
      BY <3>1 DEF PolicyInv, MergesInProgress, Runs
    <3>3. cache'[Home[c]] = cache[Home[c]]
      BY <1>6, <2>1
    <3> QED
      BY <2>1, <3>2, <3>3, Zenon
<1>11. RequestsWereHeld'
  <2>1. ASSUME NEW c \in Callers, call'[c].op \in {"sync", "set"}
        PROVE  \A j \in DOMAIN call'[c].entries :
                  call'[c].entries[j].permissions \in held[call'[c].entries[j].slot]
    <3>1. call'[c] = call[c]
      BY <1>4, <1>5, <2>1
    <3> QED
      BY <2>1, <3>1 DEF PolicyInv, RequestsWereHeld, HeldOnce, Asked
  <2> QED
    BY <1>1, <2>1 DEF PolicyInv, RequestsWereHeld, HeldOnce, Asked
<1>12. OnlyWhatJennHeld'
  BY <1>1, <1>3, <1>6 DEF PolicyInv, OnlyWhatJennHeld
<1> QED
  BY <1>7, <1>8, <1>9, <1>10, <1>11, <1>12 DEF PolicyInv

LEMMA PolicyNext == PolicyInv /\ [Next]_vars => PolicyInv'
<1> SUFFICES ASSUME PolicyInv, [Next]_vars PROVE PolicyInv'
  OBVIOUS
<1>1. CASE UNCHANGED vars
  <2>1. UNCHANGED <<cache, call, jenn, held, net, edits, faults>>
    BY <1>1 DEF vars
  <2> QED
    BY <2>1, JennStep DEF PolicyInv, TypeOK, RequestsWereHeld
<1>2. ASSUME NEW s \in Slots, Delete(s) PROVE PolicyInv'
  BY <1>2, DeleteStep
<1>3. ASSUME NEW s \in Slots, NEW p \in Permissions, Change(s, p) PROVE PolicyInv'
  BY <1>3, ChangeStep
<1>4. ASSUME NEW i \in Instances, FullSync(i) PROVE PolicyInv'
  BY <1>4, FullSyncStep
<1>5. ASSUME NEW i \in Instances, NewPolicyService(i) PROVE PolicyInv'
  BY <1>5, NewPolicyServiceStep
<1>6. ASSUME NEW m \in net, Lose(m) PROVE PolicyInv'
  BY <1>6, LoseStep
<1>7. ASSUME NEW m \in net, NEW c \in Callers, Deliver(m, c) PROVE PolicyInv'
  BY <1>7, DeliverStep
<1>8. ASSUME NEW c \in Callers, Ask(c) PROVE PolicyInv'
  BY <1>8, AskStep
<1>9. ASSUME NEW c \in Callers, Step(c) PROVE PolicyInv'
  BY <1>9, LockStep, SyncPolicyStep, SyncPoliciesStep, SetPolicyStep, CanAccessGUIStep DEF Step
<1> QED
  BY <1>1, <1>2, <1>3, <1>4, <1>5, <1>6, <1>7, <1>8, <1>9 DEF Next

\* The locks exclude each other as they should, a cache is at every moment a
\* prefix of a batch merged into the cache of before, and what is in it or on
\* its way was Jenn's at some time.
THEOREM PolicyInvariant == Spec => []PolicyInv
  BY PolicyInit, PolicyNext, PTL DEF Spec

\* No instance ever grants what Jenn did not hold for that user and device.
THEOREM GrantsWereHeld == Spec => []OnlyWhatJennHeld
<1>1. PolicyInv => OnlyWhatJennHeld
  BY DEF PolicyInv
<1> QED
  BY <1>1, PolicyInvariant, PTL

-----------------------------------------------------------------------------
(***************************************************************************)
(* Agreement with Jenn.                                                    *)
(***************************************************************************)
\* One user and one device have one slot.
LEMMA OneSlot ==
  ASSUME NEW s \in Slots, NEW t \in Slots,
         s.principalType = "user", s.targetType = "device",
         t.principalType = "user", t.targetType = "device", s.key = t.key
  PROVE  s = t
<1>1. s \in [principalType : STRING, targetType : STRING, key : Keys]
      /\ t \in [principalType : STRING, targetType : STRING, key : Keys]
  BY PolicySlots
<1> QED
  BY <1>1

\* A batch that lists what Jenn holds leaves the cache in agreement with it.
LEMMA ListsAgrees ==
  ASSUME TypeOK, NEW map \in Caches, NEW es \in Seq(Entries), Lists(es),
         NEW s \in Slots, s.principalType = "user", s.targetType = "device", jenn[s] # NULL
  PROVE  M!Merged(map, es, Len(es))[s.key] = jenn[s]
<1> DEFINE S == M!Setters(es, Len(es), s.key)
           e == es[M!Last(S)]
<1>1. s.key \in Keys /\ Len(es) \in Nat
  BY PolicySlots
<1>2. \A j \in 1 .. Len(es) :
         \E t \in Slots : es[j] = [slot |-> t, permissions |-> jenn[t]]
  <2>1. \A x \in { es[j] : j \in DOMAIN es } :
           \E t \in Slots : x = [slot |-> t, permissions |-> jenn[t]]
    BY DEF Lists
  <2>2. \A j \in 1 .. Len(es) : es[j] \in { es[k] : k \in DOMAIN es }
    OBVIOUS
  <2> QED
    BY <2>1, <2>2
<1>3. S # {}
  <2>1. [slot |-> s, permissions |-> jenn[s]] \in { es[j] : j \in DOMAIN es }
    BY DEF Lists
  <2>2. PICK j \in 1 .. Len(es) : es[j] = [slot |-> s, permissions |-> jenn[s]]
    BY <2>1
  <2> QED
    BY <2>2 DEF M!Setters, M!Kept
<1>4. M!Last(S) \in S
  <2>1. S \in SUBSET (1 .. Len(es))
    BY DEF M!Setters
  <2> HIDE DEF S
  <2> QED
    BY <1>1, <1>3, <2>1, LastExists
<1>5. M!Kept(e) /\ e.slot.key = s.key /\ M!Last(S) \in 1 .. Len(es)
  BY <1>4 DEF M!Setters
<1>6. PICK t \in Slots : e = [slot |-> t, permissions |-> jenn[t]]
  BY <1>2, <1>5
<1>7. t = s
  <2> HIDE DEF e
  <2> QED
    BY <1>5, <1>6, OneSlot DEF M!Kept
<1>8. e.permissions = jenn[s]
  BY <1>6, <1>7
<1> HIDE DEF e
<1>9. M!Merged(map, es, Len(es))[s.key] = e.permissions
  BY <1>1, <1>3 DEF M!Merged, e
<1> QED
  BY <1>8, <1>9

\* A full reconciliation leaves its instance in agreement with Jenn.
THEOREM ReconciliationRepairs == Spec => FullSyncRepairs
<1> DEFINE Repairs == \A c \in Callers :
              SyncPolicies(c) /\ Lists(call[c].entries) => Agrees(Home[c])'
<1>1. ASSUME PolicyInv, NEW c \in Callers, SyncPolicies(c), Lists(call[c].entries)
      PROVE  Agrees(Home[c])'
  <2>1. /\ Runs(c, "sync") /\ call[c].done = Len(call[c].entries)
        /\ UNCHANGED <<jenn, cache>>
    BY <1>1 DEF SyncPolicies
  <2>2. TypeOK /\ call[c].entries \in Seq(Entries)
    BY <1>1 DEF PolicyInv, TypeOK, Calls
  <2>3. /\ call[c].before \in Caches
        /\ cache[Home[c]] = M!Merged(call[c].before, call[c].entries, Len(call[c].entries))
    BY <1>1, <2>1 DEF PolicyInv, MergesInProgress
  <2> QED
    BY <1>1, <2>1, <2>2, <2>3, ListsAgrees DEF Agrees
<1>2. PolicyInv => Repairs
  BY <1>1
<1> QED
  BY <1>2, PolicyInvariant, PTL DEF Spec, FullSyncRepairs

\* An entry that is not out of date does not disturb an agreement.
LEMMA PutAgrees ==
  ASSUME PolicyInv, NEW i \in Instances, Agrees(i), NEW e \in Entries,
         M!Kept(e) => jenn[e.slot] \in {e.permissions, NULL},
         cache' = [cache EXCEPT ![i] = Put(@, e)], UNCHANGED jenn
  PROVE  Agrees(i)'
<1>1. cache[i] \in Caches /\ cache'[i] = Put(cache[i], e) /\ e.slot \in Slots
  BY DEF PolicyInv, TypeOK, Entries
<1> SUFFICES ASSUME NEW s \in Slots, s.principalType = "user", s.targetType = "device",
                    jenn[s] # NULL
             PROVE  cache'[i][s.key] = jenn[s]
  BY DEF Agrees
<1>2. s.key \in Keys /\ cache[i][s.key] = jenn[s]
  BY PolicySlots DEF Agrees
<1>3. CASE M!Kept(e) /\ e.slot.key = s.key
  <2>1. e.slot = s
    BY <1>1, <1>3, OneSlot DEF M!Kept
  <2> QED
    BY <1>1, <1>2, <1>3, <2>1, PutTyped
<1>4. CASE ~(M!Kept(e) /\ e.slot.key = s.key)
  BY <1>1, <1>2, <1>4, PutTyped
<1> QED
  BY <1>3, <1>4

\* What a step that leaves Jenn alone must respect.
LEMMA StaysInStep ==
  ASSUME NEW i \in Instances, InStep(i), UNCHANGED jenn, Agrees(i)',
         \A m \in net' : m \in net \/ (m.to = i => Current(m.entries)),
         \A c \in Callers : call'[c].op \in {"sync", "set"} /\ Home[c] = i =>
            \/ Asked(c) /\ call'[c].entries = call[c].entries
            \/ Current(call'[c].entries)
  PROVE  InStep(i)'
<1>1. \A m \in net' : m.to = i => Current(m.entries)
  BY DEF InStep
<1>2. \A c \in Callers : call'[c].op \in {"sync", "set"} /\ Home[c] = i => Current(call'[c].entries)
  BY DEF InStep
<1> QED
  BY <1>1, <1>2 DEF InStep, Asked, Current, M!Kept

\* The steps of Jenn and of the network.
LEMMA JennStaysInStep ==
  ASSUME PolicyInv, NEW i \in Instances, InStep(i), UNCHANGED <<cache, call>>,
         \/ \E s \in Slots : Delete(s)
         \/ \E j \in Instances : FullSync(j)
         \/ \E m \in net : Lose(m)
  PROVE  InStep(i)'
<1>1. ASSUME UNCHANGED jenn, \A m \in net' : m \in net \/ (m.to = i => Current(m.entries))
      PROVE  InStep(i)'
  <2>1. Agrees(i)'
    BY <1>1 DEF InStep, Agrees
  <2> QED
    BY <1>1, <2>1, StaysInStep DEF Asked
<1>2. ASSUME NEW s \in Slots, Delete(s) PROVE InStep(i)'
  <2>1. \A t \in Slots : jenn'[t] \in {jenn[t], NULL}
    BY <1>2 DEF Delete, PolicyInv, TypeOK
  <2>2. net' = net
    BY <1>2 DEF Delete
  <2>3. ASSUME NEW es \in Seq(Entries), Current(es) PROVE Current(es)'
    <3>1. \A j \in DOMAIN es : es[j] \in Entries
      OBVIOUS
    <3>2. \A j \in DOMAIN es : es[j].slot \in Slots
      BY <3>1 DEF Entries
    <3> QED
      BY <2>1, <2>3, <3>2 DEF Current, M!Kept
  <2>4. \A m \in net : m.entries \in Seq(Entries)
    BY PolicyBatch DEF PolicyInv, TypeOK, Requests
  <2>5. \A c \in Callers : call[c].entries \in Seq(Entries)
    BY DEF PolicyInv, TypeOK, Calls
  <2>6. Agrees(i)'
    BY <2>1 DEF InStep, Agrees
  <2>7. \A m \in net : m.to = i => Current(m.entries)'
    BY <2>2, <2>3, <2>4 DEF InStep
  <2>8. \A c \in Callers : Home[c] = i /\ Asked(c) => Current(call[c].entries)'
    BY <2>3, <2>5 DEF InStep
  <2> QED
    BY <2>2, <2>6, <2>7, <2>8 DEF InStep, Asked
<1>3. ASSUME NEW j \in Instances, FullSync(j) PROVE InStep(i)'
  <2>1. PICK es \in Batches : Lists(es) /\ net' = net \cup {[to |-> j, entries |-> es]}
    BY <1>3 DEF FullSync
  <2>2. Current(es)
    <3> SUFFICES ASSUME NEW n \in DOMAIN es PROVE jenn[es[n].slot] = es[n].permissions
      BY DEF Current
    <3>1. PICK s \in Slots : es[n] = [slot |-> s, permissions |-> jenn[s]]
      BY <2>1 DEF Lists
    <3> QED
      BY <3>1
  <2> QED
    BY <1>1, <1>3, <2>1, <2>2 DEF FullSync
<1>4. ASSUME NEW m \in net, Lose(m) PROVE InStep(i)'
  BY <1>1, <1>4 DEF Lose
<1> QED
  BY <1>2, <1>3, <1>4

\* The steps of a caller.
LEMMA CallerStaysInStep ==
  ASSUME PolicyInv, NEW i \in Instances, InStep(i), NEW c \in Callers,
         Ask(c) \/ Step(c) \/ \E m \in net : Deliver(m, c)
  PROVE  InStep(i)'
<1>1. TypeOK /\ call \in [Callers -> Calls] /\ cache \in [Instances -> Caches]
  BY DEF PolicyInv, TypeOK
\* A step that does not write leaves the requests that it handles alone.
<1>2. ASSUME UNCHANGED <<jenn, net>>, Agrees(i)', NEW new, call' = [call EXCEPT ![c] = new],
             \/ new.op \notin {"sync", "set"}
             \/ new.op = call[c].op /\ new.entries = call[c].entries
      PROVE  InStep(i)'
  <2>1. \A d \in Callers : call'[d] = IF d = c THEN new ELSE call[d]
    BY <1>1, <1>2
  <2>2. \A d \in Callers : call'[d].op \in {"sync", "set"} =>
            Asked(d) /\ call'[d].entries = call[d].entries
    BY <1>2, <2>1 DEF Asked
  <2> QED
    BY <1>2, <2>2, StaysInStep
<1>3. cache' = cache /\ jenn' = jenn => Agrees(i)'
  BY DEF InStep, Agrees
<1>4. CASE Ask(c)
  <2>1. PICK k \in Keys : call' = [call EXCEPT ![c] = [Idle(@.answer) EXCEPT
                                       !.pc = "lock", !.op = "check", !.key = k]]
    BY <1>4 DEF Ask
  <2> DEFINE new == [Idle(call[c].answer) EXCEPT !.pc = "lock", !.op = "check", !.key = k]
  <2>2. new.op = "check" /\ call' = [call EXCEPT ![c] = new]
    BY <2>1 DEF Idle
  <2> HIDE DEF new
  <2> QED
    BY <1>2, <1>3, <1>4, <2>2 DEF Ask
<1>5. ASSUME NEW m \in net, Deliver(m, c) PROVE InStep(i)'
  <2>1. PICK op \in {"sync", "set"} :
           call' = [call EXCEPT ![c] = [Idle(@.answer) EXCEPT
                           !.pc = "lock", !.op = op, !.entries = m.entries]]
    BY <1>5 DEF Deliver
  <2> DEFINE new == [Idle(call[c].answer) EXCEPT !.pc = "lock", !.op = op, !.entries = m.entries]
  <2>2. new.entries = m.entries /\ call' = [call EXCEPT ![c] = new]
    BY <2>1 DEF Idle
  <2> HIDE DEF new
  <2>3. UNCHANGED <<jenn, cache>> /\ net' \subseteq net /\ Home[c] = m.to
    BY <1>5 DEF Deliver
  <2>4. Home[c] = i => Current(m.entries)
    BY <2>3 DEF InStep
  <2>5. \A d \in Callers : call'[d] = IF d = c THEN new ELSE call[d]
    BY <1>1, <2>2
  <2>6. \A d \in Callers : call'[d].op \in {"sync", "set"} /\ Home[d] = i =>
            \/ Asked(d) /\ call'[d].entries = call[d].entries
            \/ Current(call'[d].entries)
    BY <2>2, <2>4, <2>5 DEF Asked
  <2> QED
    BY <1>3, <2>3, <2>6, StaysInStep
<1>6. CASE Lock(c)
  <2> DEFINE before == IF call[c].op = "sync" THEN cache[Home[c]] ELSE NULL
             new == [call[c] EXCEPT !.pc = "run", !.before = before]
  <2>1. call' = [call EXCEPT ![c] = new] /\ UNCHANGED <<jenn, net, cache>>
    BY <1>6 DEF Lock
  <2>2. new.op = call[c].op /\ new.entries = call[c].entries
    BY <1>1 DEF Calls
  <2> HIDE DEF new
  <2> QED
    BY <1>2, <1>3, <2>1, <2>2
<1>7. CASE SyncPolicies(c)
  <2>1. call' = [call EXCEPT ![c] = Idle(call[c].answer)] /\ UNCHANGED <<jenn, net, cache>>
    BY <1>7 DEF SyncPolicies
  <2>2. Idle(call[c].answer).op = "none"
    BY DEF Idle
  <2> QED
    BY <1>2, <1>3, <2>1, <2>2
<1>8. CASE CanAccessGUI(c)
  <2> DEFINE new == Idle(M!Allows(cache[Home[c]][call[c].key]))
  <2>1. call' = [call EXCEPT ![c] = new] /\ UNCHANGED <<jenn, net, cache>>
    BY <1>8 DEF CanAccessGUI
  <2>2. new.op = "none"
    BY DEF Idle
  <2> HIDE DEF new
  <2> QED
    BY <1>2, <1>3, <2>1, <2>2
\* The two that write put an entry that is not out of date.
<1>9. ASSUME NEW j \in DOMAIN call[c].entries, Asked(c), UNCHANGED jenn,
             cache' = [cache EXCEPT ![Home[c]] = Put(@, call[c].entries[j])]
      PROVE  Agrees(i)'
  <2> DEFINE e == call[c].entries[j]
  <2>1. e \in Entries
    BY <1>1 DEF Calls
  <2>2. CASE Home[c] = i
    <3>1. M!Kept(e) => jenn[e.slot] \in {e.permissions, NULL}
      BY <1>9, <2>2 DEF InStep, Current
    <3> HIDE DEF e
    <3> QED
      BY <1>9, <2>1, <2>2, <3>1, PutAgrees DEF InStep, e
  <2>3. CASE Home[c] # i
    <3>1. cache'[i] = cache[i]
      BY <1>1, <1>9, <2>3
    <3> QED
      BY <1>9, <3>1 DEF InStep, Agrees
  <2> QED
    BY <2>2, <2>3
<1>10. CASE SyncPolicy(c)
  <2> DEFINE new == [call[c] EXCEPT !.done = call[c].done + 1]
  <2>1. /\ Runs(c, "sync") /\ call[c].done < Len(call[c].entries)
        /\ cache' = [cache EXCEPT ![Home[c]] = Put(@, call[c].entries[call[c].done + 1])]
        /\ call' = [call EXCEPT ![c] = new] /\ UNCHANGED <<jenn, net>>
    BY <1>10 DEF SyncPolicy
  <2>2. new.op = call[c].op /\ new.entries = call[c].entries
    BY <1>1 DEF Calls
  <2>3. call[c].done + 1 \in DOMAIN call[c].entries /\ Asked(c)
    BY <1>1, <2>1 DEF Calls, Runs, Asked
  <2>4. Agrees(i)'
    BY <1>9, <2>1, <2>3
  <2> HIDE DEF new
  <2> QED
    BY <1>2, <2>1, <2>2, <2>4
<1>11. CASE SetPolicy(c)
  <2> DEFINE e == call[c].entries[1]
  <2>1. /\ Runs(c, "set") /\ UNCHANGED <<jenn, net>>
        /\ cache' = [cache EXCEPT ![Home[c]] = [@ EXCEPT ![e.slot.key] = e.permissions]]
        /\ call' = [call EXCEPT ![c] = Idle(call[c].answer)]
    BY <1>11 DEF SetPolicy
  <2>2. Len(call[c].entries) = 1 /\ M!Kept(e) /\ call[c].entries \in Seq(Entries)
    BY <1>1, <2>1 DEF PolicyInv, CallsInOrder, Runs, Calls
  <2>3. 1 \in DOMAIN call[c].entries /\ Asked(c)
    BY <2>1, <2>2 DEF Runs, Asked
  <2>4. cache' = [cache EXCEPT ![Home[c]] = Put(@, e)]
    <3> HIDE DEF e
    <3> QED
      BY <2>1, <2>2 DEF Put
  <2>5. Agrees(i)'
    BY <1>9, <2>1, <2>3, <2>4
  <2>6. Idle(call[c].answer).op = "none"
    BY DEF Idle
  <2> QED
    BY <1>2, <2>1, <2>5, <2>6
<1> QED
  BY <1>4, <1>5, <1>6, <1>7, <1>8, <1>10, <1>11 DEF Step

\* The restart of another instance.
LEMMA RestartStaysInStep ==
  ASSUME PolicyInv, NEW i \in Instances, InStep(i), NEW j \in Instances \ {i},
         NewPolicyService(j)
  PROVE  InStep(i)'
<1>1. /\ UNCHANGED <<jenn, net>> /\ cache'[i] = cache[i]
      /\ \A c \in Callers : Home[c] = i => call'[c] = call[c]
  BY DEF NewPolicyService, PolicyInv, TypeOK
<1>2. Agrees(i)'
  BY <1>1 DEF InStep, Agrees
<1> QED
  BY <1>1, <1>2, StaysInStep DEF Asked

\* Agreement with Jenn is stable.
THEOREM AgreementIsStable == Spec => AgreementLasts
<1> DEFINE Lasts == \A i \in Instances :
              InStep(i) => \/ InStep(i)'
                           \/ NewPolicyService(i)
                           \/ \E s \in Slots, p \in Permissions : Change(s, p)
<1>1. ASSUME PolicyInv, [Next]_vars, NEW i \in Instances, InStep(i)
      PROVE  \/ InStep(i)' \/ NewPolicyService(i)
             \/ \E s \in Slots, p \in Permissions : Change(s, p)
  <2>1. ASSUME \/ \E s \in Slots : Delete(s)
               \/ \E j \in Instances : FullSync(j)
               \/ \E m \in net : Lose(m)
        PROVE  InStep(i)'
    <3>1. UNCHANGED <<cache, call>>
      BY <2>1 DEF Delete, FullSync, Lose
    <3> QED
      BY <1>1, <2>1, <3>1, JennStaysInStep
  <2>2. ASSUME NEW c \in Callers, Ask(c) \/ Step(c) \/ \E m \in net : Deliver(m, c)
        PROVE  InStep(i)'
    BY <1>1, <2>2, CallerStaysInStep
  <2>3. ASSUME NEW j \in Instances, NewPolicyService(j)
        PROVE  InStep(i)' \/ NewPolicyService(i)
    BY <1>1, <2>3, RestartStaysInStep
  <2>4. UNCHANGED vars => InStep(i)'
    BY <1>1 DEF vars, InStep, Agrees, Current, Asked, M!Kept
  <2> QED
    BY <1>1, <2>1, <2>2, <2>3, <2>4 DEF Next
<1>2. PolicyInv /\ [Next]_vars => Lasts
  BY <1>1
<1> QED
  BY <1>2, PolicyInvariant, PTL DEF Spec, AgreementLasts

-----------------------------------------------------------------------------
(***************************************************************************)
(* PolicyService implements PolicyMap: a merge happens when SyncPolicies   *)
(* returns, SetPolicy and CanAccessGUI happen under their lock.            *)
(***************************************************************************)
LEMMA OneIs == ASSUME NEW c PROVE One({c}) = c
  BY DEF One

LEMMA SeenSyncing ==
  ASSUME PolicyInv, NEW c \in Callers, Runs(c, "sync")
  PROVE  Merging(Home[c]) = {c} /\ Seen(Home[c]) = call[c].before
<1>1. \A d \in Merging(Home[c]) : d = c
  BY DEF PolicyInv, SyncsRunAlone, Merging, Runs
<1>2. c \in Merging(Home[c])
  BY DEF Merging
<1>3. Merging(Home[c]) = {c}
  BY <1>1, <1>2
<1> QED
  BY <1>3, OneIs DEF Seen

LEMMA SeenFree ==
  ASSUME PolicyInv, NEW c \in Callers, call[c].pc = "run", call[c].op # "sync"
  PROVE  Merging(Home[c]) = {} /\ Seen(Home[c]) = cache[Home[c]]
<1>1. Merging(Home[c]) = {}
  BY DEF PolicyInv, SyncsRunAlone, Merging, Runs
<1> QED
  BY <1>1 DEF Seen

\* Callers see the same as before if the same calls merge into the same old
\* caches and the caches that nobody merges into do not change.
LEMMA SeenSame ==
  ASSUME NEW i \in Instances, Merging(i)' = Merging(i),
         \A d \in Merging(i) : call'[d].before = call[d].before,
         Merging(i) = {} => cache'[i] = cache[i]
  PROVE  Seen(i)' = Seen(i)
<1>1. CASE Merging(i) = {}
  BY <1>1 DEF Seen
<1>2. CASE Merging(i) # {}
  <2>1. One(Merging(i)) \in Merging(i)
    BY <1>2 DEF One
  <2>2. Seen(i)' = call'[One(Merging(i))].before
    BY <1>2 DEF Seen
  <2> QED
    BY <1>2, <2>1, <2>2 DEF Seen
<1> QED
  BY <1>1, <1>2

\* A step of one caller shows in the cache of its own process at most.
LEMMA OthersSeeTheSame ==
  ASSUME TypeOK, NEW c \in Callers, NEW new, call' = [call EXCEPT ![c] = new],
         NEW i \in Instances, cache'[i] = cache[i], i # Home[c]
  PROVE  Seen(i)' = Seen(i)
<1>1. \A d \in Callers : Home[d] = i => call'[d] = call[d]
  BY DEF TypeOK
<1>2. Merging(i)' = Merging(i)
  BY <1>1 DEF Merging, Runs
<1>3. \A d \in Merging(i) : call'[d].before = call[d].before
  BY <1>1 DEF Merging
<1> QED
  BY <1>2, <1>3, SeenSame

\* A step that begins or ends no merge and keeps the caches shows nowhere.
LEMMA AllSeeTheSame ==
  ASSUME TypeOK, NEW c \in Callers, NEW new, call' = [call EXCEPT ![c] = new], UNCHANGED cache,
         ~Runs(c, "sync"), ~(new.pc = "run" /\ new.op = "sync"), NEW i \in Instances
  PROVE  Seen(i)' = Seen(i)
<1>1. call'[c] = new /\ \A d \in Callers \ {c} : call'[d] = call[d]
  BY DEF TypeOK
<1>2. Merging(i)' = Merging(i)
  BY <1>1 DEF Merging, Runs
<1>3. \A d \in Merging(i) : call'[d].before = call[d].before
  BY <1>1 DEF Merging
<1> QED
  BY <1>2, <1>3, SeenSame

\* What callers see of the caches and of their calls.
Wanted(k) == IF k.op \in {"sync", "set"} THEN k.entries ELSE NULL
pol == [i \in Instances |-> Seen(i)]
pend == [c \in Callers |-> IF Asked(c) THEN call[c].entries ELSE NULL]
ans == [c \in Callers |-> call[c].answer]

LEMMA PendIs ==
  ASSUME NEW c \in Callers, NEW new, TypeOK, call' = [call EXCEPT ![c] = new]
  PROVE  /\ pend' = [pend EXCEPT ![c] = Wanted(new)]
         /\ ans' = [ans EXCEPT ![c] = new.answer]
         /\ pend[c] = Wanted(call[c])
         /\ Wanted(new) = Wanted(call[c]) => pend' = pend
         /\ new.answer = call[c].answer => ans' = ans
<1>1. call'[c] = new /\ \A d \in Callers \ {c} : call'[d] = call[d]
  BY DEF TypeOK
<1>2. pend' = [d \in Callers |-> IF d = c THEN Wanted(new) ELSE pend[d]]
  BY <1>1 DEF pend, Asked, Wanted
<1>3. ans' = [d \in Callers |-> IF d = c THEN new.answer ELSE ans[d]]
  BY <1>1 DEF ans
<1>4. pend[c] = Wanted(call[c]) /\ ans[c] = call[c].answer
  BY DEF pend, ans, Asked, Wanted
<1>5. /\ pend' = [pend EXCEPT ![c] = Wanted(new)]
      /\ ans' = [ans EXCEPT ![c] = new.answer]
  BY <1>2, <1>3 DEF pend, ans
<1>6. /\ Wanted(new) = Wanted(call[c]) => pend' = pend
      /\ new.answer = call[c].answer => ans' = ans
  <2>1. pend = [d \in Callers |-> pend[d]] /\ ans = [d \in Callers |-> ans[d]]
    BY DEF pend, ans
  <2> QED
    BY <1>4, <1>5, <2>1
<1> QED
  BY <1>4, <1>5, <1>6

\* Taking the lock is no step of PolicyMap, even when a merge begins.
LEMMA LockStutters ==
  ASSUME PolicyInv, NEW c \in Callers, Lock(c) PROVE pol' = pol /\ pend' = pend /\ ans' = ans
<1> DEFINE before == IF call[c].op = "sync" THEN cache[Home[c]] ELSE NULL
           new == [call[c] EXCEPT !.pc = "run", !.before = before]
<1>1. /\ call[c].pc = "lock" /\ call' = [call EXCEPT ![c] = new] /\ UNCHANGED cache
  BY DEF Lock
<1>2. ASSUME NEW d \in Callers \ {c}, Home[d] = Home[c], call[d].pc = "run"
      PROVE  ~Exclusive(call[c].op) /\ ~Exclusive(call[d].op)
  BY <1>2 DEF Lock
<1>3. TypeOK /\ call[c] \in Calls
  BY DEF PolicyInv, TypeOK
<1>4. /\ new.pc = "run" /\ new.op = call[c].op /\ new.entries = call[c].entries
      /\ new.before = before /\ new.answer = call[c].answer
  BY <1>3 DEF Calls
<1> HIDE DEF new
<1>5. pend' = pend /\ ans' = ans
  <2>1. Wanted(new) = Wanted(call[c])
    BY <1>4 DEF Wanted
  <2> QED
    BY <1>1, <1>3, <1>4, <2>1, PendIs
<1>6. ASSUME NEW i \in Instances PROVE Seen(i)' = Seen(i)
  <2>1. CASE i # Home[c]
    BY <1>1, <1>3, <2>1, OthersSeeTheSame
  <2>2. CASE call[c].op # "sync"
    BY <1>1, <1>3, <1>4, <2>2, AllSeeTheSame DEF Runs
  <2>3. CASE i = Home[c] /\ call[c].op = "sync"
    <3>1. \A d \in Callers : Home[d] = i => call[d].pc # "run"
      BY <1>1, <1>2, <2>3 DEF Exclusive
    <3>2. Merging(i) = {}
      BY <3>1 DEF Merging, Runs
    <3>3. Merging(i)' = {c} /\ call'[c] = new
      BY <1>1, <1>3, <1>4, <2>3, <3>1 DEF Merging, Runs, TypeOK
    <3>4. Seen(i)' = call'[c].before
      BY <3>3, OneIs DEF Seen
    <3> QED
      BY <1>4, <2>3, <3>2, <3>3, <3>4 DEF Seen
  <2> QED
    BY <2>1, <2>2, <2>3
<1> QED
  BY <1>5, <1>6 DEF pol

\* Neither is an entry that the loop handles.
LEMMA LoopStutters ==
  ASSUME PolicyInv, NEW c \in Callers, SyncPolicy(c) PROVE pol' = pol /\ pend' = pend /\ ans' = ans
<1> DEFINE new == [call[c] EXCEPT !.done = call[c].done + 1]
<1>1. Runs(c, "sync") /\ call' = [call EXCEPT ![c] = new]
      /\ cache' = [cache EXCEPT ![Home[c]] = Put(@, call[c].entries[call[c].done + 1])]
  BY DEF SyncPolicy
<1>2. TypeOK /\ call[c] \in Calls
  BY DEF PolicyInv, TypeOK
<1>3. /\ new.pc = call[c].pc /\ new.op = call[c].op /\ new.entries = call[c].entries
      /\ new.before = call[c].before /\ new.answer = call[c].answer
  BY <1>2 DEF Calls
<1> HIDE DEF new
<1>4. pend' = pend /\ ans' = ans
  <2>1. Wanted(new) = Wanted(call[c])
    BY <1>3 DEF Wanted
  <2> QED
    BY <1>1, <1>2, <1>3, <2>1, PendIs
<1>5. ASSUME NEW i \in Instances PROVE Seen(i)' = Seen(i)
  <2>1. CASE i # Home[c]
    <3>1. cache'[i] = cache[i]
      BY <1>1, <1>2, <2>1 DEF TypeOK
    <3> QED
      BY <1>1, <1>2, <2>1, <3>1, OthersSeeTheSame
  <2>2. CASE i = Home[c]
    <3>1. call'[c] = new /\ \A d \in Callers \ {c} : call'[d] = call[d]
      BY <1>1, <1>2 DEF TypeOK
    <3>2. Merging(i)' = Merging(i)
      BY <1>3, <3>1 DEF Merging, Runs
    <3>3. Merging(i) = {c}
      BY <1>1, <2>2, SeenSyncing
    <3> QED
      BY <1>3, <3>1, <3>2, <3>3, SeenSame
  <2> QED
    BY <2>1, <2>2
<1> QED
  BY <1>4, <1>5 DEF pol

LEMMA ReturnApplies ==
  ASSUME PolicyInv, NEW c \in Callers, SyncPolicies(c) PROVE M!Apply(c)
<1> DEFINE new == Idle(call[c].answer)
           es == call[c].entries
<1>1. /\ Runs(c, "sync") /\ call[c].done = Len(es) /\ call' = [call EXCEPT ![c] = new]
      /\ UNCHANGED cache
  BY DEF SyncPolicies
<1>2. TypeOK /\ call[c] \in Calls /\ Home[c] \in Instances
  BY PolicyHome DEF PolicyInv, TypeOK
<1>3. new.pc = "idle" /\ new.op = "none" /\ new.answer = call[c].answer
  BY DEF Idle
<1> HIDE DEF new
<1>4. es \in Batches /\ cache[Home[c]] = M!Merged(call[c].before, es, Len(es))
  BY <1>1 DEF PolicyInv, CallsInOrder, MergesInProgress, Runs
<1>5. pend[c] = es /\ es # NULL /\ pend' = [pend EXCEPT ![c] = NULL] /\ ans' = ans
  <2>1. Wanted(call[c]) = es /\ Wanted(new) = NULL
    BY <1>1, <1>3 DEF Wanted, Runs
  <2> QED
    BY <1>1, <1>2, <1>3, <1>4, <2>1, PendIs, PolicyNull
<1>6. Merging(Home[c]) = {c} /\ Seen(Home[c]) = call[c].before
  BY <1>1, SeenSyncing
<1>7. Merging(Home[c])' = {}
  <2>1. call'[c] = new /\ \A d \in Callers \ {c} : call'[d] = call[d]
    BY <1>1, <1>2 DEF TypeOK
  <2>2. \A d \in Callers : d = c \/ ~(Home[d] = Home[c] /\ Runs(d, "sync"))
    BY <1>6 DEF Merging
  <2> QED
    BY <1>3, <2>1, <2>2 DEF Merging, Runs
<1>8. Seen(Home[c])' = M!Merged(Seen(Home[c]), es, Len(es))
  BY <1>1, <1>4, <1>6, <1>7 DEF Seen
<1>9. \A i \in Instances \ {Home[c]} : Seen(i)' = Seen(i)
  BY <1>1, <1>2, OthersSeeTheSame
<1>10. pol' = [pol EXCEPT ![Home[c]] = M!Merged(@, es, Len(es))]
  BY <1>2, <1>8, <1>9 DEF pol
<1> QED
  BY <1>5, <1>10 DEF M!Apply, pol, pend, ans

LEMMA SetApplies ==
  ASSUME PolicyInv, NEW c \in Callers, SetPolicy(c) PROVE M!Apply(c)
<1> DEFINE new == Idle(call[c].answer)
           es == call[c].entries
<1>1. /\ call[c].pc = "run" /\ call[c].op = "set" /\ call' = [call EXCEPT ![c] = new]
      /\ cache' = [cache EXCEPT ![Home[c]] = [@ EXCEPT ![es[1].slot.key] = es[1].permissions]]
  BY DEF SetPolicy, Runs
<1>2. TypeOK /\ call[c] \in Calls /\ Home[c] \in Instances /\ es \in Seq(Entries)
  BY PolicyHome DEF PolicyInv, TypeOK, Calls
<1>3. new.pc = "idle" /\ new.op = "none" /\ new.answer = call[c].answer
  BY DEF Idle
<1> HIDE DEF new
<1>4. es \in Batches /\ Len(es) = 1 /\ M!Kept(es[1])
  BY <1>1 DEF PolicyInv, CallsInOrder
<1>5. pend[c] = es /\ es # NULL /\ pend' = [pend EXCEPT ![c] = NULL] /\ ans' = ans
  <2>1. Wanted(call[c]) = es /\ Wanted(new) = NULL
    BY <1>1, <1>3 DEF Wanted
  <2> QED
    BY <1>1, <1>2, <1>3, <1>4, <2>1, PendIs, PolicyNull
<1>6. Merging(Home[c]) = {} /\ Seen(Home[c]) = cache[Home[c]]
  BY <1>1, SeenFree
<1>7. Merging(Home[c])' = {}
  <2>1. call'[c] = new /\ \A d \in Callers \ {c} : call'[d] = call[d]
    BY <1>1, <1>2 DEF TypeOK
  <2>2. \A d \in Callers : ~(Home[d] = Home[c] /\ Runs(d, "sync"))
    BY <1>6 DEF Merging
  <2> QED
    BY <1>3, <2>1, <2>2 DEF Merging, Runs
<1>8. cache'[Home[c]] = M!Merged(cache[Home[c]], es, Len(es))
  <2>1. cache[Home[c]] \in Caches
    BY <1>2 DEF TypeOK
  <2>2. M!Merged(cache[Home[c]], es, 1) = [cache[Home[c]] EXCEPT ![es[1].slot.key] = es[1].permissions]
    BY <1>2, <1>4, <2>1, MergedOne
  <2>3. cache'[Home[c]] = [cache[Home[c]] EXCEPT ![es[1].slot.key] = es[1].permissions]
    BY <1>1, <1>2 DEF TypeOK
  <2> QED
    BY <1>4, <2>2, <2>3
<1>9. Seen(Home[c])' = M!Merged(Seen(Home[c]), es, Len(es))
  BY <1>6, <1>7, <1>8 DEF Seen
<1>10. \A i \in Instances \ {Home[c]} : cache'[i] = cache[i]
  BY <1>1, <1>2 DEF TypeOK
<1>11. \A i \in Instances \ {Home[c]} : Seen(i)' = Seen(i)
  BY <1>1, <1>2, <1>10, OthersSeeTheSame
<1>12. pol' = [pol EXCEPT ![Home[c]] = M!Merged(@, es, Len(es))]
  BY <1>2, <1>9, <1>11 DEF pol
<1> QED
  BY <1>5, <1>12 DEF M!Apply, pol, pend, ans

LEMMA CheckChecks ==
  ASSUME PolicyInv, NEW c \in Callers, CanAccessGUI(c) PROVE M!Check(c)
<1> DEFINE k == call[c].key
           a == M!Allows(cache[Home[c]][k])
           new == Idle(a)
<1>1. /\ call[c].pc = "run" /\ call[c].op = "check" /\ call' = [call EXCEPT ![c] = new]
      /\ UNCHANGED cache
  BY DEF CanAccessGUI, Runs
<1>2. TypeOK /\ call[c] \in Calls /\ Home[c] \in Instances /\ k \in Keys
  BY <1>1, PolicyHome DEF PolicyInv, TypeOK, CallsInOrder
<1>3. new.pc = "idle" /\ new.op = "none" /\ new.answer = a
  BY DEF Idle
<1> HIDE DEF new, a
<1>4. pend' = pend /\ ans' = [ans EXCEPT ![c] = a]
  <2>1. Wanted(call[c]) = NULL /\ Wanted(new) = NULL
    BY <1>1, <1>3 DEF Wanted
  <2>2. /\ pend' = [pend EXCEPT ![c] = Wanted(new)] /\ ans' = [ans EXCEPT ![c] = new.answer]
        /\ pend[c] = Wanted(call[c])
        /\ Wanted(new) = Wanted(call[c]) => pend' = pend
        /\ new.answer = call[c].answer => ans' = ans
    BY <1>1, <1>2, PendIs
  <2> QED
    BY <1>3, <2>1, <2>2
<1>5. \A i \in Instances : Seen(i)' = Seen(i)
  BY <1>1, <1>2, <1>3, AllSeeTheSame DEF Runs
<1>6. pol' = pol
  BY <1>5 DEF pol
<1>7. Seen(Home[c]) = cache[Home[c]]
  BY <1>1, SeenFree
<1>8. a = M!Allows(pol[Home[c]][k])
  BY <1>2, <1>7 DEF pol, a
<1> QED
  BY <1>2, <1>4, <1>6, <1>8 DEF M!Check, pol, pend, ans

LEMMA DeliverSubmits ==
  ASSUME PolicyInv, NEW m \in net, NEW c \in Callers, Deliver(m, c) PROVE M!Submit(c)
<1>1. PICK op \in {"sync", "set"} :
         call' = [call EXCEPT ![c] = [Idle(@.answer) EXCEPT
                         !.pc = "lock", !.op = op, !.entries = m.entries]]
  BY DEF Deliver
<1> DEFINE new == [Idle(call[c].answer) EXCEPT !.pc = "lock", !.op = op, !.entries = m.entries]
<1>2. call[c].pc = "idle" /\ UNCHANGED cache
  BY DEF Deliver
<1>3. TypeOK /\ m.entries \in Batches /\ call[c].op = "none"
  BY <1>2 DEF PolicyInv, TypeOK, Requests, CallsInOrder
<1>4. new.pc = "lock" /\ new.op = op /\ new.entries = m.entries /\ new.answer = call[c].answer
  BY DEF Idle
<1>5. call' = [call EXCEPT ![c] = new]
  BY <1>1
<1> HIDE DEF new
<1>6. pend[c] = NULL /\ pend' = [pend EXCEPT ![c] = m.entries] /\ ans' = ans
  <2>1. Wanted(call[c]) = NULL /\ Wanted(new) = m.entries
    BY <1>3, <1>4 DEF Wanted
  <2>2. /\ pend' = [pend EXCEPT ![c] = Wanted(new)] /\ ans' = [ans EXCEPT ![c] = new.answer]
        /\ pend[c] = Wanted(call[c])
        /\ Wanted(new) = Wanted(call[c]) => pend' = pend
        /\ new.answer = call[c].answer => ans' = ans
    BY <1>3, <1>5, PendIs
  <2> QED
    BY <1>4, <2>1, <2>2
<1>7. \A i \in Instances : Seen(i)' = Seen(i)
  BY <1>2, <1>3, <1>4, <1>5, AllSeeTheSame DEF Runs
<1>8. pol' = pol
  BY <1>7 DEF pol
<1> QED
  BY <1>3, <1>6, <1>8 DEF M!Submit, pol, pend, ans

LEMMA AskStutters ==
  ASSUME PolicyInv, NEW c \in Callers, Ask(c) PROVE pol' = pol /\ pend' = pend /\ ans' = ans
<1>1. PICK k \in Keys : call' = [call EXCEPT ![c] = [Idle(@.answer) EXCEPT
                                    !.pc = "lock", !.op = "check", !.key = k]]
  BY DEF Ask
<1> DEFINE new == [Idle(call[c].answer) EXCEPT !.pc = "lock", !.op = "check", !.key = k]
<1>2. call[c].pc = "idle" /\ UNCHANGED cache
  BY DEF Ask
<1>3. TypeOK /\ call[c].op = "none"
  BY <1>2 DEF PolicyInv, TypeOK, CallsInOrder
<1>4. new.pc = "lock" /\ new.op = "check" /\ new.answer = call[c].answer
  BY DEF Idle
<1>5. call' = [call EXCEPT ![c] = new]
  BY <1>1
<1> HIDE DEF new
<1>6. pend' = pend /\ ans' = ans
  <2>1. Wanted(call[c]) = NULL /\ Wanted(new) = NULL
    BY <1>3, <1>4 DEF Wanted
  <2>2. /\ pend' = [pend EXCEPT ![c] = Wanted(new)] /\ ans' = [ans EXCEPT ![c] = new.answer]
        /\ pend[c] = Wanted(call[c])
        /\ Wanted(new) = Wanted(call[c]) => pend' = pend
        /\ new.answer = call[c].answer => ans' = ans
    BY <1>3, <1>5, PendIs
  <2> QED
    BY <1>4, <2>1, <2>2
<1>7. \A i \in Instances : Seen(i)' = Seen(i)
  BY <1>2, <1>3, <1>4, <1>5, AllSeeTheSame DEF Runs
<1> QED
  BY <1>6, <1>7 DEF pol

LEMMA RestartRestarts ==
  ASSUME PolicyInv, NEW i \in Instances, NewPolicyService(i) PROVE M!Restart(i)
<1>1. /\ cache' = [cache EXCEPT ![i] = M!Empty]
      /\ call' = [c \in Callers |-> IF Home[c] = i THEN Idle(NULL) ELSE call[c]]
  BY DEF NewPolicyService
<1>2. Idle(NULL).pc = "idle" /\ Idle(NULL).op = "none" /\ Idle(NULL).answer = NULL
  BY DEF Idle
<1>3. \A c \in Callers : call'[c] = IF Home[c] = i THEN Idle(NULL) ELSE call[c]
  BY <1>1
<1>4. cache'[i] = M!Empty /\ \A j \in Instances \ {i} : cache'[j] = cache[j]
  BY <1>1 DEF PolicyInv, TypeOK
<1>5. Seen(i)' = M!Empty
  <2>1. Merging(i)' = {}
    BY <1>2, <1>3 DEF Merging, Runs
  <2> QED
    BY <1>4, <2>1 DEF Seen
<1>6. ASSUME NEW j \in Instances \ {i} PROVE Seen(j)' = Seen(j)
  <2>1. \A c \in Callers : Home[c] = j => call'[c] = call[c]
    BY <1>3
  <2>2. Merging(j)' = Merging(j)
    BY <2>1 DEF Merging, Runs
  <2>3. \A d \in Merging(j) : call'[d].before = call[d].before
    BY <2>1 DEF Merging
  <2> QED
    BY <1>4, <2>2, <2>3, SeenSame
<1>7. pol' = [pol EXCEPT ![i] = M!Empty]
  BY <1>5, <1>6 DEF pol
<1>8. pend' = [c \in Callers |-> IF Home[c] = i THEN NULL ELSE pend[c]]
  BY <1>2, <1>3 DEF pend, Asked
<1>9. ans' = [c \in Callers |-> IF Home[c] = i THEN NULL ELSE ans[c]]
  BY <1>2, <1>3 DEF ans
<1> QED
  BY <1>7, <1>8, <1>9 DEF M!Restart, pol, pend, ans

LEMMA SameCallsSameMap ==
  ASSUME UNCHANGED <<cache, call>> PROVE pol' = pol /\ pend' = pend /\ ans' = ans
<1>1. \A i \in Instances : Merging(i)' = Merging(i)
  BY DEF Merging, Runs
<1>2. \A i \in Instances : Seen(i)' = Seen(i)
  BY <1>1, SeenSame
<1> QED
  BY <1>2 DEF pol, pend, ans, Asked

LEMMA InitMaps == Init => M!Init
<1> SUFFICES ASSUME Init PROVE M!Init
  OBVIOUS
<1>1. Idle(NULL).pc = "idle" /\ Idle(NULL).op = "none" /\ Idle(NULL).answer = NULL
  BY DEF Idle
<1>2. \A c \in Callers : call[c] = Idle(NULL)
  BY DEF Init
<1>3. \A i \in Instances : Merging(i) = {} /\ cache[i] = M!Empty
  BY <1>1, <1>2 DEF Merging, Runs, Init
<1>4. \A i \in Instances : Seen(i) = M!Empty
  BY <1>3 DEF Seen
<1> QED
  BY <1>1, <1>2, <1>4 DEF M!Init, Asked

\* To its callers the service is PolicyMap: no access check sees half a batch,
\* of two entries for one key the last one counts, and a restart empties the
\* map of its own process only.
THEOREM ImplementsPolicyMap == Spec => MapSpec
<1>1. PolicyInv /\ [Next]_vars => [M!Next]_(M!vars)
  <2> SUFFICES ASSUME PolicyInv, [Next]_vars
               PROVE  M!Next \/ (pol' = pol /\ pend' = pend /\ ans' = ans)
    BY DEF M!vars, pol, pend, ans
  <2>1. CASE UNCHANGED <<cache, call>>
    BY <2>1, SameCallsSameMap
  <2>2. ASSUME NEW m \in net, NEW c \in Callers, Deliver(m, c) PROVE M!Next
    BY <2>2, DeliverSubmits DEF M!Next
  <2>3. ASSUME NEW i \in Instances, NewPolicyService(i) PROVE M!Next
    BY <2>3, RestartRestarts DEF M!Next
  <2>4. ASSUME NEW c \in Callers, Ask(c) \/ Lock(c) \/ SyncPolicy(c)
        PROVE  pol' = pol /\ pend' = pend /\ ans' = ans
    BY <2>4, AskStutters, LockStutters, LoopStutters
  <2>5. ASSUME NEW c \in Callers, SyncPolicies(c) \/ SetPolicy(c) \/ CanAccessGUI(c) PROVE M!Next
    BY <2>5, ReturnApplies, SetApplies, CheckChecks DEF M!Next
  <2>6. ASSUME NEW s \in Slots, Delete(s) \/ \E p \in Permissions : Change(s, p)
        PROVE  UNCHANGED <<cache, call>>
    BY <2>6 DEF Delete, Change
  <2>7. ASSUME NEW i \in Instances, FullSync(i) PROVE UNCHANGED <<cache, call>>
    BY <2>7 DEF FullSync
  <2>8. ASSUME NEW m \in net, Lose(m) PROVE UNCHANGED <<cache, call>>
    BY <2>8 DEF Lose
  <2>9. UNCHANGED vars => UNCHANGED <<cache, call>>
    BY DEF vars
  <2> QED
    BY <2>1, <2>2, <2>3, <2>4, <2>5, <2>6, <2>7, <2>8, <2>9 DEF Next, Step
<1> QED
  BY <1>1, InitMaps, PolicyInvariant, PTL DEF Spec, MapSpec, M!Spec
=============================================================================
