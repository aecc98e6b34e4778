-------------------------- MODULE CAServiceProofs --------------------------
(***************************************************************************)
(* Proofs about CAService, for every number of keys, processes and         *)
(* requests, every width of the serial and every clock.                    *)
(***************************************************************************)
EXTENDS CAService, TLAPS

-----------------------------------------------------------------------------
(***************************************************************************)
(* The serial: a quotient and a remainder determine the number.            *)
(***************************************************************************)
LEMMA LargerQuotient ==
  ASSUME NEW w \in Nat \ {0}, NEW a \in Nat, NEW b \in Nat, NEW n \in Nat, NEW k \in Nat,
         n < w, a < b
  PROVE  a * w + n < b * w + k
<1> DEFINE d == b - (a + 1)
<1>1. d \in Nat /\ b = (a + 1) + d
  OBVIOUS
<1> HIDE DEF d
<1>2. b * w = (a + 1) * w + d * w
  BY <1>1
<1>3. d * w \in Nat /\ a * w \in Nat /\ b * w \in Nat
  BY <1>1
<1>4. (a + 1) * w = a * w + w
  OBVIOUS
<1> QED
  BY <1>2, <1>3, <1>4

LEMMA SerialInjective ==
  ASSUME NEW t \in Nat, NEW u \in Nat, NEW n \in Nat, NEW k \in Nat, n < Width, k < Width,
         SerialOf(t, n) = SerialOf(u, k)
  PROVE  t % Width = u % Width /\ n = k
<1> DEFINE a == t % Width
           b == u % Width
<1>1. Width \in Nat \ {0} /\ a \in Nat /\ b \in Nat
  BY CATimes
<1>2. a * Width + n = b * Width + k
  BY DEF SerialOf
<1> HIDE DEF a, b
<1>3. a * Width \in Nat /\ b * Width \in Nat
  BY <1>1
<1>4. ~(a < b) /\ ~(b < a)
  BY <1>1, <1>2, <1>3, LargerQuotient
<1>5. a = b
  BY <1>1, <1>4
<1>6. n = k
  BY <1>2, <1>3, <1>5
<1> QED
  BY <1>5, <1>6 DEF a, b

LEMMA SerialTyped ==
  ASSUME NEW t \in Nat, NEW n \in Nat PROVE SerialOf(t, n) \in Nat
<1>1. t % Width \in Nat /\ Width \in Nat
  BY CATimes
<1>2. (t % Width) * Width \in Nat
  BY <1>1
<1> QED
  BY <1>2 DEF SerialOf

-----------------------------------------------------------------------------
(***************************************************************************)
(* What a request has read.                                                *)
(***************************************************************************)
LEMMA PastIs ==
  ASSUME NEW x
  PROVE  /\ Past(x, "serial") <=> x.pc \in {"after", "before", "expiry", "session"}
         /\ Past(x, "after")  <=> x.pc \in {"before", "expiry", "session"}
         /\ Past(x, "before") <=> x.pc \in {"expiry", "session"}
         /\ Past(x, "expiry") <=> x.pc = "session"
  BY DEF Past, PCs

LEMMA LastsTyped == ASSUME NEW x \in Certificates PROVE Lasts(x) \in Nat
<1>1. x.minutes \in Nat /\ Minute \in Nat
  BY CATimes DEF Certificates
<1> QED
  BY <1>1 DEF Lasts

LEMMA OrderLasts ==
  ASSUME NEW table, NEW x \in Certificates, NEW t \in Nat, NEW u \in Nat, t <= u,
         InOrder(table, x, t)
  PROVE  InOrder(table, x, u)
<1>1. Lasts(x) \in Nat
  BY LastsTyped
<1>2. /\ x.asked \in Nat /\ x.validAfter \in Nat /\ x.validBefore \in Nat /\ x.expiresAt \in Nat
  BY DEF Certificates
<1> QED
  BY <1>1, <1>2 DEF InOrder

\* A new key is no older than any process that runs.
LEMMA SignerStays ==
  ASSUME CAInv, NEW k \in Keys, AddKey(k), NEW x, Signer(keys, x), x.key \in Keys, x.since <= now
  PROVE  Signer(keys', x)
<1>1. \E expires, ok :
        keys' = [keys EXCEPT ![k] = [created |-> now, expires |-> expires, wellFormed |-> ok]]
  BY DEF AddKey
<1>2. keys[k] = NULL /\ keys \in [Keys -> Rows \cup {NULL}]
  BY DEF AddKey, CAInv, TypeOK
<1>3. keys'[x.key] = keys[x.key] /\ keys[x.key] # NULL
  BY <1>1, <1>2 DEF Signer, Live
<1>4. ASSUME NEW l \in Keys, Live(keys', l, x.since), keys'[l].created > keys'[x.key].created
      PROVE  keys'[l].created >= x.since
  <2>1. CASE l = k
    <3>1. keys'[l].created = now
      BY <1>1, <1>2, <2>1
    <3> QED
      BY <3>1
  <2>2. CASE l # k
    <3>1. keys'[l] = keys[l]
      BY <1>1, <1>2, <2>2
    <3> QED
      BY <1>3, <1>4, <3>1 DEF Signer, Live
  <2> QED
    BY <2>1, <2>2
<1> QED
  BY <1>3, <1>4 DEF Signer, Live

\* The same for a request.
LEMMA OrderStays ==
  ASSUME CAInv, NEW k \in Keys, AddKey(k), NEW x \in Certificates, NEW t \in Nat, t <= now,
         InOrder(keys, x, t)
  PROVE  InOrder(keys', x, t)
<1>1. x.key \in Keys /\ x.since \in Nat /\ x.asked \in Nat /\ now \in Nat
  BY DEF Certificates, CAInv, TypeOK
<1>2. Signer(keys, x) /\ x.since <= x.asked /\ x.asked <= t
  BY DEF InOrder
<1>3. x.since <= now
  BY <1>1, <1>2
<1>4. Signer(keys', x)
  BY <1>1, <1>2, <1>3, SignerStays
<1> QED
  BY <1>4 DEF InOrder

-----------------------------------------------------------------------------
(***************************************************************************)
(* The invariant.                                                          *)
(***************************************************************************)
LEMMA CAInit == Init => CAInv
<1> SUFFICES ASSUME Init PROVE CAInv
  OBVIOUS
<1>1. TypeOK
  BY DEF Init, TypeOK, Down
<1>2. \A i \in Instances : proc[i].key = NULL
  BY DEF Init, Down
<1>3. \A c \in Callers : call[c] = Idle
  BY DEF Init
<1>4. (\A k \in Keys : keys[k] = NULL) /\ certs = {}
  BY DEF Init
<1> QED
  BY <1>1, <1>2, <1>3, <1>4 DEF CAInv

LEMMA FaultsTyped == TypeOK /\ (UNCHANGED faults \/ Fault) => faults' \in Nat
  BY DEF TypeOK, Fault

LEMMA CallTyped ==
  ASSUME CAInv, NEW c \in Callers, call[c].pc \in PCs
  PROVE  call[c] \in Certificates /\ InOrder(keys, call[c], now)
  BY DEF CAInv, TypeOK, Idle, PCs

\* A step of one request that hands nothing out.
LEMMA CallStep ==
  ASSUME CAInv, NEW c \in Callers, NEW next, call' = [call EXCEPT ![c] = next],
         UNCHANGED <<keys, now, proc, certs>>, faults' \in Nat,
         next = Idle \/ (next \in Certificates /\ InOrder(keys, next, now))
  PROVE  CAInv'
<1>1. TypeOK'
  BY DEF CAInv, TypeOK
<1>2. \A d \in Callers : call'[d] # Idle => InOrder(keys, call'[d], now)
  BY DEF CAInv, TypeOK
<1> QED
  BY <1>1, <1>2 DEF CAInv

LEMMA AddKeyStep == ASSUME CAInv, NEW k \in Keys, AddKey(k) PROVE CAInv'
<1>1. PICK e \in now .. MaxTime + 1 : \E expires \in {e, NULL}, ok \in BOOLEAN :
        keys' = [keys EXCEPT ![k] = [created |-> now, expires |-> expires, wellFormed |-> ok]]
  BY DEF AddKey
<1>2. now \in Nat /\ keys \in [Keys -> Rows \cup {NULL}]
      /\ UNCHANGED <<now, proc, call, certs, faults>>
  BY DEF AddKey, CAInv, TypeOK
<1>3. e \in Nat
  BY <1>2, CATimes
<1>4. PICK row \in Rows : row.created = now /\ keys' = [keys EXCEPT ![k] = row]
  BY <1>1, <1>2, <1>3 DEF Rows
<1>5. TypeOK'
  BY <1>2, <1>4 DEF CAInv, TypeOK
<1>6. \A l \in Keys : keys'[l] # NULL => keys'[l].created <= now
  BY <1>2, <1>4 DEF CAInv
<1>7. ASSUME NEW i \in Instances, proc[i].key # NULL
      PROVE  proc[i].since <= now /\ Signer(keys', proc[i])
  <2>1. proc[i].key \in Keys /\ proc[i].since <= now /\ Signer(keys, proc[i])
    BY <1>7 DEF CAInv, TypeOK
  <2> QED
    BY <2>1, SignerStays
<1>8. ASSUME NEW c \in Callers, call[c] # Idle PROVE InOrder(keys', call[c], now)
  <2>1. call[c] \in Certificates /\ InOrder(keys, call[c], now)
    BY <1>8 DEF CAInv, TypeOK
  <2> QED
    BY <1>2, <2>1, OrderStays
<1>9. ASSUME NEW x \in certs PROVE x.pc = "session" /\ x.sessionID <= now /\ InOrder(keys', x, x.sessionID)
  <2>1. x \in Certificates /\ x.sessionID \in Nat
    BY DEF CAInv, TypeOK, Certificates
  <2>2. x.pc = "session" /\ x.sessionID <= now /\ InOrder(keys, x, x.sessionID)
    BY DEF CAInv
  <2> QED
    BY <2>1, <2>2, OrderStays
<1> QED
  BY <1>2, <1>5, <1>6, <1>7, <1>8, <1>9 DEF CAInv

LEMMA StartStep == ASSUME CAInv, NEW i \in Instances, NewCAService(i) PROVE CAInv'
<1>1. PICK k \in Keys : /\ Live(keys, k, now) /\ Newest(k) /\ keys[k].wellFormed
                        /\ proc' = [proc EXCEPT ![i] = [key |-> k, since |-> now]]
  BY DEF NewCAService
<1>2. UNCHANGED <<keys, now, call, certs, faults>>
  BY DEF NewCAService
<1>3. TypeOK'
  BY <1>1, <1>2 DEF CAInv, TypeOK
<1>4. ASSUME NEW l \in Keys, Live(keys, l, now) PROVE ~(keys[l].created > keys[k].created)
  <2>1. keys[l].created <= keys[k].created /\ keys[l].created \in Nat /\ keys[k].created \in Nat
    BY <1>1, <1>4 DEF Newest, Live, CAInv, TypeOK, Rows
  <2> QED
    BY <2>1
<1>5. Signer(keys, [key |-> k, since |-> now])
  BY <1>1, <1>4 DEF Signer
<1>6. ASSUME NEW j \in Instances, proc'[j].key # NULL
      PROVE  proc'[j].since <= now /\ Signer(keys, proc'[j])
  <2>1. CASE j = i
    <3>1. proc'[j] = [key |-> k, since |-> now] /\ now \in Nat
      BY <1>1, <2>1 DEF CAInv, TypeOK
    <3> QED
      BY <1>5, <3>1
  <2>2. CASE j # i
    <3>1. proc'[j] = proc[j]
      BY <1>1, <2>2 DEF CAInv, TypeOK
    <3> QED
      BY <1>6, <3>1 DEF CAInv
  <2> QED
    BY <2>1, <2>2
<1> QED
  BY <1>2, <1>3, <1>6 DEF CAInv

LEMMA CrashStep == ASSUME CAInv, NEW i \in Instances, Crash(i) PROVE CAInv'
<1>1. /\ proc' = [proc EXCEPT ![i] = Down]
      /\ call' = [c \in Callers |-> IF Home[c] = i THEN Idle ELSE call[c]]
      /\ UNCHANGED <<keys, now, certs>> /\ faults' \in Nat
  BY FaultsTyped DEF Crash, CAInv
<1>2. TypeOK'
  BY <1>1 DEF CAInv, TypeOK, Down
<1>3. \A j \in Instances : proc'[j].key # NULL => proc'[j] = proc[j]
  BY <1>1 DEF CAInv, TypeOK, Down
<1>4. \A c \in Callers : call'[c] # Idle => call'[c] = call[c]
  BY <1>1
<1> QED
  BY <1>1, <1>2, <1>3, <1>4 DEF CAInv

LEMMA IssueStep == ASSUME CAInv, NEW c \in Callers, IssueCert(c) PROVE CAInv'
<1> DEFINE p == proc[Home[c]]
           New(minutes) ==
             [ pc |-> "serial", caller |-> c, asked |-> now, minutes |-> minutes,
               key |-> p.key, since |-> p.since, drawn |-> <<0, 0>>, serial |-> 0,
               validAfter |-> 0, validBefore |-> 0, expiresAt |-> 0, sessionID |-> 0 ]
<1>1. p.key \in Keys /\ p.since \in Nat /\ p.since <= now /\ Signer(keys, p) /\ now \in Nat
  BY CAHome DEF IssueCert, CAInv, TypeOK
<1>2. PICK r \in Requested :
        LET minutes == IF r = 0 THEN DefaultMinutes ELSE r
        IN  InRange(minutes) /\ call' = [call EXCEPT ![c] = New(minutes)]
  BY DEF IssueCert
<1>3. PICK minutes \in Nat : call' = [call EXCEPT ![c] = New(minutes)]
  <2> DEFINE minutes == IF r = 0 THEN DefaultMinutes ELSE r
  <2>1. InRange(minutes) /\ call' = [call EXCEPT ![c] = New(minutes)]
    BY <1>2
  <2>2. minutes \in Int
    BY CATimes
  <2> HIDE DEF minutes, New
  <2>3. minutes \in Nat
    BY <2>1, <2>2 DEF InRange
  <2> QED
    BY <2>1, <2>3
<1>4. New(minutes) \in Certificates
  BY <1>1 DEF Certificates, PCs
<1>5. InOrder(keys, New(minutes), now)
  <2>1. Signer(keys, New(minutes))
    BY <1>1 DEF Signer
  <2> QED
    BY <1>1, <2>1, PastIs DEF InOrder
<1>6. UNCHANGED <<keys, now, proc, certs>> /\ faults' \in Nat
  BY DEF IssueCert, CAInv, TypeOK
<1> HIDE DEF New
<1> QED
  BY <1>3, <1>4, <1>5, <1>6, CallStep

\* What Handle leaves to show.
LEMMA HandleStep ==
  ASSUME CAInv, NEW c \in Callers, NEW pc, NEW next \in Certificates, Handle(c, pc, next),
         InOrder(keys, next, now)
  PROVE  CAInv'
<1>1. faults' \in Nat /\ UNCHANGED <<keys, now, proc, certs>> /\ call' = [call EXCEPT ![c] = next]
  BY DEF Handle, CAInv, TypeOK
<1> QED
  BY <1>1, CallStep

LEMMA SerialStep == ASSUME CAInv, NEW c \in Callers, Serial(c) PROVE CAInv'
<1>1. PICK nonce \in 0 .. Width - 1 :
        Handle(c, "serial", [call[c] EXCEPT !.pc = "after", !.drawn = <<now, nonce>>,
                                            !.serial = SerialOf(now, nonce)])
  BY DEF Serial
<1> DEFINE x == call[c]
           y == [x EXCEPT !.pc = "after", !.drawn = <<now, nonce>>, !.serial = SerialOf(now, nonce)]
<1>2. x.pc = "serial" /\ x \in Certificates /\ InOrder(keys, x, now) /\ now \in Nat
  BY <1>1, CallTyped DEF Handle, PCs, CAInv, TypeOK
<1> HIDE DEF x, y
<1>3. nonce \in Nat /\ nonce < Width /\ SerialOf(now, nonce) \in Nat
  <2>1. nonce \in Nat /\ nonce < Width
    BY CATimes
  <2> QED
    BY <1>2, <2>1, SerialTyped
<1> USE DEF y
<1>4. y \in Certificates
  BY <1>2, <1>3 DEF Certificates, PCs
<1>5. /\ y.pc = "after" /\ y.drawn = <<now, nonce>> /\ y.serial = SerialOf(now, nonce)
      /\ y.since = x.since /\ y.asked = x.asked /\ y.key = x.key
  BY <1>2 DEF Certificates
<1> HIDE DEF y
<1>6. Signer(keys, y)
  BY <1>2, <1>5 DEF Signer, InOrder
<1>7. InOrder(keys, y, now)
  BY <1>2, <1>3, <1>5, <1>6, PastIs DEF InOrder
<1> QED
  BY <1>1, <1>4, <1>7, HandleStep DEF x, y

LEMMA AfterStep == ASSUME CAInv, NEW c \in Callers, ValidAfter(c) PROVE CAInv'
<1> DEFINE x == call[c]
           y == [x EXCEPT !.pc = "before", !.validAfter = now]
<1>1. Handle(c, "after", y)
  BY DEF ValidAfter
<1>2. x.pc = "after" /\ x \in Certificates /\ InOrder(keys, x, now) /\ now \in Nat
  BY CallTyped DEF ValidAfter, Handle, PCs, CAInv, TypeOK
<1> HIDE DEF x
<1>3. y \in Certificates
  BY <1>2 DEF Certificates, PCs
<1>4. /\ y.pc = "before" /\ y.validAfter = now /\ y.drawn = x.drawn /\ y.serial = x.serial
      /\ y.since = x.since /\ y.asked = x.asked /\ y.key = x.key
  BY <1>2 DEF Certificates
<1> HIDE DEF y
<1>5. Signer(keys, y)
  BY <1>2, <1>4 DEF Signer, InOrder
<1>6. InOrder(keys, y, now)
  BY <1>2, <1>4, <1>5, PastIs DEF InOrder
<1> QED
  BY <1>1, <1>3, <1>6, HandleStep

LEMMA BeforeStep == ASSUME CAInv, NEW c \in Callers, ValidBefore(c) PROVE CAInv'
<1> DEFINE x == call[c]
           y == [x EXCEPT !.pc = "expiry", !.validBefore = now + Lasts(x)]
<1>1. Handle(c, "before", y)
  BY DEF ValidBefore, Lasts
<1>2. x.pc = "before" /\ x \in Certificates /\ InOrder(keys, x, now) /\ now \in Nat
  BY CallTyped DEF ValidBefore, Handle, PCs, CAInv, TypeOK
<1> HIDE DEF x
<1>3. Lasts(x) \in Nat /\ x.asked \in Nat /\ now + Lasts(x) \in Nat
  <2>1. Lasts(x) \in Nat /\ x.asked \in Nat
    BY <1>2, LastsTyped DEF Certificates
  <2> QED
    BY <1>2, <2>1
<1>4. y \in Certificates
  BY <1>2, <1>3 DEF Certificates, PCs
<1>5. /\ y.pc = "expiry" /\ y.validBefore = now + Lasts(x) /\ y.validAfter = x.validAfter
      /\ y.drawn = x.drawn /\ y.serial = x.serial /\ y.minutes = x.minutes
      /\ y.since = x.since /\ y.asked = x.asked /\ y.key = x.key
  BY <1>2 DEF Certificates
<1> HIDE DEF y
<1>6. Signer(keys, y) /\ Lasts(y) = Lasts(x)
  BY <1>2, <1>5 DEF Signer, InOrder, Lasts
<1>7. InOrder(keys, y, now)
  BY <1>2, <1>3, <1>5, <1>6, PastIs DEF InOrder
<1> QED
  BY <1>1, <1>4, <1>7, HandleStep

LEMMA ExpiryStep == ASSUME CAInv, NEW c \in Callers, Expiry(c) PROVE CAInv'
<1> DEFINE x == call[c]
           y == [x EXCEPT !.pc = "session", !.expiresAt = now + Lasts(x)]
<1>1. Handle(c, "expiry", y)
  BY DEF Expiry, Lasts
<1>2. x.pc = "expiry" /\ x \in Certificates /\ InOrder(keys, x, now) /\ now \in Nat
  BY CallTyped DEF Expiry, Handle, PCs, CAInv, TypeOK
<1> HIDE DEF x
<1>3. Lasts(x) \in Nat /\ x.asked \in Nat /\ now + Lasts(x) \in Nat
  <2>1. Lasts(x) \in Nat /\ x.asked \in Nat
    BY <1>2, LastsTyped DEF Certificates
  <2> QED
    BY <1>2, <2>1
<1>4. y \in Certificates
  BY <1>2, <1>3 DEF Certificates, PCs
<1>5. /\ y.pc = "session" /\ y.expiresAt = now + Lasts(x) /\ y.validBefore = x.validBefore
      /\ y.validAfter = x.validAfter
      /\ y.drawn = x.drawn /\ y.serial = x.serial /\ y.minutes = x.minutes
      /\ y.since = x.since /\ y.asked = x.asked /\ y.key = x.key
  BY <1>2 DEF Certificates
<1> HIDE DEF y
<1>6. Signer(keys, y) /\ Lasts(y) = Lasts(x)
  BY <1>2, <1>5 DEF Signer, InOrder, Lasts
<1>7. InOrder(keys, y, now)
  BY <1>2, <1>3, <1>5, <1>6, PastIs DEF InOrder
<1> QED
  BY <1>1, <1>4, <1>7, HandleStep

LEMMA ReplyStep == ASSUME CAInv, NEW c \in Callers, Reply(c) PROVE CAInv'
<1> DEFINE x == call[c]
           y == [x EXCEPT !.sessionID = now]
<1>1. /\ certs' = certs \cup {y} /\ call' = [call EXCEPT ![c] = Idle]
      /\ UNCHANGED <<keys, now, proc, faults>>
  BY DEF Reply
<1>2. x.pc = "session" /\ x \in Certificates /\ InOrder(keys, x, now) /\ now \in Nat
  BY CallTyped DEF Reply, PCs, CAInv, TypeOK
<1> HIDE DEF x
<1>3. y \in Certificates
  BY <1>2 DEF Certificates
<1>4. /\ y.pc = "session" /\ y.sessionID = now
      /\ y.expiresAt = x.expiresAt /\ y.validBefore = x.validBefore /\ y.validAfter = x.validAfter
      /\ y.drawn = x.drawn /\ y.serial = x.serial /\ y.minutes = x.minutes
      /\ y.since = x.since /\ y.asked = x.asked /\ y.key = x.key
  BY <1>2 DEF Certificates
<1> HIDE DEF y
<1>5. Signer(keys, y) /\ Lasts(y) = Lasts(x)
  BY <1>2, <1>4 DEF Signer, InOrder, Lasts
<1>6. InOrder(keys, y, now)
  BY <1>2, <1>4, <1>5, PastIs DEF InOrder
<1>7. TypeOK'
  BY <1>1, <1>3 DEF CAInv, TypeOK
<1>8. \A d \in Callers : call'[d] # Idle => InOrder(keys, call'[d], now)
  BY <1>1 DEF CAInv, TypeOK
<1>9. \A z \in certs' : z.pc = "session" /\ z.sessionID <= now /\ InOrder(keys, z, z.sessionID)
  BY <1>1, <1>2, <1>4, <1>6 DEF CAInv
<1> QED
  BY <1>1, <1>7, <1>8, <1>9 DEF CAInv

LEMMA FailStep == ASSUME CAInv, NEW c \in Callers, Fail(c) PROVE CAInv'
<1>1. /\ call' = [call EXCEPT ![c] = Idle] /\ UNCHANGED <<keys, now, proc, certs>>
      /\ faults' \in Nat
  BY FaultsTyped DEF Fail, CAInv
<1> QED
  BY <1>1, CallStep

LEMMA TickStep == ASSUME CAInv, Tick PROVE CAInv'
<1>1. now \in Nat /\ now' = now + 1 /\ UNCHANGED <<keys, proc, call, certs, faults>>
  BY DEF Tick, CAInv, TypeOK
<1>2. TypeOK'
  BY <1>1 DEF CAInv, TypeOK
<1>3. \A k \in Keys : keys[k] # NULL => keys[k].created <= now'
  BY <1>1 DEF CAInv, TypeOK, Rows
<1>4. \A i \in Instances : proc[i].key # NULL => proc[i].since <= now' /\ Signer(keys, proc[i])
  BY <1>1 DEF CAInv, TypeOK
<1>5. ASSUME NEW c \in Callers, call[c] # Idle PROVE InOrder(keys, call[c], now')
  <2>1. call[c] \in Certificates /\ InOrder(keys, call[c], now)
    BY <1>5 DEF CAInv, TypeOK
  <2> QED
    BY <1>1, <2>1, OrderLasts
<1>6. \A x \in certs : x.pc = "session" /\ x.sessionID <= now' /\ InOrder(keys, x, x.sessionID)
  BY <1>1 DEF CAInv, TypeOK, Certificates
<1> QED
  BY <1>1, <1>2, <1>3, <1>4, <1>5, <1>6 DEF CAInv

LEMMA CAStep == CAInv /\ [Next]_vars => CAInv'
<1> SUFFICES ASSUME CAInv, [Next]_vars PROVE CAInv'
  OBVIOUS
<1>1. CASE \E k \in Keys : AddKey(k)
  BY <1>1, AddKeyStep
<1>2. CASE \E i \in Instances : NewCAService(i) \/ Crash(i)
  BY <1>2, StartStep, CrashStep
<1>3. CASE \E c \in Callers : IssueCert(c) \/ Serial(c) \/ ValidAfter(c) \/ ValidBefore(c)
  BY <1>3, IssueStep, SerialStep, AfterStep, BeforeStep
<1>4. CASE \E c \in Callers : Expiry(c) \/ Reply(c) \/ Fail(c)
  BY <1>4, ExpiryStep, ReplyStep, FailStep
<1>5. CASE Tick
  BY <1>5, TickStep
<1>6. CASE UNCHANGED vars
  BY <1>6 DEF vars, CAInv, TypeOK
<1> QED
  BY <1>1, <1>2, <1>3, <1>4, <1>5, <1>6 DEF Next

-----------------------------------------------------------------------------
(***************************************************************************)
(* What the invariant says of certificates.                                *)
(***************************************************************************)
LEMMA Issued ==
  ASSUME CAInv, NEW x \in certs
  PROVE  /\ x \in Certificates /\ Lasts(x) \in Nat /\ Signer(keys, x)
         /\ x.since <= x.asked /\ x.asked <= x.sessionID /\ x.sessionID <= now
         /\ x.drawn[2] < Width /\ x.serial = SerialOf(x.drawn[1], x.drawn[2])
         /\ x.asked <= x.validAfter /\ x.validAfter <= x.sessionID
         /\ x.asked + Lasts(x) <= x.validBefore /\ x.validBefore <= x.expiresAt
         /\ x.expiresAt <= x.sessionID + Lasts(x)
<1>1. x \in Certificates /\ Lasts(x) \in Nat
  BY LastsTyped DEF CAInv, TypeOK
<1>2. x.pc = "session" /\ x.sessionID <= now /\ InOrder(keys, x, x.sessionID)
  BY DEF CAInv
<1> QED
  BY <1>1, <1>2, PastIs DEF InOrder

\* Requests, certificates, keys and processes fit together at any time.
THEOREM CAInvariant == Spec => []CAInv
  BY CAInit, CAStep, PTL DEF Spec

\* A certificate is good from its reply on for the time asked for, however
\* long IssueCert took between its readings of the clock, and it ends when that
\* time, counted from the reply, is over.
THEOREM CertificatesLast == Spec => []GoodForTheTimeAsked
<1>1. CAInv => GoodForTheTimeAsked
  <2> SUFFICES ASSUME CAInv, NEW x \in certs
               PROVE  /\ now <= x.asked + Lasts(x) => x.validAfter <= now /\ now <= x.validBefore
                      /\ now > x.sessionID + Lasts(x) => ~(now <= x.validBefore)
    BY DEF GoodForTheTimeAsked, VerifyCertificate
  <2>1. /\ x.asked \in Nat /\ x.validAfter \in Nat /\ x.validBefore \in Nat
        /\ x.expiresAt \in Nat /\ x.sessionID \in Nat /\ now \in Nat /\ Lasts(x) \in Nat
    BY Issued DEF CAInv, TypeOK, Certificates
  <2>2. CASE now <= x.asked + Lasts(x)
    <3>1. x.asked + Lasts(x) <= x.sessionID + Lasts(x)
      BY <2>1, Issued
    <3> QED
      BY <2>1, <2>2, <3>1, Issued
  <2>3. CASE ~(now <= x.asked + Lasts(x))
    <3>1. x.validBefore <= x.sessionID + Lasts(x)
      BY <2>1, Issued
    <3> QED
      BY <2>1, <2>3, <3>1
  <2> QED
    BY <2>2, <2>3
<1> QED
  BY <1>1, CAInvariant, PTL

\* The expires_at of a reply is off by no more than the request took, and
\* never too early.
THEOREM RepliesPromiseNoLess == Spec => []ReplyPromisesNoLess
<1>1. CAInv => ReplyPromisesNoLess
  <2> SUFFICES ASSUME CAInv, NEW x \in certs
               PROVE  /\ x.validBefore <= x.expiresAt
                      /\ x.expiresAt - x.validBefore <= x.sessionID - x.asked
    BY DEF ReplyPromisesNoLess
  <2>1. /\ x.asked \in Nat /\ x.validBefore \in Nat /\ x.expiresAt \in Nat /\ x.sessionID \in Nat
    BY DEF CAInv, TypeOK, Certificates
  <2> QED
    BY <2>1, Issued
<1> QED
  BY <1>1, CAInvariant, PTL

\* The key of a certificate was live, and no older than any other live one,
\* when the process that signed with it started.
THEOREM SignedByKeyOfStart == Spec => []SignedByTheKeyOfTheStart
<1>1. CAInv => SignedByTheKeyOfTheStart
  BY Issued DEF SignedByTheKeyOfTheStart
<1> QED
  BY <1>1, CAInvariant, PTL

\* Serials of 64 bits repeat only when second and nonce do, for every width.
THEOREM SerialsAreDistinct == Spec => []SerialsTellSecondsApart
<1>1. CAInv => SerialsTellSecondsApart
  <2> SUFFICES ASSUME CAInv, NEW x \in certs, NEW y \in certs, x.serial = y.serial
               PROVE  x.drawn[1] % Width = y.drawn[1] % Width /\ x.drawn[2] = y.drawn[2]
    BY DEF SerialsTellSecondsApart
  <2>1. /\ x.drawn[1] \in Nat /\ x.drawn[2] \in Nat /\ y.drawn[1] \in Nat /\ y.drawn[2] \in Nat
    BY DEF CAInv, TypeOK, Certificates
  <2>2. /\ x.drawn[2] < Width /\ x.serial = SerialOf(x.drawn[1], x.drawn[2])
        /\ y.drawn[2] < Width /\ y.serial = SerialOf(y.drawn[1], y.drawn[2])
    BY Issued
  <2>3. SerialOf(x.drawn[1], x.drawn[2]) = SerialOf(y.drawn[1], y.drawn[2])
    BY <2>2
  <2> QED
    BY <2>1, <2>2, <2>3, SerialInjective
<1> QED
  BY <1>1, CAInvariant, PTL
=============================================================================
