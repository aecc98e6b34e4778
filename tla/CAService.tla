----------------------------- MODULE CAService -----------------------------
(***************************************************************************)
(* CAService and the endpoint that issues certificates.  A process picks   *)
(* its CA key from gate_ca_keys once, when it starts.  A request for a     *)
(* certificate reads the clock five times on its way to the reply, while   *)
(* other requests, other processes and key rotation go on.                 *)
(*                                                                         *)
(* The clock counts seconds, to which every reading is cut down; it does   *)
(* not run backwards.  loadActiveKey writes the key before anybody else    *)
(* knows the service, so the mutex, read-locked ever after, holds no one   *)
(* up and is left out.                                                     *)
(***************************************************************************)
EXTENDS Integers, FiniteSets

CONSTANTS
    Keys,           \* ids of rows in gate_ca_keys
    Instances,      \* processes
    Callers, Home,  \* goroutines that handle requests, and their processes
    NULL,           \* the absence of a value
    Requested,      \* values of duration_minutes in requests
    Minute,         \* seconds in a minute (60)
    DefaultMinutes, \* for a request that names no duration (60)
    LongestMinutes, \* 525600, a year
    Width,          \* 2^32: the number of nonces, and of seconds in a serial
    MaxTime, MaxCerts, MaxFaults \* bounds on the clock, on requests, on failures

ASSUME CAHome   == Home \in [Callers -> Instances]
ASSUME CANull   == NULL \notin Keys /\ NULL \notin Int
ASSUME CATimes  == /\ Requested \subseteq Int
                   /\ Minute \in Nat /\ DefaultMinutes \in Nat /\ LongestMinutes \in Nat
                   /\ Width \in Nat \ {0}
                   /\ MaxTime \in Nat /\ MaxCerts \in Nat /\ MaxFaults \in Nat

VARIABLES
    keys,   \* gate_ca_keys: keys[k] is a row or NULL
    now,    \* the clock
    proc,   \* proc[i]: the key that process i has loaded, and since when
    call,   \* call[c] is the request that caller c handles
    certs,  \* history: the certificates handed out, with their replies
    faults

vars == <<keys, now, proc, call, certs, faults>>

Rows == [created : Nat, expires : Nat \cup {NULL}, wellFormed : BOOLEAN]
Down == [key |-> NULL, since |-> 0]

\* pc  idle -> serial -> after -> before -> expiry -> session -> idle
Idle == [pc |-> "idle"]
PCs  == {"serial", "after", "before", "expiry", "session"}

\* A request under way, and in the end a certificate with its reply: asked and
\* minutes are the request, key and since the process's, drawn what the serial
\* was made of; expiresAt and sessionID are in the reply.
Certificates == [ pc : PCs, caller : Callers, asked : Nat, minutes : Nat,
                  key : Keys, since : Nat, drawn : Nat \X Nat, serial : Nat,
                  validAfter : Nat, validBefore : Nat, expiresAt : Nat, sessionID : Nat ]

TypeOK ==
    /\ keys \in [Keys -> Rows \cup {NULL}]
    /\ now \in Nat
    /\ proc \in [Instances -> [key : Keys \cup {NULL}, since : Nat]]
    /\ call \in [Callers -> Certificates \cup {Idle}]
    /\ certs \subseteq Certificates
    /\ faults \in Nat

Init ==
    /\ keys = [k \in Keys |-> NULL]
    /\ now = 0
    /\ proc = [i \in Instances |-> Down]
    /\ call = [c \in Callers |-> Idle]
    /\ certs = {}
    /\ faults = 0

Fault == faults < MaxFaults /\ faults' = faults + 1

-----------------------------------------------------------------------------
(***************************************************************************)
(* Keys and processes.                                                     *)
(***************************************************************************)

\* An operator puts in a key (external: nothing under src/ does).
AddKey(k) ==
    /\ keys[k] = NULL
    /\ \E e \in now .. MaxTime + 1 : \E expires \in {e, NULL}, ok \in BOOLEAN :
        keys' = [keys EXCEPT ![k] = [created |-> now, expires |-> expires, wellFormed |-> ok]]
    /\ UNCHANGED <<now, proc, call, certs, faults>>

\* WHERE expires_at IS NULL OR expires_at > NOW()
Live(table, k, t) == table[k] # NULL /\ (table[k].expires # NULL => table[k].expires > t)

\* Variant: ORDER BY created_at without DESC.
Oldest(k) == \A l \in Keys : Live(keys, l, now) => keys[l].created >= keys[k].created

\* ORDER BY created_at DESC LIMIT 1
Newest(k) == \A l \in Keys : Live(keys, l, now) => keys[l].created <= keys[k].created

\* The start of a process.  No key, or a newest key that is no Ed25519 key,
\* ends it, and it stays down.
NewCAService(i) ==
    /\ proc[i] = Down
    /\ \E k \in Keys :
        /\ Live(keys, k, now) /\ Newest(k) /\ keys[k].wellFormed
        /\ proc' = [proc EXCEPT ![i] = [key |-> k, since |-> now]]
    /\ UNCHANGED <<keys, now, call, certs, faults>>

Crash(i) ==
    /\ Fault
    /\ proc' = [proc EXCEPT ![i] = Down]
    /\ call' = [c \in Callers |-> IF Home[c] = i THEN Idle ELSE call[c]]
    /\ UNCHANGED <<keys, now, certs>>

-----------------------------------------------------------------------------
(***************************************************************************)
(* IssueCert and GenerateCertificate.                                      *)
(***************************************************************************)

\* Variant: negative durations pass.
InRangeLoosely(minutes) == minutes # 0 /\ minutes <= LongestMinutes

InRange(minutes) == minutes > 0 /\ minutes <= LongestMinutes

\* A request that is refused (bad JSON, no user, duration out of range) ends
\* before it reads anything; one that is accepted reads the process's key.
IssueCert(c) ==
    LET p == proc[Home[c]]
    IN  /\ call[c] = Idle /\ p.key # NULL
        /\ Cardinality(certs) + Cardinality({d \in Callers : call[d] # Idle}) < MaxCerts
        /\ \E r \in Requested :
            LET minutes == IF r = 0 THEN DefaultMinutes ELSE r
            IN  /\ InRange(minutes)
                /\ call' = [call EXCEPT ![c] =
                      [ pc |-> "serial", caller |-> c, asked |-> now, minutes |-> minutes,
                        key |-> p.key, since |-> p.since, drawn |-> <<0, 0>>, serial |-> 0,
                        validAfter |-> 0, validBefore |-> 0, expiresAt |-> 0, sessionID |-> 0 ]]
        /\ UNCHANGED <<keys, now, proc, certs, faults>>

Handle(c, pc, next) ==
    /\ call[c].pc = pc
    /\ call' = [call EXCEPT ![c] = next]
    /\ UNCHANGED <<keys, now, proc, certs, faults>>

\* Variant: the second is not shifted past the nonce.
SerialUnshifted(t, nonce) == (t + nonce) % (Width * Width)

\* uint64(Unix) << 32 | nonce
SerialOf(t, nonce) == (t % Width) * Width + nonce

Serial(c) ==
    \E nonce \in 0 .. Width - 1 :
        Handle(c, "serial", [call[c] EXCEPT !.pc = "after", !.drawn = <<now, nonce>>,
                                            !.serial = SerialOf(now, nonce)])

ValidAfter(c) ==
    Handle(c, "after", [call[c] EXCEPT !.pc = "before", !.validAfter = now])

\* time.Now().Add(duration), another reading.  Signing and encoding follow.
ValidBefore(c) ==
    Handle(c, "before", [call[c] EXCEPT !.pc = "expiry",
                             !.validBefore = now + call[c].minutes * Minute])

\* Variant: the reply shows when the certificate was asked for plus its time.
ExpiryFromRequest(c) ==
    Handle(c, "expiry", [call[c] EXCEPT !.pc = "session",
                             !.expiresAt = call[c].asked + call[c].minutes * Minute])

Expiry(c) ==
    Handle(c, "expiry", [call[c] EXCEPT !.pc = "session",
                             !.expiresAt = now + call[c].minutes * Minute])

\* The session id is the time of day in seconds; then the reply goes out.
Reply(c) ==
    /\ call[c].pc = "session"
    /\ certs' = certs \cup {[call[c] EXCEPT !.sessionID = now]}
    /\ call' = [call EXCEPT ![c] = Idle]
    /\ UNCHANGED <<keys, now, proc, faults>>

\* rand.Read, signing or encoding fails: a 500, and no certificate.
Fail(c) ==
    /\ Fault
    /\ call[c].pc \in {"serial", "before"}
    /\ call' = [call EXCEPT ![c] = Idle]
    /\ UNCHANGED <<keys, now, proc, certs>>

\* Variant: a certificate is refused in its last second.
VerifyStrictly(x, t) == x.validAfter <= t /\ t < x.validBefore

\* What VerifyCertificate says of a certificate of ours at time t; it changes
\* nothing.
VerifyCertificate(x, t) == x.validAfter <= t /\ t <= x.validBefore

Tick ==
    /\ now < MaxTime
    /\ now' = now + 1
    /\ UNCHANGED <<keys, proc, call, certs, faults>>

Next ==
    \/ \E k \in Keys : AddKey(k)
    \/ \E i \in Instances : NewCAService(i) \/ Crash(i)
    \/ \E c \in Callers :
        \/ IssueCert(c) \/ Serial(c) \/ ValidAfter(c) \/ ValidBefore(c)
        \/ Expiry(c) \/ Reply(c) \/ Fail(c)
    \/ Tick

Spec == Init /\ [][Next]_vars

-----------------------------------------------------------------------------
(***************************************************************************)
(* Properties.                                                             *)
(***************************************************************************)

Lasts(x) == x.minutes * Minute

\* However long the request took between its readings of the clock, its
\* certificate is accepted from the reply on for all the time asked for,
\* counted from the request, and no longer than that counted from the reply.
GoodForTheTimeAsked ==
    \A x \in certs :
        /\ now <= x.asked + Lasts(x) => VerifyCertificate(x, now)
        /\ now > x.sessionID + Lasts(x) => ~VerifyCertificate(x, now)

\* The reply and the certificate disagree about the end in one direction only,
\* and by no more than the request took: a client that trusts expires_at may
\* come that much too late.
ReplyPromisesNoLess ==
    \A x \in certs :
        /\ x.validBefore <= x.expiresAt
        /\ x.expiresAt - x.validBefore <= x.sessionID - x.asked

\* A certificate is signed with a key that was live and the newest when its
\* process started: later rotation and expiry pass the process by, earlier do
\* not, whatever restarts in between.
Signer(table, x) ==
    /\ Live(table, x.key, x.since) /\ table[x.key].wellFormed
    /\ \A l \in Keys : Live(table, l, x.since) /\ table[l].created > table[x.key].created
                          => table[l].created >= x.since

SignedByTheKeyOfTheStart == \A x \in certs : Signer(keys, x) /\ x.since <= x.asked

\* Two certificates share a serial only if they drew the same nonce within the
\* same second, or 2^32 seconds apart, whichever processes issued them.
SerialsTellSecondsApart ==
    \A x, y \in certs : x.serial = y.serial =>
        x.drawn[1] % Width = y.drawn[1] % Width /\ x.drawn[2] = y.drawn[2]

(***************************************************************************)
(* The inductive invariant of the proofs.                                  *)
(***************************************************************************)
Past(x, pc) == x.pc \in CASE pc = "serial" -> PCs \ {"serial"}
                          [] pc = "after"  -> {"before", "expiry", "session"}
                          [] pc = "before" -> {"expiry", "session"}
                          [] pc = "expiry" -> {"session"}

\* What a request has read so far fits together, at any time until t.
InOrder(table, x, t) ==
    /\ x.since <= x.asked /\ x.asked <= t
    /\ Signer(table, x)
    /\ Past(x, "serial") => x.drawn[2] < Width /\ x.serial = SerialOf(x.drawn[1], x.drawn[2])
    /\ Past(x, "after")  => x.asked <= x.validAfter /\ x.validAfter <= t
    /\ Past(x, "before") => x.asked + Lasts(x) <= x.validBefore /\ x.validBefore <= t + Lasts(x)
    /\ Past(x, "expiry") => x.validBefore <= x.expiresAt /\ x.expiresAt <= t + Lasts(x)

CAInv ==
    /\ TypeOK
    /\ \A k \in Keys : keys[k] # NULL => keys[k].created <= now
    /\ \A i \in Instances : proc[i].key # NULL => proc[i].since <= now /\ Signer(keys, proc[i])
    /\ \A c \in Callers : call[c] # Idle => InOrder(keys, call[c], now)
    /\ \A x \in certs : x.pc = "session" /\ x.sessionID <= now /\ InOrder(keys, x, x.sessionID)
=============================================================================
