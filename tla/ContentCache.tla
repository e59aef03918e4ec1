---------------------------- MODULE ContentCache ----------------------------
(***************************************************************************)
(* What the gateway may expect of its cache, without the indexes that      *)
(* implement it: a set of bodies by key, at most MaxSize bytes in all,     *)
(* from which an insert drops bodies only while the new one does not fit,  *)
(* and a clean-up drops expired ones.  A body never changes while it is    *)
(* cached.  Module Tlrfu implements this specification.                    *)
(***************************************************************************)
EXTENDS Integers, FiniteSets, FiniteSetsExt, Maps

CONSTANTS Keys, Lengths, MaxSize,
          ExpiryMayFail  \* the expiry index may lose entries

ASSUME MayFailAssumption == ExpiryMayFail \in BOOLEAN
ASSUME BytesAssumption   == MaxSize \in Nat /\ Lengths \subseteq Nat

VARIABLES
    content,    \* key -> length of the body cached under it
    call, ret   \* as in Tlrfu

ccVars == <<content, call, ret>>

NoCall    == [op |-> "none"]
CleanCall == [op |-> "clean"]

Bytes(c) == MapThenSumSet(LAMBDA k : c[k], DOMAIN c)

CcInit == content = EmptyMap /\ call = NoCall /\ ret = "ok"

Idle == call = NoCall

Answer(r) == call' = NoCall /\ ret' = r

CcGet(k) ==
    /\ Idle
    /\ \/ k \notin DOMAIN content /\ Answer("absent")
       \/ k \in DOMAIN content /\ Answer("ok")
       \/ k \in DOMAIN content /\ ExpiryMayFail /\ Answer("stale")
    /\ UNCHANGED content

CcInsert(k, n) ==
    /\ Idle
    /\ IF k \in DOMAIN content
         THEN Answer("exists")
         ELSE call' = [op |-> "insert", key |-> k, len |-> n] /\ UNCHANGED ret
    /\ UNCHANGED content

Drop(k) == content' = Del(content, k) /\ UNCHANGED <<call, ret>>

\* Something is dropped only because the new body does not fit.
CcEvict ==
    /\ call.op = "insert"
    /\ Bytes(content) + call.len > MaxSize
    /\ \E k \in DOMAIN content : Drop(k)

\* An insert fails only for a body larger than the whole cache, and only
\* after everything else has been dropped.
CcTooBig ==
    /\ call.op = "insert"
    /\ call.len > MaxSize
    /\ content = EmptyMap
    /\ Answer("toobig")
    /\ UNCHANGED content

CcStore ==
    /\ call.op = "insert"
    /\ content' = Put(content, call.key, call.len)
    /\ Bytes(content') =< MaxSize
    /\ Answer("ok")

CcCleanBegin == Idle /\ call' = CleanCall /\ UNCHANGED <<content, ret>>

CcExpire == call.op = "clean" /\ \E k \in DOMAIN content : Drop(k)

CcCleanEnd ==
    /\ call.op = "clean"
    /\ \/ Answer("ok")
       \/ ExpiryMayFail /\ Answer("orphan")
    /\ UNCHANGED content

CcPurge == Idle /\ content' = EmptyMap /\ UNCHANGED <<call, ret>>

CcLoopStep == CcEvict \/ CcTooBig \/ CcStore \/ CcExpire \/ CcCleanEnd

CcNext ==
    \/ \E k \in Keys : CcGet(k)
    \/ \E k \in Keys, n \in Lengths : CcInsert(k, n)
    \/ CcCleanBegin
    \/ CcPurge
    \/ CcLoopStep

CcSpec == CcInit /\ [][CcNext]_ccVars
=============================================================================
