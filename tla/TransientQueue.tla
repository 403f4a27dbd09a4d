--------------------------- MODULE TransientQueue ---------------------------
(***************************************************************************)
(* RedisTransientQueue.enqueue of src/athena/persistence.py: one SET with   *)
(* NX and EX.  The key of an item is the digest of its payload, so that a   *)
(* retry meets what an earlier call has left, whatever time and lifetime    *)
(* its wrapper has.  The answer of a call may be lost.  Redis is external:  *)
(* it drops an item when its lifetime ends.  Nothing in src/ takes items    *)
(* out of the queue; refused payloads (too large, prohibited fields) and    *)
(* lifetimes outside the policy raise before the call and are left out.     *)
(***************************************************************************)
EXTENDS RuntimeClients, Functions

CONSTANTS Items,    \* payloads
          MaxTTL,   \* policy: the longest lifetime
          MaxNow    \* bound: the clock stops here

ASSUME QueueAssumption == MaxTTL \in Nat \ {0} /\ MaxNow \in Nat

VARIABLES queue,    \* lifetimes: the keys in Redis, and when each ends
          now,      \* the clock of Redis
          answers   \* history: calls and what their callers were told

queueVars == <<queue, now, answers>>

QueueInit == queue = [k \in {} |-> 0] /\ now = 0 /\ answers = {}

WrapperKey(item) == <<item, now>>                                     \* fault
ItemKey(item) == item

Stores(key) == key \notin DOMAIN queue

Set(key, ttl) == IF Stores(key)
                 THEN [k \in DOMAIN queue \cup {key} |-> IF k = key THEN now + ttl ELSE queue[k]]
                 ELSE queue
Answer(item, ttl, told) ==
    answers' = answers \cup {[item |-> item, at |-> now, until |-> now + ttl, told |-> told]}

Enqueue(p, item, ttl) ==
    /\ Begins(p, "idle")
    /\ queue' = Set(ItemKey(item), ttl)
    /\ Answer(item, ttl, IF Stores(ItemKey(item)) THEN "stored" ELSE "refused")
    /\ UNCHANGED now

(* The caller learns nothing of a call that Redis may or may not have run. *)
EnqueueUnanswered(p, item, ttl) ==
    /\ At(p, "idle") /\ Faulty(p, "idle")
    /\ queue' \in {queue, Set(ItemKey(item), ttl)}
    /\ UNCHANGED <<now, answers>>

Tick ==
    /\ now < MaxNow
    /\ now' = now + 1
    /\ queue' = Restrict(queue, {k \in DOMAIN queue : queue[k] > now + 1})
    /\ UNCHANGED <<clientVars, answers>>

QueueNext == \/ \E p \in Procs, item \in Items, ttl \in 1..MaxTTL :
                    Enqueue(p, item, ttl) \/ EnqueueUnanswered(p, item, ttl)
             \/ Tick

-----------------------------------------------------------------------------
QueueTypeOK ==
    /\ queue \in [DOMAIN queue -> 1..MaxNow + MaxTTL]
    /\ answers \subseteq [item : Items, at : 0..MaxNow, until : 1..MaxNow + MaxTTL,
                          told : {"stored", "refused"}]

(* No two callers are told "stored" for one item within its lifetime, even *)
(* when they enqueue it at other times, for other lifetimes or again after *)
(* an answer was lost: an item of the queue was accepted at most once.     *)
StoredOncePerLifetime ==
    \A a, b \in answers :
        a.item = b.item /\ a.told = "stored" /\ b.told = "stored" /\ a.at <= b.at =>
            a = b \/ a.until <= b.at
=============================================================================
