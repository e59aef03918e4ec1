------------------------------ MODULE Tracker -------------------------------
(***************************************************************************)
(* The node tracker (ursa-tracker/src/main.rs): handlers of /register,      *)
(* which look the sender up before they write its entry, and of /http_sd,   *)
(* which lists the recent entries.  Handlers run on several threads.  Of a  *)
(* Node the model keeps the id, which is the key of its entry, and          *)
(* last_registered.  The lookup at ipinfo.io is external: it answers,       *)
(* fails, or never returns.  The tracker's clock is assumed not to be set   *)
(* back; SystemTime itself does not promise that.                           *)
(***************************************************************************)
EXTENDS Integers, Maps

CONSTANTS
    Ids,       \* peer ids
    Handlers,  \* concurrent calls of registration_handler
    Month,     \* 2629800000 ms
    U64,       \* 2^64
    MaxTime    \* bound on the clock

ASSUME TrackerAssumption ==
    /\ Month \in Nat \ {0} /\ MaxTime \in Nat
    /\ U64 \in Nat /\ Month + MaxTime < U64

VARIABLES
    clock,   \* the tracker's SystemTime
    db,      \* id -> last_registered
    reg,     \* what each registration handler is doing
    sd,      \* the listing being made
    acked    \* id -> the latest arrival of a registration that was answered
             \* OK and arrived while no other of the id was being written

trackerVars == <<clock, db, reg, sd, acked>>

Free == [pc |-> "free"]

Registering(h) == reg[h].pc # "free"

TrackerInit ==
    /\ clock = 0
    /\ db = EmptyMap
    /\ reg = [h \in Handlers |-> Free]
    /\ sd = Free
    /\ acked = EmptyMap

\* Time passes.
Tick ==
    /\ clock < MaxTime
    /\ clock' = clock + 1
    /\ UNCHANGED <<db, reg, sd, acked>>
-----------------------------------------------------------------------------
\* No entry of id has been stamped and not been written yet.
NoneStamped(id) == \A g \in Handlers : reg[g].pc = "store" => reg[g].id # id

\* registration_handler up to the await of get_ip_info.
registration_handler(h, id) ==
    /\ reg[h] = Free
    /\ reg' = [reg EXCEPT ![h] = [pc |-> "lookup", id |-> id, arrived |-> clock,
                                  clear |-> NoneStamped(id)]]
    /\ UNCHANGED <<clock, db, sd, acked>>

\* The lookup fails and the handler answers SERVICE_UNAVAILABLE, or the
\* sender closes its connection and the handler is dropped.
get_ip_info_fails(h) ==
    /\ reg[h].pc = "lookup"
    /\ reg' = [reg EXCEPT ![h] = Free]
    /\ UNCHANGED <<clock, db, sd, acked>>

\* Mutant: the entry is stamped with the time the node was last seen.
from_info_keeping_stamp(h) ==
    /\ reg[h].pc = "lookup"
    /\ reg' = [reg EXCEPT ![h] = [pc |-> "store", id |-> reg[h].id,
                                  arrived |-> reg[h].arrived,
                                  clear |-> reg[h].clear,
                                  last_registered |-> GetOr(db, reg[h].id, clock)]]
    /\ UNCHANGED <<clock, db, sd, acked>>

\* The lookup answers and the entry is stamped.
from_info(h) ==
    /\ reg[h].pc = "lookup"
    /\ reg' = [reg EXCEPT ![h] = [pc |-> "store", id |-> reg[h].id,
                                  arrived |-> reg[h].arrived,
                                  clear |-> reg[h].clear,
                                  last_registered |-> clock]]
    /\ UNCHANGED <<clock, db, sd, acked>>

\* The entry is written, over any earlier one of the id, and OK answered.
db_write(h) ==
    /\ reg[h].pc = "store"
    /\ db' = Put(db, reg[h].id, reg[h].last_registered)
    /\ acked' = IF reg[h].clear /\ GetOr(acked, reg[h].id, 0) <= reg[h].arrived
                THEN Put(acked, reg[h].id, reg[h].arrived) ELSE acked
    /\ reg' = [reg EXCEPT ![h] = Free]
    /\ UNCHANGED <<clock, sd>>

db_write_fails(h) ==
    /\ reg[h].pc = "store"
    /\ reg' = [reg EXCEPT ![h] = Free]
    /\ UNCHANGED <<clock, db, sd, acked>>
-----------------------------------------------------------------------------
\* http_sd_handler reads the clock.
http_sd_handler ==
    /\ sd.pc # "reading"
    /\ sd' = [pc |-> "reading", now |-> clock]
    /\ UNCHANGED <<clock, db, reg, acked>>

\* now - last_registered < Month in u64.  A release build wraps.
recent(now, last_registered) == (now - last_registered) % U64 < Month

\* The iterator, which sees the database as it was when it was made, and
\* the filter.
http_sd_list ==
    /\ sd.pc = "reading"
    /\ sd' = [pc |-> "listed",
              services |-> {id \in DOMAIN db : recent(sd.now, db[id])}]
    /\ UNCHANGED <<clock, db, reg, acked>>

\* A build with overflow checks panics on an entry stamped after now.
http_sd_panics ==
    /\ sd.pc = "reading"
    /\ \E id \in DOMAIN db : db[id] > sd.now
    /\ sd' = Free
    /\ UNCHANGED <<clock, db, reg, acked>>

\* The tracker ends and is started again: the database is on disk.
TrackerLost ==
    /\ reg' = [h \in Handlers |-> Free]
    /\ sd' = Free
    /\ UNCHANGED <<clock, db, acked>>

TrackerStep ==
    \/ Tick \/ http_sd_handler \/ http_sd_list \/ http_sd_panics \/ TrackerLost
    \/ \E h \in Handlers : \/ get_ip_info_fails(h) \/ from_info(h)
                           \/ db_write(h) \/ db_write_fails(h)
-----------------------------------------------------------------------------
(* Properties *)

Times == 0..MaxTime

TrackerTypeOK ==
    /\ clock \in Times
    /\ IsMap(db, Ids, Times) /\ IsMap(acked, Ids, Times)
    /\ reg \in [Handlers ->
                   {Free}
                   \cup [pc : {"lookup"}, id : Ids, arrived : Times,
                         clear : BOOLEAN]
                   \cup [pc : {"store"}, id : Ids, arrived : Times,
                         clear : BOOLEAN, last_registered : Times]]
    /\ sd \in {Free} \cup [pc : {"reading"}, now : Times]
                    \cup [pc : {"listed"}, services : SUBSET Ids]

\* A node whose registration arrived less than a month before the listing
\* read the clock, and was answered OK before it read the database, is
\* listed (main.rs:123), unless it registered again in between: its entry is
\* then stamped after the listing's clock.  The latest such registration
\* counts, in whichever order lookups end and entries are written: a slower
\* and older registration may overwrite its entry, but not with a stamp from
\* before it arrived, save one that was already taken by then.
RegisteredAreListed ==
    [][http_sd_list =>
           \A id \in DOMAIN acked :
               sd.now - acked[id] < Month =>
                   id \in sd'.services \/ db[id] > sd.now]_trackerVars
=============================================================================
