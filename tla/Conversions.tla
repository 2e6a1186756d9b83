---------------------------- MODULE Conversions ----------------------------
(***************************************************************************)
(* Conversion tracking: which reservations the bot handled and which of    *)
(* them were confirmed afterwards (internal/application/trackconversion,   *)
(* the reservation.updated webhook, and the two ConversionStores).         *)
(*                                                                         *)
(* The file store appends snapshots and reads the newest one of a          *)
(* reservation, so the newest one is all that counts of it.  The Mongo     *)
(* store keeps one document with managed_at, status and converted_at of    *)
(* its own beside the payload; readers take ManagedAt from the payload,    *)
(* which every MarkManaged replaces.                                       *)
(* GetManaged, the write of RecordConversion and, in the file store, the   *)
(* scan inside RecordConversion are separate steps: webhook handlers and   *)
(* the orchestrator run concurrently and hold no lock across them.         *)
(***************************************************************************)
EXTENDS Integers

CONSTANTS Reservations,
          Handlers,     \* concurrent requests of reservation.updated
          Ledgers,      \* the stores a behaviour may be configured with
          NotFound,     \* no record
          MaxManaged,   \* bound: auto-replies in one behaviour
          MaxUpdates    \* bound: confirmed reservation.updated webhooks

ASSUME ConversionsAssumption ==
    /\ Ledgers \subseteq {"file", "mongo"}
    /\ {MaxManaged, MaxUpdates} \subseteq Nat

VARIABLES ledger,     \* the ConversionStore; set when the server is wired
          rec,        \* reservation -> its newest record
          step,       \* handler -> its next step
          arg,        \* handler -> the reservation it is about
          snap,       \* handler -> what RecordConversion of the file store read
          clock,      \* MarkManaged calls so far, which is also the time
          updates,    \* webhooks so far
          counted,    \* reservation -> ticks of the converted counter
          managed,    \* history: reservations stored by MarkManaged
          overlapped, \* history: reservations two handlers were at together
          rewritten   \* history: reservations of the file store whose record
                      \* was marked again, or dropped by a reset

history == <<managed, overlapped, rewritten>>
conversionsVars == <<ledger, rec, step, arg, snap, clock, updates, counted, history>>

Records ==
    [managedAt : 1..MaxManaged,   \* ManagedAt
     status : {"managed", "confirmed"},
     converted : BOOLEAN]         \* ConvertedAt # nil

ASSUME NotFoundAssumption == NotFound \notin Records

ConversionsInit ==
    /\ ledger \in Ledgers
    /\ rec = [r \in Reservations |-> NotFound]
    /\ step = [h \in Handlers |-> "idle"]
    /\ arg \in [Handlers -> Reservations]
    /\ snap = [h \in Handlers |-> NotFound]
    /\ clock = 0
    /\ updates = 0
    /\ counted = [r \in Reservations |-> 0]
    /\ managed = {} /\ overlapped = {} /\ rewritten = {}

-----------------------------------------------------------------------------
Fresh(at) == [managedAt |-> at, status |-> "managed", converted |-> FALSE]

\* Mutant: the upsert replaces the whole document.
upsertReplaces(old, at) == Fresh(at)

(* MarkManaged of the Mongo store: an upsert that keeps converted_at of an *)
(* existing document.                                                      *)
upsert(old, at) ==
    IF old = NotFound THEN Fresh(at)
                      ELSE [old EXCEPT !.managedAt = at, !.status = "managed"]

(* UseCase.MarkManaged, after an auto-reply in a conversation with a       *)
(* reservation; the store may fail.                                        *)
MarkManaged(r) ==
    /\ clock < MaxManaged
    /\ clock' = clock + 1
    /\ \/ /\ rec' = [rec EXCEPT ![r] = IF ledger = "mongo" THEN upsert(@, clock')
                                                           ELSE Fresh(clock')]
          /\ managed' = managed \cup {r}
          /\ rewritten' = IF ledger = "file" /\ rec[r] # NotFound THEN rewritten \cup {r}
                                                                  ELSE rewritten
       \/ UNCHANGED <<rec, managed, rewritten>>
    /\ UNCHANGED <<ledger, step, arg, snap, updates, counted, overlapped>>

(* The newest record of a reservation.                                     *)
GetManaged(r) == rec[r]

(* The webhook reservation.updated: the request, signed and well-formed,   *)
(* is on its way to the tracker.                                           *)
Updated(h, r) ==
    /\ step[h] = "idle"
    /\ updates < MaxUpdates
    /\ updates' = updates + 1
    /\ arg' = [arg EXCEPT ![h] = r]

(* Handler h passes the tests and goes on to RecordConversion.             *)
Passes(h, r) ==
    /\ step' = [step EXCEPT ![h] = "record"]
    /\ overlapped' = IF \E g \in Handlers : step[g] # "idle" /\ arg[g] = r
                       THEN overlapped \cup {r}
                       ELSE overlapped

\* Mutant: ConvertedAt is not looked at.
ReservationUpdatedAgain(h, r) ==
    /\ Updated(h, r)
    /\ \/ GetManaged(r) # NotFound /\ Passes(h, r)
       \/ UNCHANGED <<step, overlapped>>
    /\ UNCHANGED <<ledger, rec, snap, clock, counted, managed, rewritten>>

(* The reservation.updated webhook: ReservationUpdated with a confirmed    *)
(* status, up to the test of ConvertedAt; a missing or converted record,   *)
(* or a failing lookup, ends it.  Other statuses change nothing.           *)
ReservationUpdated(h, r) ==
    /\ Updated(h, r)
    /\ \/ GetManaged(r) # NotFound /\ ~GetManaged(r).converted /\ Passes(h, r)
       \/ UNCHANGED <<step, overlapped>>
    /\ UNCHANGED <<ledger, rec, snap, clock, counted, managed, rewritten>>

(* The end of RecordConversion: it returned nil and the counter ticks, or  *)
(* an error, after a write that was done all the same (a failed sync, a    *)
(* lost answer) or was not.                                                *)
Converts(h, record) ==
    /\ step' = [step EXCEPT ![h] = "idle"]
    /\ \/ /\ rec' = [rec EXCEPT ![arg[h]] = record]
          /\ counted' = [counted EXCEPT ![arg[h]] = @ + 1]
       \/ /\ rec' \in {rec, [rec EXCEPT ![arg[h]] = record]}
          /\ UNCHANGED counted

(* RecordConversion of the Mongo store: one UpdateOne.                     *)
RecordConversionMongo(h) ==
    /\ ledger = "mongo"
    /\ step[h] = "record"
    /\ rec[arg[h]] # NotFound
    /\ Converts(h, [rec[arg[h]] EXCEPT !.status = "confirmed", !.converted = TRUE])
    /\ UNCHANGED <<ledger, arg, snap, clock, updates, history>>

(* RecordConversion of the file store: scan, then append what was read     *)
(* with the new status.                                                    *)
RecordConversionScan(h) ==
    /\ ledger = "file"
    /\ step[h] = "record"
    /\ snap' = [snap EXCEPT ![h] = GetManaged(arg[h])]
    /\ step' = [step EXCEPT ![h] = IF GetManaged(arg[h]) = NotFound THEN "idle" ELSE "append"]
    /\ UNCHANGED <<ledger, rec, arg, clock, updates, counted, history>>

RecordConversionAppend(h) ==
    /\ step[h] = "append"
    /\ Converts(h, [snap[h] EXCEPT !.status = "confirmed", !.converted = TRUE])
    /\ UNCHANGED <<ledger, arg, snap, clock, updates, history>>

(* The demo's reset: only the file store has one.                          *)
ConversionsReset ==
    /\ ledger = "file"
    /\ rec' = [r \in Reservations |-> NotFound]
    /\ rewritten' = rewritten \cup {r \in Reservations : rec[r] # NotFound}
    /\ UNCHANGED <<ledger, step, arg, snap, clock, updates, counted, managed, overlapped>>

ConversionsNext ==
    \/ \E r \in Reservations : MarkManaged(r)
    \/ \E h \in Handlers, r \in Reservations : ReservationUpdated(h, r)
    \/ \E h \in Handlers :
          \/ RecordConversionMongo(h)
          \/ RecordConversionScan(h)
          \/ RecordConversionAppend(h)
    \/ ConversionsReset

ConversionsSpec == ConversionsInit /\ [][ConversionsNext]_conversionsVars

-----------------------------------------------------------------------------
(* Every variable holds a value of its type.                               *)
ConversionsTypeOK ==
    /\ ledger \in Ledgers
    /\ rec \in [Reservations -> Records \cup {NotFound}]
    /\ step \in [Handlers -> {"idle", "record", "append"}]
    /\ arg \in [Handlers -> Reservations]
    /\ snap \in [Handlers -> Records \cup {NotFound}]
    /\ clock \in 0..MaxManaged
    /\ updates \in 0..MaxUpdates
    /\ counted \in [Reservations -> Nat]
    /\ managed \in SUBSET Reservations
    /\ overlapped \in SUBSET Reservations
    /\ rewritten \in SUBSET Reservations

(* The counter ticks only for a reservation the bot handled before, in     *)
(* either store and through a reset in between.                            *)
CountedWereManaged == \A r \in Reservations : counted[r] > 0 => r \in managed

(* The test of ConvertedAt does its work as long as handlers of one        *)
(* reservation do not meet between the test and the write, and the file    *)
(* store is not told again that the reservation is managed: then it counts *)
(* once, however often Guesty confirms it and whatever writes fail.        *)
CountedOnceAlone ==
    \A r \in Reservations : r \notin overlapped \cup rewritten => counted[r] <= 1

(* The tally of ReservationUpdated: well-formed, of managed reservations   *)
(* only, and a second count needs handlers that overlap or a record the    *)
(* file store replaced.                                                    *)
CountInv == ConversionsTypeOK /\ CountedWereManaged /\ CountedOnceAlone

(* ReservationUpdated on a second confirmation: "already counted;          *)
(* idempotent", and its test: "double convert leaked".  The code does not  *)
(* keep this: two handlers may both read ConvertedAt = nil, and in the     *)
(* file store an auto-reply after the conversion takes ConvertedAt away.   *)
CountedOnce == \A r \in Reservations : counted[r] <= 1

(* What the counter has counted stays converted for the dashboard,         *)
(* whatever later auto-replies and concurrent webhooks write: always on    *)
(* Mongo, whose upsert keeps converted_at, and in the file store until     *)
(* MarkManaged appends a fresh record or a reset drops it.                 *)
CountedStayConverted ==
    \A r \in Reservations : counted[r] > 0 /\ r \notin rewritten => rec[r].converted
=============================================================================
