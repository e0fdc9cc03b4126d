------------------------ MODULE BookingWrites_proofs ------------------------
(***************************************************************************)
(* What BookingWrites guarantees for any bookings, venues, guests, saves   *)
(* and capacities.                                                         *)
(***************************************************************************)
EXTENDS BookingWrites, FiniteSetTheorems, TLAPS

-----------------------------------------------------------------------------
\* Types.

LEMMA SomeSlot == (CHOOSE slot \in Slots : TRUE) \in Slots
BY SlotsAssumption

LEMMA NoRowIsRow == NoRow \in Row
BY SomeSlot DEF NoRow, Row

LEMMA IdleIsSave == Idle \in Save
BY NoRowIsRow, BookingsAssumption DEF Idle, Save, Phases, Actors

\* A row with its status and its slot changed is a row.
LEMMA RowWith ==
    ASSUME NEW r \in Row, NEW status \in Statuses \cup {"absent"}, NEW slot \in Slots
    PROVE  /\ [r EXCEPT !.status = status] \in Row
           /\ [r EXCEPT !.status = status, !.slot = slot] \in Row
BY DEF Row

\* So is a save with its phase and the status it writes changed.
LEMMA SaveWith ==
    ASSUME NEW r \in Save, NEW phase \in Phases, NEW status \in Statuses \cup {"absent"}
    PROVE  [r EXCEPT !.phase = phase, !.new = [@ EXCEPT !.status = status]] \in Save
<1>1. r.new \in Row
  BY DEF Save
<1>2. [r.new EXCEPT !.status = status] \in Row
  BY <1>1, SomeSlot, RowWith
<1> QED BY <1>2 DEF Save

LEMMA Clock == Instants \subseteq Nat /\ ClockEnd \in Instants
BY InstantsAssumption DEF Instants

\* Releasing a save's locks leaves every lock with a save, or with no one.
LEMMA ReleasedType ==
    ASSUME NEW X, NEW lock \in [X -> Saves \cup {NoSave}], NEW s
    PROVE  Released(lock, s) \in [X -> Saves \cup {NoSave}]
BY DEF Released

LEMMA RefuseTypeOK == ASSUME TypeOK, NEW s \in Saves, Refuse(s) PROVE TypeOK'
<1>1. save' \in [Saves -> Save]
  BY IdleIsSave DEF TypeOK, Refuse, Finish
<1>2. /\ rowLock' \in [Bookings -> Saves \cup {NoSave}]
      /\ venueLock' \in [Venues -> Saves \cup {NoSave}]
      /\ customerLock' \in [Customers -> Saves \cup {NoSave}]
  BY ReleasedType DEF TypeOK, Refuse, Finish
<1> QED BY <1>1, <1>2 DEF TypeOK, Refuse

LEMMA GotoType ==
    ASSUME save \in [Saves -> Save], NEW s \in Saves, NEW phase \in Phases, Goto(s, phase)
    PROVE  save' \in [Saves -> Save]
BY DEF Goto, Save

LEMMA AfterCapacityType == ASSUME NEW s \in Saves PROVE AfterCapacity(s) \in Phases
BY DEF AfterCapacity, Phases

\* Every operation of a save and of its environment keeps the types.
LEMMA TypeStep == TypeOK /\ [Next]_vars => TypeOK'
<1> SUFFICES ASSUME TypeOK, [Next]_vars PROVE TypeOK'
  OBVIOUS
<1>1. ASSUME NEW s \in Saves, NEW b \in Bookings, NEW by \in Writers, NEW status \in Statuses,
             NEW slot \in Slots, NEW request \in Requests \cup {NoRequest},
             OpenCreate(s, b, by, status, slot, request)
      PROVE  TypeOK'
  <2>1. [status |-> status, slot |-> slot, request |-> request] \in Row
    BY DEF Row
  <2>2. save' \in [Saves -> Save]
    BY <1>1, <2>1, NoRowIsRow, InputsAssumption DEF OpenCreate, TypeOK, Save, Phases
  <2> QED BY <1>1, <2>2 DEF OpenCreate, TypeOK, locks
<1>2. ASSUME NEW s \in Saves, NEW b \in Bookings, NEW by \in Writers, NEW to \in Statuses,
             NEW slot \in Slots, OpenChange(s, b, by, to, slot)
      PROVE  TypeOK'
  <2>1. row[b] \in Row /\ [row[b] EXCEPT !.status = to, !.slot = slot] \in Row
    BY RowWith DEF TypeOK
  <2>2. save' \in [Saves -> Save]
    BY <1>2, <2>1, InputsAssumption DEF OpenChange, TypeOK, Save, Phases
  <2> QED BY <1>2, <2>2 DEF OpenChange, TypeOK, locks
<1>3. ASSUME NEW s \in Saves, NEW b \in Bookings, OpenExpiry(s, b)
      PROVE  TypeOK'
  <2>1. row[b] \in Row /\ [row[b] EXCEPT !.status = "cancelled"] \in Row
    BY RowWith, SomeSlot DEF TypeOK, Statuses
  <2>2. save' \in [Saves -> Save]
    BY <1>3, <2>1 DEF OpenExpiry, TypeOK, Save, Phases, Actors
  <2> QED BY <1>3, <2>2 DEF OpenExpiry, TypeOK, locks
<1>4. ASSUME NEW s \in Saves, GuardCreate(s)
      PROVE  TypeOK'
  <2>1. CASE Refuse(s)
    BY <2>1, RefuseTypeOK
  <2>2. CASE ~Refuse(s)
    <3> DEFINE status == IF save[s].by = "staff" THEN save[s].new.status
                 ELSE IF VenueOf[save[s].booking] \in AutoConfirm THEN "confirmed" ELSE "pending"
    <3>1. status \in Statuses \cup {"absent"}
      BY DEF TypeOK, Save, Row, Statuses
    <3> HIDE DEF status
    <3>2. save' = [save EXCEPT ![s].phase = "capacity", ![s].new = [@ EXCEPT !.status = status]]
      BY <1>4, <2>2 DEF GuardCreate, status
    <3>3. [save[s] EXCEPT !.phase = "capacity", !.new = [@ EXCEPT !.status = status]] \in Save
      BY <3>1, SaveWith DEF TypeOK, Phases
    <3>4. save' \in [Saves -> Save]
      BY <3>2, <3>3 DEF TypeOK
    <3> QED BY <1>4, <2>2, <3>4 DEF GuardCreate, TypeOK, locks
  <2> QED BY <2>1, <2>2
<1>5. ASSUME NEW s \in Saves, GuardChange(s)
      PROVE  TypeOK'
  <2>1. CASE Refuse(s)
    BY <2>1, RefuseTypeOK
  <2>2. CASE ~Refuse(s)
    <3>1. save' \in [Saves -> Save]
      BY <1>5, <2>2, GotoType DEF GuardChange, TypeOK, Phases
    <3>2. rowLock' \in [Bookings -> Saves \cup {NoSave}]
      BY <1>5, <2>2 DEF GuardChange, TypeOK
    <3> QED BY <1>5, <2>2, <3>1, <3>2 DEF GuardChange, TypeOK
  <2> QED BY <2>1, <2>2
<1>6. ASSUME NEW s \in Saves, LockRow(s)
      PROVE  TypeOK'
  <2>1. save' \in [Saves -> Save]
    BY <1>6, GotoType DEF LockRow, TypeOK, Phases
  <2> QED BY <1>6, <2>1 DEF LockRow, TypeOK
<1>7. ASSUME NEW s \in Saves, CapacityTrigger(s)
      PROVE  TypeOK'
  <2>1. CASE Refuse(s)
    BY <2>1, RefuseTypeOK
  <2>2. CASE ~Refuse(s)
    <3>1. save' \in [Saves -> Save]
      BY <1>7, <2>2, GotoType, AfterCapacityType DEF CapacityTrigger, TypeOK
    <3>2. venueLock' \in [Venues -> Saves \cup {NoSave}]
      BY <1>7, <2>2 DEF CapacityTrigger, TypeOK, locks
    <3> QED BY <1>7, <2>2, <3>1, <3>2 DEF CapacityTrigger, TypeOK, locks
  <2> QED BY <2>1, <2>2
<1>8. ASSUME NEW s \in Saves, LimitTrigger(s)
      PROVE  TypeOK'
  <2>1. CASE Refuse(s)
    BY <2>1, RefuseTypeOK
  <2>2. CASE ~Refuse(s)
    <3>1. save' \in [Saves -> Save]
      BY <1>8, <2>2, GotoType DEF LimitTrigger, TypeOK, Phases
    <3> QED BY <1>8, <2>2, <3>1 DEF LimitTrigger, TypeOK
  <2> QED BY <2>1, <2>2
<1>9. ASSUME NEW s \in Saves, UniqueIndex(s)
      PROVE  TypeOK'
  <2>1. CASE Refuse(s)
    BY <2>1, RefuseTypeOK
  <2>2. CASE ~Refuse(s)
    <3>1. save' \in [Saves -> Save]
      BY <1>9, <2>2, GotoType DEF UniqueIndex, TypeOK, Phases
    <3> QED BY <1>9, <2>2, <3>1 DEF UniqueIndex, TypeOK, locks
  <2> QED BY <2>1, <2>2
<1>10. ASSUME NEW s \in Saves, Commit(s)
       PROVE  TypeOK'
  <2>1. save' \in [Saves -> Save]
    BY <1>10, IdleIsSave DEF Commit, Finish, TypeOK
  <2>2. row' \in [Bookings -> Row]
    BY <1>10 DEF Commit, TypeOK, Save
  <2>3. /\ rowLock' \in [Bookings -> Saves \cup {NoSave}]
        /\ venueLock' \in [Venues -> Saves \cup {NoSave}]
        /\ customerLock' \in [Customers -> Saves \cup {NoSave}]
    BY <1>10, ReleasedType DEF TypeOK, Commit, Finish
  <2> QED BY <1>10, <2>1, <2>2, <2>3 DEF Commit, TypeOK
<1>11. ASSUME NEW s \in Saves, Crash(s)
       PROVE  TypeOK'
  BY <1>11, RefuseTypeOK DEF Crash
<1>12. CASE Environment
  BY <1>12, InstantsAssumption, LimitsAssumption DEF Environment, SetCapacity, CloseAccount, Tick, TypeOK, locks, Instants
<1>13. CASE UNCHANGED vars
  BY <1>13 DEF vars, locks, TypeOK
<1> QED
  BY <1>1, <1>2, <1>3, <1>4, <1>5, <1>6, <1>7, <1>8, <1>9, <1>10, <1>11, <1>12, <1>13
  DEF Next, Open, Proceed

LEMMA TypeInit == Init => TypeOK
BY NoRowIsRow, IdleIsSave, InstantsAssumption DEF Init, TypeOK, Instants

\* Every variable keeps its type, whatever saves interleave.
THEOREM TypeCorrect == Spec => []TypeOK
<1>1. Init => TypeOK
  BY TypeInit
<1>2. TypeOK /\ [Next]_vars => TypeOK'
  BY TypeStep
<1> QED BY <1>1, <1>2, PTL DEF Spec

-----------------------------------------------------------------------------
\* The inductive invariant: what each save has established by the phase it is
\* in, and still holds when it commits.

\* Past the guard with a change of status, or past the row lock.
WritesRow(s) ==
    /\ save[s].kind = "change"
    /\ \/ save[s].phase \in {"capacity", "commit"}
       \/ save[s].phase = "lock" /\ ChangesStatus(s)

HoldsRow(s) == WritesRow(s) => rowLock[save[s].booking] = s

\* A create is for a booking that is not stored, a change for one that is.
Stored(s) ==
    save[s].phase # "idle" =>
        (save[s].kind = "create" <=> row[save[s].booking].status = "absent")

\* Past the capacity trigger, about to hold a place.
TakesPlace(s) ==
    /\ save[s].phase \in {"limit", "index", "commit"}
    /\ save[s].new.status \in Occupying

\* Rivals and Seated, of any table.
RivalsIn(table, b, slot) ==
    {x \in Bookings \ {b} : /\ VenueOf[x] = VenueOf[b]
                            /\ table[x].status \in Occupying
                            /\ Overlaps(table[x].slot, slot)}

SeatedIn(table, v, t) ==
    {b \in Bookings : /\ VenueOf[b] = v
                      /\ table[b].status \in Occupying
                      /\ Covers(table[b].slot, t)}

HasRoom(table, most, b, slot) == Cardinality(RivalsIn(table, b, slot)) < most[VenueOf[b]]

HoldsPlace(s) ==
    TakesPlace(s) => /\ venueLock[VenueOf[save[s].booking]] = s
                     /\ HasRoom(row, peak, save[s].booking, save[s].new.slot)

WritesStatus(s) == save[s].phase # "idle" => save[s].new.status # "absent"

\* AnswersAreCurrent, of one save.
Current(s) ==
    save[s].phase \in {"lock", "capacity", "commit"} /\ ChangesStatus(s) =>
        row[save[s].booking].status = save[s].seen.status

\* The guard's verdict, as far as it does not depend on the clock.
Lawful(s) ==
    save[s].kind = "change" /\ save[s].phase \in {"lock", "capacity", "commit"} =>
        /\ CanTransition(save[s].seen.status, save[s].new.status)
        /\ CanActorTransition(save[s].by, save[s].seen.status, save[s].new.status)
        /\ save[s].auto => save[s].seen.status = "pending"

\* Only a change goes to the row lock, only a create to the limit and the index.
OnPath(s) ==
    /\ save[s].phase = "lock" => save[s].kind = "change"
    /\ save[s].phase \in {"limit", "index"} => save[s].kind = "create"

Creates(s) == save[s].phase # "idle" /\ save[s].kind = "create"

\* Past the limit trigger with a request.
HoldsAccount(s) ==
    Creates(s) /\ save[s].phase \in {"index", "commit"} /\ save[s].new.status = "pending" =>
        /\ customerLock[CustomerOf[save[s].booking]] = s
        /\ CustomerOf[save[s].booking] \notin closed

\* A change keeps the attempt id of the booking; a create about to commit has
\* one that no booking has.
KeepsRequest(s) ==
    save[s].phase # "idle" /\ save[s].kind = "change" =>
        save[s].new.request = row[save[s].booking].request

Inserted(s) ==
    Creates(s) /\ save[s].phase = "commit" /\ save[s].new.request # NoRequest

OwnsRequest(s) ==
    Inserted(s) => \A b \in Bookings : row[b].request # save[s].new.request

Own(s) ==
    /\ HoldsRow(s)
    /\ Stored(s)
    /\ HoldsPlace(s)
    /\ WritesStatus(s)
    /\ Current(s)
    /\ Lawful(s)
    /\ OnPath(s)
    /\ HoldsAccount(s)
    /\ KeepsRequest(s)
    /\ OwnsRequest(s)

\* Two creates are never for one booking, nor about to commit one attempt.
Apart(s, t) ==
    /\ Creates(s) /\ Creates(t) => save[s].booking # save[t].booking
    /\ Inserted(s) /\ Inserted(t) => save[s].new.request # save[t].new.request

UnderPeak == \A v \in Venues : capacity[v] <= peak[v]

Table == NeverOverbooked /\ UnderPeak /\ OneBookingPerRequest

IInv ==
    /\ TypeOK
    /\ Table
    /\ \A s \in Saves : Own(s)
    /\ \A s, t \in Saves : s # t => Apart(s, t)

-----------------------------------------------------------------------------
\* The two counts.

LEMMA RivalsAre == \A b, slot : Rivals(b, slot) = RivalsIn(row, b, slot)
BY DEF Rivals, RivalsIn, Occupies

LEMMA SeatedAre == NeverOverbooked <=>
                       \A v \in Venues, t \in Instants : Cardinality(SeatedIn(row, v, t)) <= peak[v]
BY DEF NeverOverbooked, Seated, SeatedIn, Occupies

LEMMA SeatedAreNext == NeverOverbooked' <=>
                       \A v \in Venues, t \in Instants : Cardinality(SeatedIn(row', v, t)) <= peak'[v]
BY DEF NeverOverbooked, Seated, SeatedIn, Occupies

LEMMA RivalsFinite ==
    ASSUME NEW table, NEW b, NEW slot
    PROVE  /\ IsFiniteSet(RivalsIn(table, b, slot))
           /\ Cardinality(RivalsIn(table, b, slot)) \in Nat
<1>1. RivalsIn(table, b, slot) \subseteq Bookings
  BY DEF RivalsIn
<1> QED BY <1>1, FS_Subset, FS_CardinalityType, BookingsAssumption

LEMMA SeatedFinite ==
    ASSUME NEW table, NEW v, NEW t
    PROVE  /\ IsFiniteSet(SeatedIn(table, v, t))
           /\ Cardinality(SeatedIn(table, v, t)) \in Nat
<1>1. SeatedIn(table, v, t) \subseteq Bookings
  BY DEF SeatedIn
<1> QED BY <1>1, FS_Subset, FS_CardinalityType, BookingsAssumption

\* Giving up a place, or taking none, adds to no count.
LEMMA FewerRivals ==
    ASSUME NEW table, NEW next, NEW b, NEW slot, NEW x,
           \A y \in Bookings \ {x} : next[y] = table[y],
           VenueOf[x] # VenueOf[b] \/ x = b \/ next[x].status \notin Occupying
    PROVE  Cardinality(RivalsIn(next, b, slot)) <= Cardinality(RivalsIn(table, b, slot))
<1>1. RivalsIn(next, b, slot) \subseteq RivalsIn(table, b, slot)
  BY DEF RivalsIn
<1> QED BY <1>1, RivalsFinite, FS_Subset

LEMMA FewerSeated ==
    ASSUME NEW table, NEW next, NEW v, NEW t, NEW x,
           \A y \in Bookings \ {x} : next[y] = table[y],
           \/ VenueOf[x] # v
           \/ next[x].status \notin Occupying
           \/ ~Covers(next[x].slot, t)
    PROVE  Cardinality(SeatedIn(next, v, t)) <= Cardinality(SeatedIn(table, v, t))
<1>1. SeatedIn(next, v, t) \subseteq SeatedIn(table, v, t)
  BY DEF SeatedIn
<1> QED BY <1>1, SeatedFinite, FS_Subset

\* Every booking that shares an instant with x shares x's interval: those at
\* the venue at any instant of it are x and the rivals x was counted against.
LEMMA SeatedWithRivals ==
    ASSUME NEW table \in [Bookings -> Row], NEW next, NEW x \in Bookings, NEW t \in Instants,
           \A y \in Bookings \ {x} : next[y] = table[y],
           next[x].slot \in Slots, Covers(next[x].slot, t)
    PROVE  Cardinality(SeatedIn(next, VenueOf[x], t))
              <= Cardinality(RivalsIn(table, x, next[x].slot)) + 1
<1> DEFINE rivals == RivalsIn(table, x, next[x].slot)
<1>1. SeatedIn(next, VenueOf[x], t) \subseteq rivals \cup {x}
  <2> SUFFICES ASSUME NEW y \in SeatedIn(next, VenueOf[x], t), y # x
               PROVE  y \in rivals
    OBVIOUS
  <2>1. y \in Bookings /\ next[y] = table[y] /\ table[y].slot \in Slots
    BY DEF SeatedIn, Row
  <2>2. /\ table[y].slot.start \in Nat /\ table[y].slot.end \in Nat
        /\ next[x].slot.start \in Nat /\ next[x].slot.end \in Nat /\ t \in Nat
    BY <2>1, SlotsAssumption, InstantsAssumption DEF Instants
  <2>3. Overlaps(table[y].slot, next[x].slot)
    BY <2>1, <2>2 DEF SeatedIn, Covers, Overlaps
  <2> QED BY <2>1, <2>3 DEF SeatedIn, RivalsIn
<1>2. x \notin rivals
  BY DEF RivalsIn
<1>3. IsFiniteSet(rivals) /\ Cardinality(rivals) \in Nat
  BY RivalsFinite
<1>4. IsFiniteSet(rivals \cup {x}) /\ Cardinality(rivals \cup {x}) = Cardinality(rivals) + 1
  BY <1>2, <1>3, FS_AddElement
<1> QED BY <1>1, <1>4, FS_Subset, SeatedFinite

-----------------------------------------------------------------------------
\* Who is not stepping keeps what it has established.

Keeps(lock, next, s) == \A x \in DOMAIN lock : lock[x] \in Saves \ {s} => next[x] = lock[x]

\* A step of s, or of the environment (s is then no save), that leaves the rows
\* alone, takes no lock from another save, closes no account another save has
\* locked and lowers no peak.
Aside(s) ==
    /\ \A u \in Saves \ {s} : save'[u] = save[u]
    /\ row' = row
    /\ \A v \in Venues : peak[v] <= peak'[v]
    /\ \A c \in Customers : c \in closed' \ closed => customerLock[c] \notin Saves
    /\ Keeps(rowLock, rowLock', s)
    /\ Keeps(venueLock, venueLock', s)
    /\ Keeps(customerLock, customerLock', s)

LEMMA SaveFields ==
    ASSUME TypeOK, NEW s \in Saves
    PROVE  /\ save[s].booking \in Bookings
           /\ VenueOf[save[s].booking] \in Venues
           /\ CustomerOf[save[s].booking] \in Customers
           /\ save[s].new \in Row /\ save[s].seen \in Row
           /\ row[save[s].booking] \in Row
BY OwnershipAssumption DEF TypeOK, Save

LEMMA StillRoom ==
    ASSUME TypeOK, TypeOK', NEW b \in Bookings, NEW slot, \A v \in Venues : peak[v] <= peak'[v],
           NEW next, Cardinality(RivalsIn(next, b, slot)) <= Cardinality(RivalsIn(row, b, slot)),
           HasRoom(row, peak, b, slot)
    PROVE  HasRoom(next, peak', b, slot)
<1>1. VenueOf[b] \in Venues /\ peak[VenueOf[b]] \in Nat /\ peak'[VenueOf[b]] \in Nat
  BY OwnershipAssumption, LimitsAssumption DEF TypeOK
<1>2. Cardinality(RivalsIn(next, b, slot)) \in Nat /\ Cardinality(RivalsIn(row, b, slot)) \in Nat
  BY RivalsFinite
<1> QED BY <1>1, <1>2 DEF HasRoom

LEMMA OthersOwn ==
    ASSUME IInv, TypeOK', NEW s, Aside(s), NEW u \in Saves \ {s}
    PROVE  Own(u)'
<1>1. Own(u) /\ save'[u] = save[u] /\ row' = row
  BY DEF IInv, Aside
<1>2. /\ save[u].booking \in Bookings
      /\ VenueOf[save[u].booking] \in Venues
      /\ CustomerOf[save[u].booking] \in Customers
  BY SaveFields DEF IInv
<1>3. HoldsRow(u)'
  BY <1>1, <1>2 DEF Own, HoldsRow, WritesRow, ChangesStatus, Aside, Keeps, IInv, TypeOK
<1>4. HoldsPlace(u)'
  <2> SUFFICES ASSUME TakesPlace(u)
               PROVE  /\ venueLock'[VenueOf[save[u].booking]] = u
                      /\ HasRoom(row, peak', save[u].booking, save[u].new.slot)
    BY <1>1 DEF HoldsPlace, TakesPlace
  <2>1. venueLock'[VenueOf[save[u].booking]] = u
    BY <1>1, <1>2 DEF Own, HoldsPlace, Aside, Keeps, IInv, TypeOK
  <2>2. HasRoom(row, peak, save[u].booking, save[u].new.slot)
    BY <1>1 DEF Own, HoldsPlace
  <2>3. Cardinality(RivalsIn(row, save[u].booking, save[u].new.slot)) \in Nat
    BY RivalsFinite
  <2>4. HasRoom(row, peak', save[u].booking, save[u].new.slot)
    BY <1>2, <2>2, <2>3, StillRoom DEF IInv, Aside
  <2> QED BY <2>1, <2>4
<1>5. HoldsAccount(u)'
  BY <1>1, <1>2 DEF Own, HoldsAccount, Creates, Aside, Keeps, IInv, TypeOK
<1>6. Stored(u)' /\ WritesStatus(u)' /\ Current(u)' /\ Lawful(u)' /\ OnPath(u)'
  BY <1>1 DEF Own, Stored, WritesStatus, Current, Lawful, OnPath, ChangesStatus
<1>7. KeepsRequest(u)' /\ OwnsRequest(u)'
  BY <1>1 DEF Own, KeepsRequest, OwnsRequest, Inserted, Creates
<1> QED BY <1>3, <1>4, <1>5, <1>6, <1>7 DEF Own

LEMMA ReleasedKeeps ==
    ASSUME NEW lock, NEW s, NEW next, next = Released(lock, s)
    PROVE  Keeps(lock, next, s)
BY DEF Keeps, Released

LEMMA TakenKeeps ==
    ASSUME NEW lock, NEW x, NEW s, Free(lock, x, s), NEW next, next = [lock EXCEPT ![x] = s]
    PROVE  Keeps(lock, next, s)
BY NullsAssumption DEF Keeps, Free

LEMMA SameKeeps == ASSUME NEW lock, NEW s PROVE Keeps(lock, lock, s)
BY DEF Keeps

\* What a step of s has to show: its own part of the invariant.
LEMMA AsideStep ==
    ASSUME IInv, TypeOK', NEW s \in Saves, Aside(s), UNCHANGED <<capacity, peak>>,
           Own(s)', \A u \in Saves \ {s} : Apart(s, u)'
    PROVE  IInv'
<1>1. Table'
  <2>1. UNCHANGED <<row, capacity, peak>>
    BY DEF Aside
  <2> QED BY <2>1 DEF IInv, Table, NeverOverbooked, Seated, Occupies, UnderPeak, OneBookingPerRequest
<1>2. \A u \in Saves : Own(u)'
  BY OthersOwn
<1>3. ASSUME NEW u \in Saves, NEW t \in Saves, u # t PROVE Apart(u, t)'
  <2>1. CASE u # s /\ t # s
    BY <1>3, <2>1 DEF IInv, Aside, Apart, Creates, Inserted
  <2>2. CASE u = s \/ t = s
    BY <1>3, <2>2 DEF Apart
  <2> QED BY <2>1, <2>2
<1> QED BY <1>1, <1>2, <1>3 DEF IInv

\* The locks a step leaves alone it keeps.
LEMMA RefuseStep == ASSUME IInv, TypeOK', NEW s \in Saves, Refuse(s) PROVE IInv'
<1>1. save'[s] = Idle /\ \A u \in Saves \ {s} : save'[u] = save[u]
  BY DEF Refuse, Finish, IInv, TypeOK
<1>2. Aside(s)
  <2>1. /\ Keeps(rowLock, rowLock', s)
        /\ Keeps(venueLock, venueLock', s)
        /\ Keeps(customerLock, customerLock', s)
    BY ReleasedKeeps DEF Refuse, Finish
  <2>2. \A v \in Venues : peak[v] \in Nat /\ peak'[v] = peak[v]
    BY LimitsAssumption DEF Refuse, IInv, TypeOK
  <2> QED BY <1>1, <2>1, <2>2 DEF Refuse, Aside
<1>3. Own(s)'
  BY <1>1 DEF Own, HoldsRow, WritesRow, Stored, HoldsPlace, TakesPlace, WritesStatus, Current, Lawful,
              OnPath, HoldsAccount, Creates, KeepsRequest, OwnsRequest, Inserted, Idle
<1>4. \A u \in Saves \ {s} : Apart(s, u)'
  BY <1>1 DEF Apart, Creates, Inserted, Idle
<1> QED BY <1>2, <1>3, <1>4, AsideStep DEF Refuse

\* Opening: the save is at the guard, with no lock and no verdict yet.
LEMMA OpenStep ==
    ASSUME IInv, TypeOK', NEW s \in Saves, UNCHANGED <<row, capacity, peak, closed, now, locks>>,
           NEW r, save' = [save EXCEPT ![s] = r],
           r.phase = "guard", r.new.status # "absent",
           r.kind = "create" <=> row[r.booking].status = "absent",
           r.kind = "create" => \A u \in Saves : ~(Creates(u) /\ save[u].booking = r.booking),
           r.kind = "change" => r.new.request = row[r.booking].request
    PROVE  IInv'
<1>1. save'[s] = r /\ \A u \in Saves \ {s} : save'[u] = save[u]
  BY DEF IInv, TypeOK
<1>2. Aside(s)
  <2>1. /\ Keeps(rowLock, rowLock', s)
        /\ Keeps(venueLock, venueLock', s)
        /\ Keeps(customerLock, customerLock', s)
    BY SameKeeps DEF locks
  <2>2. \A v \in Venues : peak[v] \in Nat /\ peak'[v] = peak[v]
    BY LimitsAssumption DEF IInv, TypeOK
  <2> QED BY <1>1, <2>1, <2>2 DEF Aside
<1>3. Own(s)'
  BY <1>1 DEF Own, HoldsRow, WritesRow, Stored, HoldsPlace, TakesPlace, WritesStatus, Current, Lawful,
              OnPath, HoldsAccount, Creates, KeepsRequest, OwnsRequest, Inserted
<1>4. \A u \in Saves \ {s} : Apart(s, u)'
  BY <1>1 DEF Apart, Creates, Inserted
<1> QED BY <1>2, <1>3, <1>4, AsideStep

LEMMA OpenCreateStep ==
    ASSUME IInv, TypeOK', NEW s \in Saves, NEW b \in Bookings, NEW by, NEW status \in Statuses,
           NEW slot, NEW request, OpenCreate(s, b, by, status, slot, request)
    PROVE  IInv'
BY OpenStep DEF OpenCreate, Creates, Statuses

LEMMA OpenChangeStep ==
    ASSUME IInv, TypeOK', NEW s \in Saves, NEW b \in Bookings, NEW by, NEW to \in Statuses,
           NEW slot, OpenChange(s, b, by, to, slot)
    PROVE  IInv'
<1>1. row[b] \in Row
  BY DEF IInv, TypeOK
<1>2. /\ [row[b] EXCEPT !.status = to, !.slot = slot].status = to
      /\ [row[b] EXCEPT !.status = to, !.slot = slot].request = row[b].request
  BY <1>1 DEF Row
<1> QED BY <1>2, OpenStep DEF OpenChange, Statuses

LEMMA OpenExpiryStep ==
    ASSUME IInv, TypeOK', NEW s \in Saves, NEW b \in Bookings, OpenExpiry(s, b)
    PROVE  IInv'
<1>1. row[b] \in Row
  BY DEF IInv, TypeOK
<1>2. /\ [row[b] EXCEPT !.status = "cancelled"].status = "cancelled"
      /\ [row[b] EXCEPT !.status = "cancelled"].request = row[b].request
  BY <1>1 DEF Row
<1> QED BY <1>2, OpenStep DEF OpenExpiry

\* Going on to another phase, with the locks of the others untouched.
LEMMA Advance ==
    ASSUME IInv, NEW s \in Saves, NEW next, save' = [save EXCEPT ![s] = next],
           UNCHANGED <<row, capacity, peak, closed, now>>,
           Keeps(rowLock, rowLock', s), Keeps(venueLock, venueLock', s),
           Keeps(customerLock, customerLock', s)
    PROVE  /\ save'[s] = next
           /\ \A u \in Saves \ {s} : save'[u] = save[u]
           /\ Aside(s)
<1>1. save'[s] = next /\ \A u \in Saves \ {s} : save'[u] = save[u]
  BY DEF IInv, TypeOK
<1>2. \A v \in Venues : peak[v] \in Nat /\ peak'[v] = peak[v]
  BY LimitsAssumption DEF IInv, TypeOK
<1> QED BY <1>1, <1>2 DEF Aside

\* A save with its phase moved on is otherwise the same save.
LEMMA Moved ==
    ASSUME IInv, NEW s \in Saves, NEW phase, save'[s] = [save[s] EXCEPT !.phase = phase]
    PROVE  /\ save'[s].phase = phase
           /\ save'[s].kind = save[s].kind /\ save'[s].booking = save[s].booking
           /\ save'[s].by = save[s].by /\ save'[s].auto = save[s].auto
           /\ save'[s].seen = save[s].seen /\ save'[s].new = save[s].new
           /\ save[s].kind \in {"create", "change"}
<1>1. save[s] \in Save
  BY DEF IInv, TypeOK
<1> QED BY <1>1 DEF Save

LEMMA GuardCreateStep == ASSUME IInv, TypeOK', NEW s \in Saves, GuardCreate(s) PROVE IInv'
<1>1. CASE Refuse(s)
  BY <1>1, RefuseStep
<1>2. CASE ~Refuse(s)
  <2> DEFINE status == IF save[s].by = "staff" THEN save[s].new.status
               ELSE IF VenueOf[save[s].booking] \in AutoConfirm THEN "confirmed" ELSE "pending"
             next == [save[s] EXCEPT !.phase = "capacity", !.new = [@ EXCEPT !.status = status]]
  <2>1. status # "absent"
    BY DEF GuardCreate, Active, IInv, Own, WritesStatus
  <2> HIDE DEF status
  <2>2. /\ save' = [save EXCEPT ![s].phase = "capacity", ![s].new = [@ EXCEPT !.status = status]]
        /\ UNCHANGED <<row, capacity, peak, closed, now, locks>>
        /\ Active(s, "guard") /\ save[s].kind = "create"
    BY <1>2 DEF GuardCreate, status
  <2>3. save' = [save EXCEPT ![s] = next]
    BY <2>2
  <2>4. /\ next.phase = "capacity" /\ next.kind = "create" /\ next.booking = save[s].booking
        /\ next.new.status = status
    <3>1. save[s] \in Save /\ save[s].new \in Row
      BY SaveFields DEF IInv, TypeOK
    <3> QED BY <2>2, <3>1 DEF Save, Row
  <2>5. save'[s] = next /\ Aside(s) /\ \A u \in Saves \ {s} : save'[u] = save[u]
    BY <2>2, <2>3, Advance, SameKeeps DEF locks
  <2> HIDE DEF next
  <2>6. /\ save'[s].phase = "capacity" /\ save'[s].kind = "create"
        /\ save'[s].booking = save[s].booking /\ save'[s].new.status # "absent"
    BY <2>1, <2>4, <2>5
  <2>7. Own(s)'
    <3>1. Stored(s)'
      <4>1. row[save[s].booking].status = "absent" /\ row' = row
        BY <2>2 DEF IInv, Own, Stored, Active
      <4> QED BY <2>6, <4>1 DEF Stored
    <3> QED BY <2>6, <3>1
            DEF Own, HoldsRow, WritesRow, HoldsPlace, TakesPlace, WritesStatus, Current, ChangesStatus,
                Lawful, OnPath, HoldsAccount, Creates, KeepsRequest, OwnsRequest, Inserted
  <2>8. \A u \in Saves \ {s} : Apart(s, u)'
    <3> SUFFICES ASSUME NEW u \in Saves \ {s} PROVE Apart(s, u)'
      OBVIOUS
    <3>1. Apart(s, u) /\ Creates(s) /\ save'[u] = save[u]
      BY <2>2, <2>5 DEF IInv, Creates, Active
    <3> QED BY <2>6, <3>1 DEF Apart, Creates, Inserted
  <2> QED BY <2>2, <2>5, <2>7, <2>8, AsideStep
<1> QED BY <1>1, <1>2

LEMMA GuardChangeStep == ASSUME IInv, TypeOK', NEW s \in Saves, GuardChange(s) PROVE IInv'
<1>1. CASE Refuse(s)
  BY <1>1, RefuseStep
<1>2. CASE ~Refuse(s)
  <2> DEFINE next == [save[s] EXCEPT !.phase = "lock"]
             b == save[s].booking
  <2>1. /\ Active(s, "guard") /\ save[s].kind = "change"
        /\ GuardAllows(s)
        /\ ChangesStatus(s) => row[b].status = save[s].seen.status
        /\ save' = [save EXCEPT ![s] = next]
        /\ UNCHANGED <<row, capacity, peak, closed, now, venueLock, customerLock>>
        /\ IF ChangesStatus(s)
              THEN Free(rowLock, b, s) /\ rowLock' = [rowLock EXCEPT ![b] = s]
              ELSE UNCHANGED rowLock
    BY <1>2 DEF GuardChange, Goto
  <2>2. Keeps(rowLock, rowLock', s)
    BY <2>1, TakenKeeps, SameKeeps
  <2>3. save'[s] = next /\ Aside(s) /\ \A u \in Saves \ {s} : save'[u] = save[u]
    BY <2>1, <2>2, Advance, SameKeeps
  <2>4. ChangesStatus(s) => rowLock'[b] = s
    BY <2>1, SaveFields DEF IInv, TypeOK
  <2>5. /\ save'[s].phase = "lock" /\ save'[s].kind = "change" /\ save'[s].booking = b
        /\ save'[s].by = save[s].by /\ save'[s].auto = save[s].auto
        /\ save'[s].seen = save[s].seen /\ save'[s].new = save[s].new
    BY <2>1, <2>3, Moved
  <2> HIDE DEF next
  <2>6. Own(s) /\ UNCHANGED row
    BY <2>1 DEF IInv
  <2>7. Lawful(s)'
    BY <2>1, <2>5 DEF GuardAllows, MayChange, Lawful
  <2>8. HoldsRow(s)' /\ Current(s)'
    BY <2>1, <2>4, <2>5 DEF HoldsRow, WritesRow, Current, ChangesStatus
  <2>9. Stored(s)' /\ HoldsPlace(s)' /\ WritesStatus(s)' /\ OnPath(s)' /\ HoldsAccount(s)'
        /\ KeepsRequest(s)' /\ OwnsRequest(s)'
    BY <2>1, <2>5, <2>6
    DEF Own, Stored, HoldsPlace, TakesPlace, WritesStatus, OnPath, HoldsAccount, Creates,
        KeepsRequest, OwnsRequest, Inserted, Active
  <2>10. \A u \in Saves \ {s} : Apart(s, u)'
    BY <2>5 DEF Apart, Creates, Inserted
  <2> QED BY <2>1, <2>3, <2>7, <2>8, <2>9, <2>10, AsideStep DEF Own
<1> QED BY <1>1, <1>2

LEMMA LockRowStep == ASSUME IInv, TypeOK', NEW s \in Saves, LockRow(s) PROVE IInv'
<1> DEFINE next == [save[s] EXCEPT !.phase = "capacity"]
           b == save[s].booking
<1>1. /\ Active(s, "lock")
      /\ save' = [save EXCEPT ![s] = next]
      /\ UNCHANGED <<row, capacity, peak, closed, now, venueLock, customerLock>>
      /\ Free(rowLock, b, s) /\ rowLock' = [rowLock EXCEPT ![b] = s]
  BY DEF LockRow, Goto
<1>2. Keeps(rowLock, rowLock', s)
  BY <1>1, TakenKeeps
<1>3. save'[s] = next /\ Aside(s) /\ \A u \in Saves \ {s} : save'[u] = save[u]
  BY <1>1, <1>2, Advance, SameKeeps
<1>4. rowLock'[b] = s
  BY <1>1, SaveFields DEF IInv, TypeOK
<1>5. /\ save'[s].phase = "capacity" /\ save'[s].kind = save[s].kind /\ save'[s].booking = b
      /\ save'[s].by = save[s].by /\ save'[s].auto = save[s].auto
      /\ save'[s].seen = save[s].seen /\ save'[s].new = save[s].new
  BY <1>3, Moved
<1> HIDE DEF next
<1>6. Own(s) /\ UNCHANGED row
  BY <1>1 DEF IInv
<1>7. Own(s)'
  BY <1>1, <1>4, <1>5, <1>6
  DEF Own, HoldsRow, WritesRow, Stored, HoldsPlace, TakesPlace, WritesStatus, Current, ChangesStatus,
      Lawful, OnPath, HoldsAccount, Creates, KeepsRequest, OwnsRequest, Inserted, Active
<1>8. \A u \in Saves \ {s} : Apart(s, u)'
  BY <1>1, <1>3, <1>5 DEF IInv, Apart, Creates, Inserted, Active
<1> QED BY <1>1, <1>3, <1>7, <1>8, AsideStep

LEMMA CapacityStep == ASSUME IInv, TypeOK', NEW s \in Saves, CapacityTrigger(s) PROVE IInv'
<1>1. CASE Refuse(s)
  BY <1>1, RefuseStep
<1>2. CASE ~Refuse(s)
  <2> DEFINE next == [save[s] EXCEPT !.phase = AfterCapacity(s)]
             b == save[s].booking
             v == VenueOf[b]
             slot == save[s].new.slot
  <2>1. /\ Active(s, "capacity")
        /\ save' = [save EXCEPT ![s] = next]
        /\ UNCHANGED <<row, capacity, peak, closed, now, rowLock, customerLock>>
        /\ \/ save[s].new.status \notin Occupying /\ UNCHANGED venueLock
           \/ /\ Free(venueLock, v, s) /\ venueLock' = [venueLock EXCEPT ![v] = s]
              /\ ~(Cardinality(Rivals(b, slot)) >= capacity[v])
    BY <1>2 DEF CapacityTrigger, Goto, locks
  <2>2. Keeps(venueLock, venueLock', s)
    BY <2>1, TakenKeeps, SameKeeps
  <2>3. save'[s] = next /\ Aside(s) /\ \A u \in Saves \ {s} : save'[u] = save[u]
    BY <2>1, <2>2, Advance, SameKeeps
  <2>4. /\ save'[s].phase = AfterCapacity(s) /\ save'[s].kind = save[s].kind /\ save'[s].booking = b
        /\ save'[s].by = save[s].by /\ save'[s].auto = save[s].auto
        /\ save'[s].seen = save[s].seen /\ save'[s].new = save[s].new
        /\ save[s].kind \in {"create", "change"}
    BY <2>3, Moved
  <2> HIDE DEF next
  <2>5. Own(s) /\ UNCHANGED row
    BY <2>1 DEF IInv
  <2>6. save[s].new.status \in Occupying =>
           venueLock'[v] = s /\ HasRoom(row, peak', b, slot)
    <3> SUFFICES ASSUME save[s].new.status \in Occupying
                 PROVE  venueLock'[v] = s /\ HasRoom(row, peak', b, slot)
      OBVIOUS
    <3>1. v \in Venues /\ venueLock'[v] = s
      BY <2>1, SaveFields DEF IInv, TypeOK
    <3>2. /\ capacity[v] \in Nat /\ peak'[v] \in Nat /\ capacity[v] <= peak'[v]
          /\ Cardinality(RivalsIn(row, b, slot)) \in Nat
      BY <2>1, <3>1, LimitsAssumption, RivalsFinite DEF IInv, Table, UnderPeak, TypeOK
    <3>3. Cardinality(RivalsIn(row, b, slot)) < capacity[v]
      BY <2>1, <3>2, RivalsAre
    <3> QED BY <3>1, <3>2, <3>3 DEF HasRoom
  <2>7. HoldsPlace(s)'
    BY <2>4, <2>5, <2>6 DEF HoldsPlace, TakesPlace
  <2>8. HoldsRow(s)' /\ Current(s)' /\ Lawful(s)'
    BY <2>1, <2>4, <2>5 DEF Own, HoldsRow, WritesRow, Current, ChangesStatus, Lawful, Active
  <2>9. Stored(s)' /\ WritesStatus(s)' /\ OnPath(s)' /\ HoldsAccount(s)' /\ KeepsRequest(s)' /\ OwnsRequest(s)'
    <3>1. \/ save'[s].kind = "change" /\ save'[s].phase = "commit"
          \/ /\ save'[s].kind = "create"
             /\ \/ save'[s].phase = "limit"
                \/ save'[s].phase = "index" /\ save'[s].new.status # "pending"
      BY <2>4 DEF AfterCapacity
    <3>2. Stored(s)' /\ WritesStatus(s)' /\ KeepsRequest(s)'
      BY <2>1, <2>4, <2>5 DEF Own, Stored, WritesStatus, KeepsRequest, Active
    <3> QED BY <3>1, <3>2 DEF OnPath, HoldsAccount, Creates, OwnsRequest, Inserted
  <2>10. \A u \in Saves \ {s} : Apart(s, u)'
    <3> SUFFICES ASSUME NEW u \in Saves \ {s} PROVE Apart(s, u)'
      OBVIOUS
    <3>1. Apart(s, u) /\ save'[u] = save[u]
      BY <2>3 DEF IInv
    <3> QED BY <2>1, <2>4, <3>1 DEF Apart, Creates, Inserted, AfterCapacity, Active
  <2> QED BY <2>1, <2>3, <2>7, <2>8, <2>9, <2>10, AsideStep DEF Own
<1> QED BY <1>1, <1>2

LEMMA LimitStep == ASSUME IInv, TypeOK', NEW s \in Saves, LimitTrigger(s) PROVE IInv'
<1>1. CASE Refuse(s)
  BY <1>1, RefuseStep
<1>2. CASE ~Refuse(s)
  <2> DEFINE next == [save[s] EXCEPT !.phase = "index"]
             c == CustomerOf[save[s].booking]
  <2>1. /\ Active(s, "limit") /\ c \notin closed
        /\ save' = [save EXCEPT ![s] = next]
        /\ UNCHANGED <<row, capacity, peak, closed, now, rowLock, venueLock>>
        /\ Free(customerLock, c, s) /\ customerLock' = [customerLock EXCEPT ![c] = s]
    BY <1>2 DEF LimitTrigger, Goto
  <2>2. Keeps(customerLock, customerLock', s)
    BY <2>1, TakenKeeps
  <2>3. save'[s] = next /\ Aside(s) /\ \A u \in Saves \ {s} : save'[u] = save[u]
    BY <2>1, <2>2, Advance, SameKeeps
  <2>4. /\ save'[s].phase = "index" /\ save'[s].kind = save[s].kind
        /\ save'[s].booking = save[s].booking /\ save'[s].new = save[s].new
    BY <2>3, Moved
  <2> HIDE DEF next
  <2>5. Own(s) /\ UNCHANGED <<row, venueLock, peak>>
    BY <2>1 DEF IInv
  <2>6. customerLock'[c] = s /\ c \notin closed'
    BY <2>1, SaveFields DEF IInv, TypeOK
  <2>7. HoldsPlace(s)' /\ HoldsAccount(s)'
    BY <2>1, <2>4, <2>5, <2>6 DEF Own, HoldsPlace, TakesPlace, HoldsAccount, Active
  <2>8. Stored(s)' /\ WritesStatus(s)' /\ OnPath(s)' /\ HoldsRow(s)' /\ Current(s)' /\ Lawful(s)'
        /\ KeepsRequest(s)' /\ OwnsRequest(s)'
    BY <2>1, <2>4, <2>5
    DEF Own, Stored, WritesStatus, OnPath, HoldsRow, WritesRow, Current, Lawful, Creates, KeepsRequest,
        OwnsRequest, Inserted, Active
  <2>9. \A u \in Saves \ {s} : Apart(s, u)'
    <3> SUFFICES ASSUME NEW u \in Saves \ {s} PROVE Apart(s, u)'
      OBVIOUS
    <3>1. Apart(s, u) /\ save'[u] = save[u]
      BY <2>3 DEF IInv
    <3> QED BY <2>1, <2>4, <3>1 DEF Apart, Creates, Inserted, Active
  <2> QED BY <2>1, <2>3, <2>7, <2>8, <2>9, AsideStep DEF Own
<1> QED BY <1>1, <1>2

LEMMA IndexStep == ASSUME IInv, TypeOK', NEW s \in Saves, UniqueIndex(s) PROVE IInv'
<1>1. CASE Refuse(s)
  BY <1>1, RefuseStep
<1>2. CASE ~Refuse(s)
  <2> DEFINE next == [save[s] EXCEPT !.phase = "commit"]
             request == save[s].new.request
  <2>1. /\ Active(s, "index") /\ ~InFlight(s)
        /\ request # NoRequest => \A b \in Bookings : row[b].request # request
        /\ save' = [save EXCEPT ![s] = next]
        /\ UNCHANGED <<row, capacity, peak, closed, now, locks>>
    BY <1>2 DEF UniqueIndex, Goto
  <2>2. save'[s] = next /\ Aside(s) /\ \A u \in Saves \ {s} : save'[u] = save[u]
    BY <2>1, Advance, SameKeeps DEF locks
  <2>3. /\ save'[s].phase = "commit" /\ save'[s].kind = save[s].kind
        /\ save'[s].booking = save[s].booking /\ save'[s].new = save[s].new
    BY <2>2, Moved
  <2> HIDE DEF next
  <2>4. Own(s) /\ UNCHANGED <<row, venueLock, customerLock, closed, peak>>
    BY <2>1 DEF IInv, locks
  <2>5. save[s].kind = "create"
    BY <2>1, <2>4 DEF Own, OnPath, Active
  <2>6. HoldsPlace(s)' /\ HoldsAccount(s)'
    BY <2>1, <2>3, <2>4 DEF Own, HoldsPlace, TakesPlace, HoldsAccount, Creates, Active
  <2>7. Stored(s)' /\ WritesStatus(s)' /\ OnPath(s)' /\ HoldsRow(s)' /\ Current(s)' /\ Lawful(s)'
        /\ KeepsRequest(s)' /\ OwnsRequest(s)'
    BY <2>1, <2>3, <2>4, <2>5
    DEF Own, Stored, WritesStatus, OnPath, HoldsRow, WritesRow, Current, ChangesStatus, Lawful, Creates,
        KeepsRequest, OwnsRequest, Inserted, Active
  <2>8. \A u \in Saves \ {s} : Apart(s, u)'
    <3> SUFFICES ASSUME NEW u \in Saves \ {s} PROVE Apart(s, u)'
      OBVIOUS
    <3>1. Apart(s, u) /\ save'[u] = save[u]
      BY <2>2 DEF IInv
    <3> QED BY <2>1, <2>3, <2>5, <3>1 DEF Apart, Creates, Inserted, InFlight, Active
  <2> QED BY <2>1, <2>2, <2>6, <2>7, <2>8, AsideStep DEF Own
<1> QED BY <1>1, <1>2

\* What the rows become when s commits.
LEMMA Committed ==
    ASSUME IInv, NEW s \in Saves, Commit(s)
    PROVE  LET b == save[s].booking
           IN  /\ row'[b] = save[s].new /\ row'[b].slot \in Slots
               /\ \A x \in Bookings \ {b} : row'[x] = row[x]
               /\ save'[s] = Idle
               /\ \A u \in Saves \ {s} : save'[u] = save[u]
               /\ UNCHANGED <<capacity, peak, closed>>
               /\ Keeps(rowLock, rowLock', s)
               /\ Keeps(venueLock, venueLock', s)
               /\ Keeps(customerLock, customerLock', s)
<1>1. save[s].booking \in Bookings /\ save[s].new \in Row
  BY SaveFields DEF IInv
<1>2. /\ Keeps(rowLock, rowLock', s)
      /\ Keeps(venueLock, venueLock', s)
      /\ Keeps(customerLock, customerLock', s)
  BY ReleasedKeeps DEF Commit, Finish
<1> QED BY <1>1, <1>2 DEF Commit, Finish, IInv, TypeOK, Row

\* No other save is part way through writing the booking s commits.
LEMMA Alone ==
    ASSUME IInv, NEW s \in Saves, Active(s, "commit"), NEW u \in Saves \ {s},
           save[u].booking = save[s].booking
    PROVE  ~WritesRow(u) /\ ~Creates(u)
<1> DEFINE b == save[s].booking
<1>1. Own(s) /\ Own(u) /\ Apart(s, u)
  BY DEF IInv
<1>2. save[s].kind \in {"create", "change"} /\ save[u].kind \in {"create", "change"}
  BY DEF IInv, TypeOK, Save
<1>3. CASE save[s].kind = "create"
  BY <1>1, <1>2, <1>3 DEF Own, Stored, Apart, Creates, WritesRow, Active
<1>4. CASE save[s].kind = "change"
  <2>1. rowLock[b] = s
    BY <1>1, <1>4 DEF Own, HoldsRow, WritesRow, Active
  <2> QED BY <1>1, <1>2, <1>4, <2>1 DEF Own, HoldsRow, Stored, Creates, Active
<1> QED BY <1>2, <1>3, <1>4

\* A commit changes an attempt id only from a create, and then to a fresh one.
LEMMA FreshRequest ==
    ASSUME IInv, NEW s \in Saves, Active(s, "commit")
    PROVE  \/ save[s].new.request = row[save[s].booking].request
           \/ save[s].new.request = NoRequest
           \/ Inserted(s) /\ \A x \in Bookings : row[x].request # save[s].new.request
<1>1. Own(s) /\ save[s].kind \in {"create", "change"}
  BY DEF IInv, TypeOK, Save
<1> QED BY <1>1 DEF Own, KeepsRequest, OwnsRequest, Inserted, Creates, Active

LEMMA CommitOthers ==
    ASSUME IInv, TypeOK', NEW s \in Saves, Commit(s), NEW u \in Saves \ {s}
    PROVE  Own(u)'
<1> DEFINE b == save[s].booking
           x == save[u].booking
<1>1. /\ row'[b] = save[s].new /\ row'[b].slot \in Slots
      /\ \A y \in Bookings \ {b} : row'[y] = row[y]
      /\ save'[u] = save[u]
      /\ UNCHANGED <<capacity, peak, closed>>
      /\ Keeps(rowLock, rowLock', s)
      /\ Keeps(venueLock, venueLock', s)
      /\ Keeps(customerLock, customerLock', s)
  BY Committed
<1>2. /\ Active(s, "commit") /\ Own(s) /\ Own(u) /\ Apart(s, u)
      /\ b \in Bookings /\ x \in Bookings
      /\ VenueOf[b] \in Venues /\ VenueOf[x] \in Venues /\ CustomerOf[x] \in Customers
      /\ save[u].kind \in {"create", "change"} /\ save[s].kind \in {"create", "change"}
  BY SaveFields DEF Commit, IInv, TypeOK, Save
<1>3. b = x => ~WritesRow(u) /\ ~Creates(u)
  BY <1>2, Alone
<1>4. HoldsRow(u)' /\ HoldsAccount(u)'
  BY <1>1, <1>2 DEF Own, HoldsRow, HoldsAccount, WritesRow, ChangesStatus, Creates, Keeps, IInv, TypeOK
<1>5. HoldsPlace(u)'
  <2> SUFFICES ASSUME TakesPlace(u)
               PROVE  venueLock'[VenueOf[x]] = u /\ HasRoom(row', peak', x, save[u].new.slot)
    BY <1>1 DEF HoldsPlace, TakesPlace
  <2>1. venueLock[VenueOf[x]] = u /\ HasRoom(row, peak, x, save[u].new.slot)
    BY <1>2 DEF Own, HoldsPlace
  <2>2. venueLock'[VenueOf[x]] = u
    BY <1>1, <1>2, <2>1 DEF Keeps, IInv, TypeOK
  <2>3. VenueOf[b] # VenueOf[x] \/ b = x \/ row'[b].status \notin Occupying
    BY <1>1, <1>2, <2>1 DEF Own, HoldsPlace, TakesPlace, Active
  <2>4. Cardinality(RivalsIn(row', x, save[u].new.slot)) <= Cardinality(RivalsIn(row, x, save[u].new.slot))
    BY <1>1, <2>3, FewerRivals
  <2>5. \A v \in Venues : peak[v] \in Nat /\ peak[v] <= peak'[v]
    <3>1. \A v \in Venues : peak[v] \in Nat
      BY LimitsAssumption DEF IInv, TypeOK
    <3> QED BY <1>1, <3>1
  <2> QED BY <1>2, <2>1, <2>2, <2>4, <2>5, StillRoom DEF IInv
<1>6. Stored(u)' /\ Current(u)' /\ KeepsRequest(u)'
  <2>1. CASE b # x
    BY <1>1, <1>2, <2>1 DEF Own, Stored, Current, ChangesStatus, KeepsRequest
  <2>2. CASE b = x
    <3>1. ~WritesRow(u) /\ ~Creates(u)
      BY <1>3, <2>2
    <3>2. row'[x].status # "absent"
      BY <1>1, <1>2, <2>2 DEF Own, WritesStatus, Active
    <3>3. save[u].phase # "idle" => row[b].status # "absent" /\ save[u].kind = "change"
      BY <1>2, <2>2, <3>1 DEF Own, Stored, Creates
    <3>4. save[u].phase # "idle" => row'[b].request = row[b].request
      BY <1>1, <1>2, <3>3 DEF Own, Stored, KeepsRequest, Active
    <3>5. Stored(u)'
      BY <1>1, <3>2, <3>3 DEF Stored
    <3>6. KeepsRequest(u)'
      BY <1>1, <1>2, <2>2, <3>4 DEF Own, KeepsRequest
    <3>7. Current(u)'
      BY <1>1, <3>1, <3>3 DEF Current, WritesRow, ChangesStatus
    <3> QED BY <3>5, <3>6, <3>7
  <2> QED BY <2>1, <2>2
<1>7. WritesStatus(u)' /\ Lawful(u)' /\ OnPath(u)'
  BY <1>1, <1>2 DEF Own, WritesStatus, Lawful, OnPath
<1>8. OwnsRequest(u)'
  <2> SUFFICES ASSUME Inserted(u), NEW y \in Bookings
               PROVE  row'[y].request # save[u].new.request
    BY <1>1 DEF OwnsRequest, Inserted, Creates
  <2>1. row[y].request # save[u].new.request /\ row[b].request # save[u].new.request
    BY <1>2 DEF Own, OwnsRequest
  <2>2. save[s].new.request # save[u].new.request
    BY <1>2, <2>1, FreshRequest DEF Apart, Inserted
  <2> QED BY <1>1, <2>1, <2>2
<1> QED BY <1>4, <1>5, <1>6, <1>7, <1>8 DEF Own

LEMMA CommitTable == ASSUME IInv, TypeOK', NEW s \in Saves, Commit(s) PROVE Table'
<1> DEFINE b == save[s].booking
           slot == save[s].new.slot
<1>1. /\ row'[b] = save[s].new /\ row'[b].slot \in Slots
      /\ \A y \in Bookings \ {b} : row'[y] = row[y]
      /\ UNCHANGED <<capacity, peak, closed>>
  BY Committed
<1>2. Active(s, "commit") /\ Own(s) /\ b \in Bookings /\ row \in [Bookings -> Row]
  BY SaveFields DEF Commit, IInv, TypeOK
<1>3. NeverOverbooked'
  <2> SUFFICES ASSUME NEW v \in Venues, NEW t \in Instants
               PROVE  Cardinality(SeatedIn(row', v, t)) <= peak[v]
    BY <1>1, SeatedAreNext
  <2>1. peak[v] \in Nat /\ Cardinality(SeatedIn(row, v, t)) <= peak[v]
    BY SeatedAre, LimitsAssumption DEF IInv, Table, TypeOK
  <2>2. Cardinality(SeatedIn(row, v, t)) \in Nat /\ Cardinality(SeatedIn(row', v, t)) \in Nat
    BY SeatedFinite
  <2>3. CASE VenueOf[b] # v \/ row'[b].status \notin Occupying \/ ~Covers(row'[b].slot, t)
    <3>1. Cardinality(SeatedIn(row', v, t)) <= Cardinality(SeatedIn(row, v, t))
      BY <1>1, <2>3, FewerSeated
    <3> QED BY <2>1, <2>2, <3>1
  <2>4. CASE VenueOf[b] = v /\ row'[b].status \in Occupying /\ Covers(row'[b].slot, t)
    <3>1. Cardinality(SeatedIn(row', v, t)) <= Cardinality(RivalsIn(row, b, slot)) + 1
      BY <1>1, <1>2, <2>4, SeatedWithRivals
    <3>2. Cardinality(RivalsIn(row, b, slot)) < peak[v]
      BY <1>1, <1>2, <2>4 DEF Own, HoldsPlace, HasRoom, TakesPlace, Active
    <3>3. Cardinality(RivalsIn(row, b, slot)) \in Nat
      BY RivalsFinite
    <3> QED BY <2>1, <2>2, <3>1, <3>2, <3>3
  <2> QED BY <2>3, <2>4
<1>4. OneBookingPerRequest'
  <2> SUFFICES ASSUME NEW x \in Bookings, NEW y \in Bookings, row'[x].request = row'[y].request,
                      row'[x].request # NoRequest, x # y
               PROVE  FALSE
    BY DEF OneBookingPerRequest
  <2>1. OneBookingPerRequest
    BY DEF IInv, Table
  <2>2. CASE row'[b].request = row[b].request
    BY <1>1, <1>2, <2>1, <2>2 DEF OneBookingPerRequest
  <2>3. CASE row'[b].request # row[b].request
    <3>1. row'[b].request # NoRequest => \A z \in Bookings : row[z].request # row'[b].request
      BY <1>1, <1>2, <2>3, FreshRequest
    <3>2. CASE x = b
      BY <1>1, <3>1, <3>2
    <3>3. CASE y = b
      BY <1>1, <3>1, <3>3
    <3>4. CASE x # b /\ y # b
      BY <1>1, <2>1, <3>4 DEF OneBookingPerRequest
    <3> QED BY <3>2, <3>3, <3>4
  <2> QED BY <2>2, <2>3
<1>5. UnderPeak'
  BY <1>1 DEF IInv, Table, UnderPeak
<1> QED BY <1>3, <1>4, <1>5 DEF Table

LEMMA CommitStep == ASSUME IInv, TypeOK', NEW s \in Saves, Commit(s) PROVE IInv'
<1>1. save'[s] = Idle /\ \A u \in Saves \ {s} : save'[u] = save[u]
  BY Committed
<1>2. Own(s)'
  BY <1>1 DEF Own, HoldsRow, WritesRow, Stored, HoldsPlace, TakesPlace, WritesStatus, Current, Lawful,
              OnPath, HoldsAccount, Creates, KeepsRequest, OwnsRequest, Inserted, Idle
<1>3. \A u \in Saves : Own(u)'
  BY <1>2, CommitOthers
<1>4. ASSUME NEW u \in Saves, NEW t \in Saves, u # t PROVE Apart(u, t)'
  <2>1. CASE u = s \/ t = s
    BY <1>1, <2>1 DEF Apart, Creates, Inserted, Idle
  <2>2. CASE u # s /\ t # s
    BY <1>1, <1>4, <2>2 DEF IInv, Apart, Creates, Inserted
  <2> QED BY <2>1, <2>2
<1> QED BY <1>3, <1>4, CommitTable DEF IInv

\* The listing, the account and the clock: no save takes the step.
LEMMA EnvironmentStep == ASSUME IInv, TypeOK', Environment PROVE IInv'
<1>1. UNCHANGED <<row, save, locks>>
  BY DEF Environment, SetCapacity, CloseAccount, Tick
<1>2. ASSUME NEW v \in Venues PROVE peak[v] <= peak'[v] /\ capacity'[v] <= peak'[v]
  <2>1. peak[v] \in Nat /\ capacity[v] \in Nat /\ capacity[v] <= peak[v]
    BY LimitsAssumption DEF IInv, Table, UnderPeak, TypeOK
  <2>2. ASSUME NEW w \in Venues, NEW n \in Capacities, SetCapacity(w, n)
        PROVE  peak[v] <= peak'[v] /\ capacity'[v] <= peak'[v]
    <3>1. /\ capacity' = [capacity EXCEPT ![w] = n]
          /\ peak' = [peak EXCEPT ![w] = IF n > peak[w] THEN n ELSE peak[w]]
          /\ capacity \in [Venues -> Capacities] /\ peak \in [Venues -> Capacities] /\ n \in Nat
      BY <2>2, LimitsAssumption DEF SetCapacity, IInv, TypeOK
    <3>2. CASE v = w
      BY <2>1, <3>1, <3>2
    <3>3. CASE v # w
      BY <2>1, <3>1, <3>3
    <3> QED BY <3>2, <3>3
  <2>3. CASE UNCHANGED <<capacity, peak>>
    BY <2>1, <2>3
  <2> QED BY <2>2, <2>3 DEF Environment, CloseAccount, Tick
<1>3. \A c \in Customers : c \in closed' \ closed => customerLock[c] \notin Saves
  BY NullsAssumption DEF Environment, SetCapacity, CloseAccount, Tick
<1>4. Aside(NoSave)
  BY <1>1, <1>2, <1>3, SameKeeps DEF Aside, locks
<1>5. \A u \in Saves : Own(u)'
  BY <1>4, OthersOwn, NullsAssumption
<1>6. \A u, t \in Saves : u # t => Apart(u, t)'
  BY <1>1 DEF IInv, Apart, Creates, Inserted
<1>7. NeverOverbooked'
  <2> SUFFICES ASSUME NEW v \in Venues, NEW t \in Instants
               PROVE  Cardinality(SeatedIn(row, v, t)) <= peak'[v]
    BY <1>1, SeatedAreNext
  <2>1. Cardinality(SeatedIn(row, v, t)) <= peak[v] /\ peak[v] \in Nat /\ peak'[v] \in Nat
    BY SeatedAre, LimitsAssumption DEF IInv, Table, TypeOK
  <2> QED BY <1>2, <2>1, SeatedFinite
<1>8. UnderPeak' /\ OneBookingPerRequest'
  BY <1>1, <1>2 DEF UnderPeak, OneBookingPerRequest, IInv, Table
<1> QED BY <1>5, <1>6, <1>7, <1>8 DEF IInv, Table

-----------------------------------------------------------------------------
\* The results.

LEMMA InvInit == Init => IInv
<1> SUFFICES ASSUME Init PROVE IInv
  OBVIOUS
<1>1. TypeOK
  BY TypeInit
<1>2. \A s \in Saves : save[s].phase = "idle"
  BY DEF Init, Idle
<1>3. /\ \A s \in Saves : Own(s)
      /\ \A s, t \in Saves : Apart(s, t)
  BY <1>2 DEF Own, HoldsRow, WritesRow, Stored, HoldsPlace, TakesPlace, WritesStatus, Current, Lawful,
              OnPath, HoldsAccount, Creates, KeepsRequest, OwnsRequest, Inserted, Apart
<1>4. NeverOverbooked
  <2> SUFFICES ASSUME NEW v \in Venues, NEW t \in Instants
               PROVE  Cardinality(SeatedIn(row, v, t)) <= peak[v]
    BY SeatedAre
  <2>1. SeatedIn(row, v, t) = {} /\ peak[v] \in Nat
    BY <1>1, LimitsAssumption DEF SeatedIn, Init, NoRow, Occupying, TypeOK
  <2> QED BY <2>1, FS_EmptySet
<1>5. UnderPeak
  <2>1. \A v \in Venues : capacity[v] \in Nat
    BY <1>1, LimitsAssumption DEF TypeOK
  <2> QED BY <2>1 DEF Init, UnderPeak
<1>6. OneBookingPerRequest
  BY DEF Init, OneBookingPerRequest, NoRow
<1> QED BY <1>1, <1>3, <1>4, <1>5, <1>6 DEF IInv, Table

LEMMA InvStep == IInv /\ [Next]_vars => IInv'
<1> SUFFICES ASSUME IInv, [Next]_vars PROVE IInv'
  OBVIOUS
<1>0. TypeOK'
  BY TypeStep DEF IInv
<1>1. ASSUME NEW s \in Saves, Open(s) PROVE IInv'
  BY <1>0, <1>1, OpenCreateStep, OpenChangeStep, OpenExpiryStep DEF Open
<1>2. ASSUME NEW s \in Saves, Proceed(s) PROVE IInv'
  BY <1>0, <1>2, GuardCreateStep, GuardChangeStep, LockRowStep, CapacityStep, LimitStep, IndexStep,
     CommitStep DEF Proceed
<1>3. ASSUME NEW s \in Saves, Crash(s) PROVE IInv'
  BY <1>0, <1>3, RefuseStep DEF Crash
<1>4. CASE Environment
  BY <1>0, <1>4, EnvironmentStep
<1>5. CASE UNCHANGED vars
  <2>1. \A u \in Saves : Own(u)'
    <3>1. Aside(NoSave)
      <4>1. \A v \in Venues : peak[v] \in Nat
        BY LimitsAssumption DEF IInv, TypeOK
      <4> QED BY <1>5, <4>1, SameKeeps DEF Aside, vars, locks
    <3> QED BY <1>0, <3>1, OthersOwn, NullsAssumption
  <2>2. Table'
    BY <1>5 DEF vars, IInv, Table, NeverOverbooked, Seated, Occupies, UnderPeak, OneBookingPerRequest
  <2>3. \A u, t \in Saves : u # t => Apart(u, t)'
    BY <1>5 DEF vars, IInv, Apart, Creates, Inserted
  <2> QED BY <1>0, <2>1, <2>2, <2>3 DEF IInv
<1> QED BY <1>1, <1>2, <1>3, <1>4, <1>5 DEF Next

THEOREM Invariant == Spec => []IInv
<1>1. Init => IInv
  BY InvInit
<1>2. IInv /\ [Next]_vars => IInv'
  BY InvStep
<1> QED BY <1>1, <1>2, PTL DEF Spec

\* A venue never has more bookings holding a place at an instant than the most
\* places its listing has offered (enforce_booking_capacity).
THEOREM SeatsAreSafe == Spec => []NeverOverbooked
<1>1. IInv => NeverOverbooked
  BY DEF IInv, Table
<1> QED BY <1>1, Invariant, PTL

\* Two copies of one attempt never both become bookings (the unique index on
\* request_id).
THEOREM AttemptsAreSingle == Spec => []OneBookingPerRequest
<1>1. IInv => OneBookingPerRequest
  BY DEF IInv, Table
<1> QED BY <1>1, Invariant, PTL

LEMMA InvCurrent == IInv => AnswersAreCurrent
BY DEF IInv, Own, Current, AnswersAreCurrent

\* A change of status past the guard still finds the status it was decided on
\* (lockedStatus).
THEOREM AnswersStayCurrent == Spec => []AnswersAreCurrent
BY InvCurrent, Invariant, PTL

\* A committed change of status follows the lifecycle, whoever makes it, and the
\* automatic decline cancels only a request still unanswered (guardBookingWrite).
THEOREM AnswersAreNotUndone == Spec => NoAnswerUndone
<1>1. ASSUME IInv, NEW s \in Saves, Commit(s), ChangesStatus(s)
      PROVE  LET was == row[save[s].booking].status
                 is == row'[save[s].booking].status
             IN  /\ CanTransition(was, is)
                 /\ save[s].by = "customer" => is = "cancelled"
                 /\ save[s].auto => was = "pending"
  <2>1. /\ row'[save[s].booking].status = save[s].new.status
        /\ row[save[s].booking].status = save[s].seen.status
    BY <1>1, Committed DEF IInv, Own, Current, Commit, Active
  <2>2. /\ CanTransition(save[s].seen.status, save[s].new.status)
        /\ CanActorTransition(save[s].by, save[s].seen.status, save[s].new.status)
        /\ save[s].auto => save[s].seen.status = "pending"
        /\ save[s].new.status # save[s].seen.status
    BY <1>1 DEF IInv, Own, Lawful, Commit, Active, ChangesStatus
  <2>3. save[s].by = "customer" => save[s].new.status = "cancelled"
    BY <2>2 DEF CanActorTransition, ActorTargets, Actors
  <2> QED BY <2>1, <2>2, <2>3
<1>2. IInv => \A s \in Saves : Commit(s) /\ ChangesStatus(s) =>
                LET was == row[save[s].booking].status
                    is == row'[save[s].booking].status
                IN  /\ CanTransition(was, is)
                    /\ save[s].by = "customer" => is = "cancelled"
                    /\ save[s].auto => was = "pending"
  BY <1>1
<1> QED BY <1>2, Invariant, PTL DEF NoAnswerUndone

\* Only the commit of a save writes the table, and no save a listing's capacity.
LEMMA OnlyCommitWrites ==
    ASSUME [Next]_vars, \A s \in Saves : ~Commit(s)
    PROVE  /\ UNCHANGED row
           /\ UNCHANGED peak \/ \E v \in Venues, n \in Capacities : SetCapacity(v, n)
<1>1. ASSUME NEW s \in Saves, Open(s) PROVE UNCHANGED <<row, peak>>
  BY <1>1 DEF Open, OpenCreate, OpenChange, OpenExpiry
<1>2. ASSUME NEW s \in Saves, Proceed(s) PROVE UNCHANGED <<row, peak>>
  <2>1. CASE GuardCreate(s) \/ GuardChange(s) \/ LockRow(s)
    BY <2>1 DEF GuardCreate, GuardChange, LockRow, Refuse
  <2>2. CASE CapacityTrigger(s) \/ LimitTrigger(s) \/ UniqueIndex(s)
    BY <2>2 DEF CapacityTrigger, LimitTrigger, UniqueIndex, Refuse
  <2> QED BY <1>2, <2>1, <2>2 DEF Proceed
<1>3. ASSUME NEW s \in Saves, Crash(s) PROVE UNCHANGED <<row, peak>>
  BY <1>3 DEF Crash, Refuse
<1>4. CASE Environment
  BY <1>4 DEF Environment, SetCapacity, CloseAccount, Tick
<1>5. CASE UNCHANGED vars
  BY <1>5 DEF vars
<1> QED BY <1>1, <1>2, <1>3, <1>4, <1>5 DEF Next

\* No request is put on an account already closed (the customer's row lock in
\* enforce_customer_booking_limit).
THEOREM ClosedAccountsGetNoRequest == Spec => NoRequestOnClosedAccount
<1> DEFINE Safe == \A b \in Bookings :
                     row[b].status = "absent" /\ row'[b].status = "pending" => CustomerOf[b] \notin closed
<1>1. ASSUME IInv, [Next]_vars PROVE Safe
  <2>1. CASE \A s \in Saves : ~Commit(s)
    BY <1>1, <2>1, OnlyCommitWrites
  <2>2. ASSUME NEW s \in Saves, Commit(s) PROVE Safe
    <3> SUFFICES ASSUME NEW b \in Bookings, row[b].status = "absent", row'[b].status = "pending"
                 PROVE  CustomerOf[b] \notin closed
      OBVIOUS
    <3>1. b = save[s].booking /\ save[s].new.status = "pending"
      BY <1>1, <2>2, Committed
    <3>2. Own(s) /\ Active(s, "commit")
      BY <1>1, <2>2 DEF IInv, Commit
    <3> QED BY <3>1, <3>2 DEF Own, Stored, HoldsAccount, Creates, Active
  <2> QED BY <2>1, <2>2
<1>2. IInv /\ [Next]_vars => Safe
  BY <1>1
<1> QED BY <1>2, Invariant, PTL DEF NoRequestOnClosedAccount, Spec

\* A finished booking is brought back only by a save that leaves the status as it
\* read it, and so takes no lock for it: guardBookingWrite, which locks the row
\* for a change of status, lets none past from the status that row then has.
THEOREM OnlyStaleCopiesRevive == Spec => OnlyStaleSavesRevive
<1> DEFINE Safe == \A b \in Bookings : row[b].status \in Terminal /\ row'[b].status # row[b].status =>
                      \E s \in Saves : /\ Commit(s) /\ save[s].booking = b
                                       /\ save[s].kind = "change" /\ ~ChangesStatus(s)
<1>1. ASSUME IInv, [Next]_vars, NEW b \in Bookings,
             row[b].status \in Terminal, row'[b].status # row[b].status
      PROVE  \E s \in Saves : /\ Commit(s) /\ save[s].booking = b
                               /\ save[s].kind = "change" /\ ~ChangesStatus(s)
  <2>1. PICK s \in Saves : Commit(s)
    BY <1>1, OnlyCommitWrites
  <2>2. save[s].booking = b /\ Own(s) /\ Active(s, "commit") /\ save[s] \in Save
    <3>1. save[s].booking = b
      BY <1>1, <2>1, Committed
    <3> QED BY <1>1, <2>1, <3>1, SaveFields DEF IInv, TypeOK, Commit
  <2>3. row[b].status # "absent"
    BY <1>1 DEF Terminal, Statuses
  <2>4. save[s].kind = "change"
    BY <2>2, <2>3 DEF Own, Stored, Active, Creates, Save
  <2>5. ASSUME ChangesStatus(s) PROVE FALSE
    <3>1. save[s].seen.status = row[b].status /\ CanTransition(save[s].seen.status, save[s].new.status)
      BY <2>2, <2>4, <2>5 DEF Own, Current, Lawful, Active
    <3>2. Transitions[save[s].seen.status] = {}
      BY <1>1, <3>1 DEF Terminal
    <3> QED BY <2>5, <3>1, <3>2 DEF CanTransition, ChangesStatus
  <2> QED BY <2>1, <2>2, <2>4, <2>5
<1>2. IInv /\ [Next]_vars => Safe
  BY <1>1
<1> QED BY <1>2, Invariant, PTL DEF OnlyStaleSavesRevive, Spec

-----------------------------------------------------------------------------
\* The table implements the ledger of places.

LEMMA SameOperators ==
    /\ \A S : Ledger!Cardinality(S) = Cardinality(S)
    /\ \A slot, t : Ledger!Covers(slot, t) <=> Covers(slot, t)
BY DEF Ledger!Cardinality, Cardinality, Ledger!Covers, Covers

Held == [b \in Bookings |-> IF Occupies(b) THEN {row[b].slot} ELSE {}]

LEMMA LoadIsSeated ==
    ASSUME NEW table \in [Bookings -> Row], NEW held,
           held = [b \in Bookings |-> IF table[b].status \in Occupying THEN {table[b].slot} ELSE {}],
           NEW v, NEW t
    PROVE  Ledger!Load(held, v, t) = Cardinality(SeatedIn(table, v, t))
<1>1. {b \in Bookings : VenueOf[b] = v /\ \E slot \in held[b] : Ledger!Covers(slot, t)}
         = SeatedIn(table, v, t)
  BY SameOperators DEF SeatedIn
<1> QED BY <1>1, SameOperators DEF Ledger!Load

\* Every commit is a place taken or moved within the ceiling, or given up; a
\* higher capacity raises the ceiling; nothing else shows.
THEOREM TableImplementsLedger == Spec => ImplementsLedger
<1>1. Init => Ledger!Init
  <2> SUFFICES ASSUME Init PROVE Ledger!Init
    OBVIOUS
  <2>1. \A b \in Bookings : ~Occupies(b)
    BY DEF Init, NoRow, Occupies, Occupying
  <2>2. Held = [b \in Bookings |-> {}]
    BY <2>1 DEF Held
  <2>3. peak \in [Venues -> Capacities]
    BY DEF Init
  <2> QED BY <2>2, <2>3 DEF Ledger!Init, Held
<1>2. ASSUME IInv, IInv', [Next]_vars PROVE [Ledger!Next]_<<Held, peak>>
  <2>1. ASSUME NEW s \in Saves, Commit(s) PROVE Ledger!Next
    <3> PICK b \in Bookings, new \in Row : b = save[s].booking /\ new = save[s].new
      BY <1>2, SaveFields DEF IInv
    <3>1. /\ new.slot \in Slots /\ UNCHANGED peak
          /\ row \in [Bookings -> Row] /\ row' \in [Bookings -> Row]
          /\ row'[b] = new /\ \A x \in Bookings \ {b} : row'[x] = row[x]
      BY <1>2, <2>1, Committed DEF IInv, TypeOK
    <3>2. CASE new.status \notin Occupying
      <4>1. Held' = [Held EXCEPT ![b] = {}]
        BY <3>1, <3>2 DEF Held, Occupies
      <4>2. Ledger!Release(b)
        BY <3>1, <4>1 DEF Ledger!Release, Held
      <4> QED BY <3>1, <4>2 DEF Ledger!Next
    <3>3. CASE new.status \in Occupying
      <4>1. Held' = [Held EXCEPT ![b] = {new.slot}]
        BY <3>1, <3>3 DEF Held, Occupies
      <4>2. ASSUME NEW t \in Instants PROVE Ledger!Load(Held', VenueOf[b], t) <= peak[VenueOf[b]]
        <5>1. VenueOf[b] \in Venues
          BY <3>1, OwnershipAssumption
        <5>2. Cardinality(SeatedIn(row', VenueOf[b], t)) <= peak[VenueOf[b]]
          BY <1>2, <3>1, <5>1, SeatedAreNext DEF IInv, Table
        <5>3. Ledger!Load(Held', VenueOf[b], t) = Cardinality(SeatedIn(row', VenueOf[b], t))
          BY <3>1, LoadIsSeated DEF Held, Occupies
        <5> QED BY <5>2, <5>3
      <4>3. Ledger!Hold(b, new.slot)
        BY <3>1, <4>1, <4>2, SameOperators DEF Ledger!Hold, Held, Instants
      <4> QED BY <3>1, <4>3 DEF Ledger!Next
    <3> QED BY <3>2, <3>3
  <2>2. ASSUME NEW v \in Venues, NEW n \in Capacities, SetCapacity(v, n)
        PROVE  Ledger!Next \/ UNCHANGED <<Held, peak>>
    <3>1. UNCHANGED Held /\ peak \in [Venues -> Capacities]
      BY <1>2, <2>2 DEF SetCapacity, Held, Occupies, IInv, TypeOK
    <3>2. CASE n > peak[v]
      <4>1. peak' = [peak EXCEPT ![v] = n]
        BY <2>2, <3>1, <3>2 DEF SetCapacity
      <4>2. Ledger!Raise(v, n)
        BY <3>1, <3>2, <4>1 DEF Ledger!Raise, Held
      <4> QED BY <4>2 DEF Ledger!Next
    <3>3. CASE ~(n > peak[v])
      <4>1. peak' = peak
        BY <2>2, <3>1, <3>3 DEF SetCapacity
      <4> QED BY <3>1, <4>1
    <3> QED BY <3>2, <3>3
  <2>3. CASE /\ \A s \in Saves : ~Commit(s)
             /\ \A v \in Venues, n \in Capacities : ~SetCapacity(v, n)
    <3>1. UNCHANGED <<row, peak>>
      BY <1>2, <2>3, OnlyCommitWrites
    <3> QED BY <3>1 DEF Held, Occupies
  <2> QED BY <2>1, <2>2, <2>3
<1>3. IInv /\ IInv' /\ [Next]_vars => [Ledger!Next]_<<Held, peak>>
  BY <1>2
<1> QED BY <1>1, <1>3, Invariant, PTL DEF Spec, ImplementsLedger, Ledger!Spec, Held

-----------------------------------------------------------------------------
\* Locks are taken in one order - the booking's row, its venue, its guest, the
\* attempt - so saves cannot wait for each other in a circle.

\* Which locks a save can hold in which phase.
LocksHeld ==
    \A s \in Saves :
        /\ \A b \in Bookings : rowLock[b] = s =>
              /\ save[s].booking = b /\ save[s].kind = "change"
              /\ save[s].phase \in {"lock", "capacity", "commit"}
        /\ \A v \in Venues : venueLock[v] = s => save[s].phase \in {"limit", "index", "commit"}
        /\ \A c \in Customers : customerLock[c] = s => save[s].phase \in {"index", "commit"}

\* No lock changes hands but to s.
OnlyTo(lock, next, s) == \A x \in DOMAIN lock : next[x] = lock[x] \/ next[x] \in {s, NoSave}

LEMMA HeldByOthers ==
    ASSUME IInv, LocksHeld, NEW s, \A u \in Saves \ {s} : save'[u] = save[u],
           OnlyTo(rowLock, rowLock', s), OnlyTo(venueLock, venueLock', s),
           OnlyTo(customerLock, customerLock', s),
           s \in Saves =>
              /\ \A b \in Bookings : rowLock'[b] = s =>
                    /\ save'[s].booking = b /\ save'[s].kind = "change"
                    /\ save'[s].phase \in {"lock", "capacity", "commit"}
              /\ \A v \in Venues : venueLock'[v] = s => save'[s].phase \in {"limit", "index", "commit"}
              /\ \A c \in Customers : customerLock'[c] = s => save'[s].phase \in {"index", "commit"}
    PROVE  LocksHeld'
BY NullsAssumption DEF LocksHeld, OnlyTo, IInv, TypeOK

LEMMA ReleasedOnly ==
    ASSUME NEW lock, NEW s \in Saves, NEW next, next = Released(lock, s)
    PROVE  OnlyTo(lock, next, s) /\ \A x \in DOMAIN lock : next[x] # s
BY NullsAssumption DEF OnlyTo, Released

LEMMA SameOnly == ASSUME NEW lock, NEW s PROVE OnlyTo(lock, lock, s)
BY DEF OnlyTo

LEMMA TakenOnly ==
    ASSUME NEW lock, NEW x, NEW s
    PROVE  /\ OnlyTo(lock, [lock EXCEPT ![x] = s], s)
           /\ \A y \in DOMAIN lock : [lock EXCEPT ![x] = s][y] = s => y = x \/ lock[y] = s
BY DEF OnlyTo

LEMMA FinishHolds ==
    ASSUME IInv, LocksHeld, NEW s \in Saves, Finish(s)
    PROVE  LocksHeld'
<1>1. /\ OnlyTo(rowLock, rowLock', s) /\ \A b \in Bookings : rowLock'[b] # s
      /\ OnlyTo(venueLock, venueLock', s) /\ \A v \in Venues : venueLock'[v] # s
      /\ OnlyTo(customerLock, customerLock', s) /\ \A c \in Customers : customerLock'[c] # s
  BY ReleasedOnly DEF Finish, IInv, TypeOK
<1>2. \A u \in Saves \ {s} : save'[u] = save[u]
  BY DEF Finish, IInv, TypeOK
<1> QED BY <1>1, <1>2, HeldByOthers

LEMMA OpenHolds ==
    ASSUME IInv, LocksHeld, NEW s \in Saves, Active(s, "idle"), UNCHANGED locks,
           NEW r, save' = [save EXCEPT ![s] = r]
    PROVE  LocksHeld'
<1>1. /\ \A b \in Bookings : rowLock[b] # s
      /\ \A v \in Venues : venueLock[v] # s
      /\ \A c \in Customers : customerLock[c] # s
  BY DEF LocksHeld, Active
<1>2. \A u \in Saves \ {s} : save'[u] = save[u]
  BY DEF IInv, TypeOK
<1> QED BY <1>1, <1>2, SameOnly, HeldByOthers DEF locks

LEMMA GuardCreateHolds ==
    ASSUME IInv, LocksHeld, NEW s \in Saves, GuardCreate(s), ~Refuse(s)
    PROVE  LocksHeld'
<1>1. /\ \A b \in Bookings : rowLock[b] # s
      /\ \A v \in Venues : venueLock[v] # s
      /\ \A c \in Customers : customerLock[c] # s
  BY DEF LocksHeld, GuardCreate, Active
<1>2. UNCHANGED locks /\ \A u \in Saves \ {s} : save'[u] = save[u]
  BY DEF GuardCreate, IInv, TypeOK
<1> QED BY <1>1, <1>2, SameOnly, HeldByOthers DEF locks

LEMMA GuardChangeHolds ==
    ASSUME IInv, LocksHeld, NEW s \in Saves, GuardChange(s), ~Refuse(s)
    PROVE  LocksHeld'
<1>1. /\ Active(s, "guard") /\ save[s].kind = "change" /\ Goto(s, "lock")
      /\ UNCHANGED <<venueLock, customerLock>>
      /\ rowLock' = rowLock \/ rowLock' = [rowLock EXCEPT ![save[s].booking] = s]
  BY DEF GuardChange
<1>2. /\ \A b \in Bookings : rowLock[b] # s
      /\ \A v \in Venues : venueLock[v] # s
      /\ \A c \in Customers : customerLock[c] # s
  BY <1>1 DEF LocksHeld, Active
<1>3. \A u \in Saves \ {s} : save'[u] = save[u]
  BY <1>1 DEF Goto, IInv, TypeOK
<1>4. save'[s].phase = "lock" /\ save'[s].kind = "change" /\ save'[s].booking = save[s].booking
  BY <1>1, Moved DEF Goto, IInv, TypeOK
<1>5. OnlyTo(rowLock, rowLock', s) /\ \A b \in Bookings : rowLock'[b] = s => b = save[s].booking
  BY <1>1, <1>2, SameOnly, TakenOnly DEF IInv, TypeOK
<1> QED BY <1>1, <1>2, <1>3, <1>4, <1>5, SameOnly, HeldByOthers

LEMMA LockRowHolds ==
    ASSUME IInv, LocksHeld, NEW s \in Saves, LockRow(s)
    PROVE  LocksHeld'
<1>1. /\ Active(s, "lock") /\ Goto(s, "capacity") /\ UNCHANGED <<venueLock, customerLock>>
      /\ rowLock' = [rowLock EXCEPT ![save[s].booking] = s]
  BY DEF LockRow
<1>2. /\ \A b \in Bookings : rowLock[b] = s => b = save[s].booking
      /\ \A v \in Venues : venueLock[v] # s
      /\ \A c \in Customers : customerLock[c] # s
  BY <1>1 DEF LocksHeld, Active
<1>3. save[s].kind = "change" /\ \A u \in Saves \ {s} : save'[u] = save[u]
  BY <1>1 DEF Goto, IInv, TypeOK, Own, OnPath, Active
<1>4. save'[s].phase = "capacity" /\ save'[s].kind = "change" /\ save'[s].booking = save[s].booking
  BY <1>1, <1>3, Moved DEF Goto, IInv, TypeOK
<1>5. OnlyTo(rowLock, rowLock', s) /\ \A b \in Bookings : rowLock'[b] = s => b = save[s].booking
  BY <1>1, <1>2, TakenOnly DEF IInv, TypeOK
<1> QED BY <1>1, <1>2, <1>3, <1>4, <1>5, SameOnly, HeldByOthers

LEMMA CapacityHolds ==
    ASSUME IInv, LocksHeld, NEW s \in Saves, CapacityTrigger(s), ~Refuse(s)
    PROVE  LocksHeld'
<1>1. /\ Active(s, "capacity") /\ Goto(s, AfterCapacity(s)) /\ UNCHANGED <<rowLock, customerLock>>
      /\ venueLock' = venueLock \/ venueLock' = [venueLock EXCEPT ![VenueOf[save[s].booking]] = s]
  BY DEF CapacityTrigger, locks
<1>2. /\ \A b \in Bookings : rowLock[b] = s => b = save[s].booking /\ save[s].kind = "change"
      /\ \A v \in Venues : venueLock[v] # s
      /\ \A c \in Customers : customerLock[c] # s
  BY <1>1 DEF LocksHeld, Active
<1>3. \A u \in Saves \ {s} : save'[u] = save[u]
  BY <1>1 DEF Goto, IInv, TypeOK
<1>4. /\ save'[s].phase = AfterCapacity(s) /\ save'[s].kind = save[s].kind
      /\ save'[s].booking = save[s].booking
  BY <1>1, Moved DEF Goto, IInv, TypeOK
<1>5. /\ save'[s].phase \in {"limit", "index", "commit"}
      /\ save[s].kind = "change" => save'[s].phase = "commit"
  BY <1>4 DEF AfterCapacity
<1>6. OnlyTo(venueLock, venueLock', s)
  BY <1>1, SameOnly, TakenOnly
<1> QED BY <1>1, <1>2, <1>3, <1>4, <1>5, <1>6, SameOnly, HeldByOthers

LEMMA LimitHolds ==
    ASSUME IInv, LocksHeld, NEW s \in Saves, LimitTrigger(s), ~Refuse(s)
    PROVE  LocksHeld'
<1>1. /\ Active(s, "limit") /\ Goto(s, "index") /\ UNCHANGED <<rowLock, venueLock>>
      /\ customerLock' = [customerLock EXCEPT ![CustomerOf[save[s].booking]] = s]
  BY DEF LimitTrigger
<1>2. \A b \in Bookings : rowLock[b] # s
  BY <1>1 DEF LocksHeld, Active
<1>3. \A u \in Saves \ {s} : save'[u] = save[u]
  BY <1>1 DEF Goto, IInv, TypeOK
<1>4. save'[s].phase = "index"
  BY <1>1, Moved DEF Goto, IInv, TypeOK
<1>5. OnlyTo(customerLock, customerLock', s)
  BY <1>1, TakenOnly
<1> QED BY <1>1, <1>2, <1>3, <1>4, <1>5, SameOnly, HeldByOthers

LEMMA IndexHolds ==
    ASSUME IInv, LocksHeld, NEW s \in Saves, UniqueIndex(s), ~Refuse(s)
    PROVE  LocksHeld'
<1>1. Active(s, "index") /\ Goto(s, "commit") /\ UNCHANGED locks
  BY DEF UniqueIndex
<1>2. \A b \in Bookings : rowLock[b] # s
  BY <1>1 DEF LocksHeld, Active
<1>3. \A u \in Saves \ {s} : save'[u] = save[u]
  BY <1>1 DEF Goto, IInv, TypeOK
<1>4. save'[s].phase = "commit"
  BY <1>1, Moved DEF Goto, IInv, TypeOK
<1> QED BY <1>1, <1>2, <1>3, <1>4, SameOnly, HeldByOthers DEF locks

LEMMA HoldsStep == IInv /\ LocksHeld /\ [Next]_vars => LocksHeld'
<1> SUFFICES ASSUME IInv, LocksHeld, [Next]_vars PROVE LocksHeld'
  OBVIOUS
<1>1. ASSUME NEW s \in Saves, Refuse(s) PROVE LocksHeld'
  BY <1>1, FinishHolds DEF Refuse
<1>2. ASSUME NEW s \in Saves, Open(s) PROVE LocksHeld'
  <2>1. Active(s, "idle") /\ UNCHANGED locks /\ \E r : save' = [save EXCEPT ![s] = r]
    BY <1>2 DEF Open, OpenCreate, OpenChange, OpenExpiry
  <2> QED BY <2>1, OpenHolds
<1>3. ASSUME NEW s \in Saves, Commit(s) PROVE LocksHeld'
  BY <1>3, FinishHolds DEF Commit
<1>4. ASSUME NEW s \in Saves, Proceed(s) PROVE LocksHeld'
  BY <1>1, <1>3, <1>4, GuardCreateHolds, GuardChangeHolds, LockRowHolds, CapacityHolds, LimitHolds,
     IndexHolds DEF Proceed
<1>5. ASSUME NEW s \in Saves, Crash(s) PROVE LocksHeld'
  BY <1>1, <1>5 DEF Crash
<1>6. CASE UNCHANGED <<save, locks>>
  BY <1>6 DEF LocksHeld, locks
<1> QED BY <1>2, <1>4, <1>5, <1>6 DEF Next, Environment, SetCapacity, CloseAccount, Tick, vars

\* Each save waits only for one that is further on, and a save about to commit
\* for none.
LEMMA NoCircle == IInv /\ LocksHeld => NoDeadlock
<1> SUFFICES ASSUME IInv, LocksHeld, NEW circle \in SUBSET Saves, circle # {},
                    \A s \in circle : \E t \in circle \ {s} : WaitsFor(s, t)
             PROVE  FALSE
  BY DEF NoDeadlock
<1>0. \A s \in circle : save[s].booking \in Bookings /\ VenueOf[save[s].booking] \in Venues
                        /\ CustomerOf[save[s].booking] \in Customers
  BY SaveFields DEF IInv
<1>1. \A s \in circle : ~Active(s, "commit") /\ ~Active(s, "idle")
  BY DEF WaitsFor, Active
<1>2. \A s \in circle : ~Active(s, "index")
  BY <1>1 DEF WaitsFor, Active
<1>3. \A s \in circle : ~Active(s, "limit")
  <2> SUFFICES ASSUME NEW s \in circle, Active(s, "limit") PROVE FALSE
    OBVIOUS
  <2>1. PICK t \in circle : customerLock[CustomerOf[save[s].booking]] = t
    BY DEF WaitsFor, Active
  <2>2. save[t].phase \in {"index", "commit"}
    BY <1>0, <2>1 DEF LocksHeld
  <2> QED BY <1>1, <1>2, <2>2 DEF Active
<1>4. \A s \in circle : ~Active(s, "capacity")
  <2> SUFFICES ASSUME NEW s \in circle, Active(s, "capacity") PROVE FALSE
    OBVIOUS
  <2>1. PICK t \in circle : venueLock[VenueOf[save[s].booking]] = t
    BY DEF WaitsFor, Active
  <2>2. save[t].phase \in {"limit", "index", "commit"}
    BY <1>0, <2>1 DEF LocksHeld
  <2> QED BY <1>1, <1>2, <1>3, <2>2 DEF Active
<1>5. \A s \in circle : ~Active(s, "guard") /\ ~Active(s, "lock")
  <2> SUFFICES ASSUME NEW s \in circle, Active(s, "guard") \/ Active(s, "lock") PROVE FALSE
    OBVIOUS
  <2>1. PICK t \in circle : rowLock[save[s].booking] = t
    BY DEF WaitsFor, Active
  <2>2. save[t].booking = save[s].booking /\ save[t].phase = "lock"
    BY <1>0, <1>1, <1>4, <2>1 DEF LocksHeld, Active
  <2>3. PICK u \in circle \ {t} : rowLock[save[t].booking] = u
    BY <2>2 DEF WaitsFor, Active
  <2> QED BY <2>1, <2>2, <2>3
<1>6. PICK s \in circle : TRUE
  OBVIOUS
<1>7. save[s].phase \in Phases
  BY DEF IInv, TypeOK, Save
<1> QED BY <1>1, <1>2, <1>3, <1>4, <1>5, <1>7 DEF Active, Phases

\* Saves of bookings never wait for each other in a circle.
THEOREM SavesDoNotDeadlock == Spec => []NoDeadlock
<1>1. Init => LocksHeld
  BY NullsAssumption DEF Init, LocksHeld
<1>2. IInv /\ LocksHeld /\ [Next]_vars => LocksHeld'
  BY HoldsStep
<1>3. IInv /\ LocksHeld => NoDeadlock
  BY NoCircle
<1> QED BY <1>1, <1>2, <1>3, Invariant, PTL DEF Spec
=============================================================================
