------------------------ MODULE PrintedCodes_proofs ------------------------
(***************************************************************************)
(* What a printed code may count on, for any codes, places, staff and      *)
(* readers side by side.                                                   *)
(***************************************************************************)
EXTENDS PrintedCodes, FiniteSetTheorems, TLAPS

-----------------------------------------------------------------------------
\* The inductive invariant.

\* Codes are made in order, and one not made yet has no scans.
MadeInOrder == \A c \in Codes : c > minted => ~code[c].stored /\ log[c] = 0

\* What an edit may make of the code it read.
EditFits(seen, next) ==
    /\ seen.stored /\ next.stored /\ next.scans = seen.scans
    /\ Committed(seen) => \/ next.target = seen.target
                          \/ seen.target = Nowhere /\ next.target \in Listings

\* What each flow is about, and what it has checked by then.
FlowFits(f) ==
    /\ flow[f].at \in {"keep", "count", "write", "drop"} => flow[f].code \in Codes
    /\ flow[f].at \in {"lock", "find", "check", "mint", "remove"} => flow[f].place \in Places
    /\ flow[f].at \in {"find", "check", "mint"} => flow[f].place \in Listings
    /\ flow[f].at \in {"lock", "remove"} /\ flow[f].place \in Articles => mix[f] \cap {"publish", "discard"} # {}
    /\ At(f, "write") => EditFits(flow[f].seen, flow[f].next)
    /\ At(f, "insert") => flow[f].next.stored /\ flow[f].next.scans = 0
    /\ flow[f].at \in {"drop", "remove"} => flow[f].printed \subseteq lost

FlowsFit == \A f \in Flows : FlowFits(f)

\* A counter never runs ahead of the log, whatever copies are written back.
CountsBehind ==
    /\ \A c \in Codes : code[c].stored => code[c].scans <= log[c]
    /\ \A f \in Flows : At(f, "write") => flow[f].seen.scans <= log[flow[f].code]

\* A flow about to give a place a code has seen that it has none.
Adds(f, p) ==
    \/ At(f, "write") /\ flow[f].next.target = p /\ flow[f].seen.target # p
    \/ At(f, "insert") /\ flow[f].next.target = p
    \/ At(f, "mint") /\ flow[f].place = p

Counted(p) == CodesOf(p) \ lost

NoneButOwn(f, p) == Counted(p) \subseteq (IF At(f, "write") THEN {flow[f].code} ELSE {})

PlacesChecked == \A p \in Listings \ rushed : \A f \in Flows : Adds(f, p) => NoneButOwn(f, p)

OneCodeEach == \A p \in Listings \ rushed : \A c, d \in Counted(p) : c = d

IInv ==
    /\ TypeOK
    /\ MadeInOrder
    /\ FlowsFit
    /\ CountsBehind
    /\ CountMatchesLog
    /\ PlacesChecked
    /\ OneCodeEach
    /\ ListingCodesFollow

-----------------------------------------------------------------------------
\* Types.

LEMMA Blank == NotMade \in Code /\ NoPlace \in Place /\ Idle \in Flow /\ [Idle EXCEPT !.at = "clear"] \in Flow
<1>1. 0 \in 0..MaxScans
  BY BoundsAssumption
<1>2. NotMade \in Code /\ NoPlace \in Place
  BY <1>1 DEF NotMade, NoPlace, Code, Place, Targets
<1>3. Idle \in Flow
  BY <1>2 DEF Idle, Flow, Steps
<1>4. [Idle EXCEPT !.at = "clear"] \in Flow
  BY <1>3 DEF Flow, Steps
<1> QED BY <1>2, <1>3, <1>4

LEMMA AskedType ==
    ASSUME NEW asked \in Requests PROVE asked \in Code /\ asked.stored /\ asked.scans = 0
<1>1. 0 \in 0..MaxScans
  BY BoundsAssumption
<1>2. asked \in [stored : {TRUE}, target : Targets, scans : {0}, issue : BOOLEAN, active : BOOLEAN]
  BY RequestsAssumption
<1> QED BY <1>1, <1>2 DEF Code

LEMMA PageType == ASSUME TypeOK, NEW c \in Codes PROVE LeadsTo(code[c]) \in Pages
BY DEF TypeOK, Code, LeadsTo, Pages, Targets, Place

LEMMA EditedType ==
    ASSUME NEW row \in Code, NEW asked \in Code, NEW admin \in BOOLEAN
    PROVE  /\ Edited(row, admin, asked) \in Code
           /\ row.stored => EditFits(row, Edited(row, admin, asked))
BY DEF Edited, Code, EditFits

\* A flow that moves on is one, and the others do not move.
Moves(f) ==
    \/ \E step \in Steps : Goto(f, step)
    \/ Ends(f)
    \/ Done(f)
    \/ \E as \in Flow : Starts(f, as)

LEMMA MoveType ==
    ASSUME flow \in [Flows -> Flow], NEW f \in Flows, Moves(f)
    PROVE  /\ flow' \in [Flows -> Flow]
           /\ \A g \in Flows : g # f => flow'[g] = flow[g]
<1>1. CASE \E step \in Steps : Goto(f, step)
  BY <1>1 DEF Goto, Flow
<1>2. CASE Ends(f) \/ Done(f)
  BY <1>2, Blank DEF Ends, Done
<1>3. CASE \E as \in Flow : Starts(f, as)
  BY <1>3 DEF Starts
<1> QED BY <1>1, <1>2, <1>3 DEF Moves

\* Each kind of work begins with a look at the rows, and changes none.
Unchanged == UNCHANGED <<code, place, log, entry, minted, histories, mix>>

LEMMA StartsWith ==
    ASSUME flow \in [Flows -> Flow], NEW f \in Flows, NEW as \in Flow, Starts(f, as)
    PROVE  At(f, "idle") /\ Moves(f) /\ flow'[f] = as
BY DEF Starts, Moves

LEMMA ScanOpens ==
    ASSUME TypeOK, NEW f \in Flows, NEW c \in 1..minted, Scan(f, c)
    PROVE  /\ Unchanged /\ At(f, "idle") /\ Moves(f)
           /\ flow'[f].at \in {"keep", "count"} /\ flow'[f].code \in Codes
<1>1. c \in Codes
  BY BoundsAssumption DEF TypeOK, Codes
<1> DEFINE at == IF entry[c] = Empty THEN "keep" ELSE "count"
           page == IF entry[c] = Empty THEN LeadsTo(code[c]) ELSE entry[c]
           as == [Idle EXCEPT !.at = at, !.code = c, !.page = page]
<1>2. at \in {"keep", "count"} /\ page \in Pages \cup {Empty}
  BY <1>1, PageType DEF TypeOK
<1>3. Starts(f, as)
  BY DEF Scan
<1>4. Unchanged
  BY DEF Scan, Unchanged
<1> HIDE DEF at, page
<1>5. Idle \in Flow
  BY Blank
<1>6. as \in Flow
  BY <1>1, <1>2, <1>5 DEF Flow, Steps
<1>7. as.at = at /\ as.code = c
  BY <1>5 DEF Flow
<1> HIDE DEF as
<1> QED BY <1>1, <1>2, <1>3, <1>4, <1>6, <1>7, StartsWith DEF TypeOK

LEMMA EditOpens ==
    ASSUME TypeOK, NEW f \in Flows, NEW c \in Codes, NEW admin \in BOOLEAN, NEW asked \in Requests,
           Edit(f, c, admin, asked)
    PROVE  /\ Unchanged /\ At(f, "idle") /\ Moves(f)
           /\ flow'[f].at = "write" /\ flow'[f].code = c /\ EditFits(flow'[f].seen, flow'[f].next)
           /\ flow'[f].seen = code[c]
           /\ flow'[f].next.target # flow'[f].seen.target => OnlyCode(c, flow'[f].next.target)
<1> DEFINE next == Edited(code[c], admin, asked)
           as == [Idle EXCEPT !.at = "write", !.code = c, !.seen = code[c], !.next = next, !.printed = InPrint \cap {c}]
<1>1. code[c] \in Code /\ code[c].stored
  BY DEF TypeOK, Edit
<1>2. next \in Code /\ EditFits(code[c], next)
  BY <1>1, AskedType, EditedType
<1>3. Starts(f, as) /\ Unchanged /\ (next.target # code[c].target => OnlyCode(c, next.target))
  BY DEF Edit, Unchanged
<1> HIDE DEF next
<1>4. Idle \in Flow /\ InPrint \cap {c} \in SUBSET Codes
  BY Blank DEF InPrint
<1>5. as \in Flow
  BY <1>1, <1>2, <1>4 DEF Flow, Steps
<1>6. as.at = "write" /\ as.code = c /\ as.seen = code[c] /\ as.next = next
  BY <1>4 DEF Flow
<1> HIDE DEF as
<1> QED BY <1>1, <1>2, <1>3, <1>5, <1>6, StartsWith DEF TypeOK

LEMMA MakeOpens ==
    ASSUME TypeOK, NEW f \in Flows, NEW asked \in Requests, Make(f, asked)
    PROVE  /\ Unchanged /\ At(f, "idle") /\ Moves(f)
           /\ flow'[f].at = "insert" /\ flow'[f].next = asked /\ asked.stored /\ asked.scans = 0
           /\ OnlyCode(NoCode, asked.target)
<1> DEFINE as == [Idle EXCEPT !.at = "insert", !.next = asked]
<1>1. asked \in Code /\ asked.stored /\ asked.scans = 0
  BY AskedType
<1>2. Starts(f, as) /\ Unchanged /\ OnlyCode(NoCode, asked.target)
  BY DEF Make, Unchanged
<1>3. Idle \in Flow
  BY Blank
<1>4. as \in Flow
  BY <1>1, <1>3 DEF Flow, Steps
<1>5. as.at = "insert" /\ as.next = asked
  BY <1>3 DEF Flow
<1> HIDE DEF as
<1> QED BY <1>1, <1>2, <1>4, <1>5, StartsWith DEF TypeOK

\* A code whose count the log contradicts has been written over.
LEMMA Uncommitted ==
    ASSUME TypeOK, CountMatchesLog, NEW c \in InPrint, ~Committed(code[c])
    PROVE  c \in lost
<1>1. c \in Codes /\ code[c].stored /\ log[c] > 0
  BY DEF InPrint, Committed
<1>2. code[c].scans \in 0..MaxScans /\ log[c] \in 0..MaxScans /\ ~(code[c].scans > 0)
  BY <1>1 DEF TypeOK, Code, Committed
<1> QED BY <1>1, <1>2, BoundsAssumption DEF CountMatchesLog

LEMMA DropOpens ==
    ASSUME TypeOK, CountMatchesLog, NEW f \in Flows, NEW c \in Codes, OpenDrop(f, c)
    PROVE  /\ Unchanged /\ At(f, "idle") /\ Moves(f)
           /\ flow'[f].at = "drop" /\ flow'[f].code = c /\ flow'[f].printed \subseteq lost
<1> DEFINE printed == InPrint \cap {c}
           as == [Idle EXCEPT !.at = "drop", !.code = c, !.printed = printed]
<1>1. Starts(f, as) /\ Unchanged /\ ~Committed(code[c])
  BY DEF OpenDrop, Unchanged
<1>2. printed \subseteq lost /\ printed \in SUBSET Codes
  BY <1>1, Uncommitted DEF InPrint
<1> HIDE DEF printed
<1>3. Idle \in Flow
  BY Blank
<1>4. as \in Flow
  BY <1>2, <1>3 DEF Flow, Steps
<1>5. as.at = "drop" /\ as.code = c /\ as.printed = printed
  BY <1>3 DEF Flow
<1> HIDE DEF as
<1> QED BY <1>1, <1>2, <1>4, <1>5, StartsWith DEF TypeOK

LEMMA RemoveOpens ==
    ASSUME TypeOK, CountMatchesLog, NEW f \in Flows, NEW p \in Places, OpenRemove(f, p)
    PROVE  /\ Unchanged /\ At(f, "idle") /\ Moves(f)
           /\ flow'[f].at = "remove" /\ flow'[f].place = p /\ flow'[f].printed \subseteq lost
<1> DEFINE printed == InPrint \cap CodesOf(p)
           as == [Idle EXCEPT !.at = "remove", !.place = p, !.printed = printed]
<1>1. Starts(f, as) /\ Unchanged /\ \A c \in CodesOf(p) : ~Committed(code[c])
  BY DEF OpenRemove, Unchanged
<1>2. printed \subseteq lost /\ printed \in SUBSET Codes
  BY <1>1, Uncommitted DEF InPrint
<1> HIDE DEF printed
<1>3. Idle \in Flow
  BY Blank
<1>4. as \in Flow
  BY <1>2, <1>3 DEF Flow, Steps
<1>5. as.at = "remove" /\ as.place = p /\ as.printed = printed
  BY <1>3 DEF Flow
<1> HIDE DEF as
<1> QED BY <1>1, <1>2, <1>4, <1>5, StartsWith DEF TypeOK

LEMMA SaveOpens ==
    ASSUME TypeOK, NEW f \in Flows, NEW p \in Places, NEW live \in BOOLEAN, NEW silver \in BOOLEAN,
           Save(f, p, live, silver)
    PROVE  /\ Unchanged /\ At(f, "idle") /\ Moves(f)
           /\ flow'[f].at = "lock" /\ flow'[f].place = p
<1> DEFINE as == [Idle EXCEPT !.at = "lock", !.place = p, !.was = place[p], !.live = live, !.silver = silver]
<1>1. Starts(f, as) /\ Unchanged
  BY DEF Save, Unchanged
<1>2. Idle \in Flow /\ place[p] \in Place
  BY Blank DEF TypeOK
<1>3. as \in Flow
  BY <1>2 DEF Flow, Steps
<1>4. as.at = "lock" /\ as.place = p
  BY <1>2 DEF Flow
<1> HIDE DEF as
<1> QED BY <1>1, <1>3, <1>4, StartsWith DEF TypeOK

\* Where a flow is after a step.
LEMMA GotoFields ==
    ASSUME TypeOK, NEW f \in Flows, NEW step \in Steps, Goto(f, step)
    PROVE  /\ Moves(f)
           /\ flow'[f].at = step /\ flow'[f].code = flow[f].code /\ flow'[f].place = flow[f].place
BY DEF TypeOK, Flow, Goto, Moves

LEMMA EndFields ==
    ASSUME TypeOK, NEW f \in Flows, Ends(f) \/ Done(f)
    PROVE  /\ Moves(f)
           /\ flow'[f].at \in {"idle", "clear"}
           /\ Ends(f) => flow'[f].at = "idle"
           /\ Done(f) => flow'[f].at = "clear"
<1>1. CASE Ends(f)
  BY <1>1 DEF TypeOK, Ends, Done, Moves, Idle
<1>2. CASE Done(f)
  BY <1>2 DEF TypeOK, Ends, Done, Moves, Idle
<1> QED BY <1>1, <1>2

\* A save's commit leaves a place.
LEMMA CommitType ==
    ASSUME TypeOK, NEW f \in Flows, flow[f].place \in Places, NEW link \in Codes \cup {NoCode}, Commits(f, link)
    PROVE  /\ place' \in [Places -> Place] /\ late' \subseteq Codes /\ (Ends(f) \/ Done(f))
<1> DEFINE p == flow[f].place
           new == [place[p] EXCEPT !.live = flow[f].live, !.link = link]
<1>0. place[p] \in Place /\ flow[f].live \in BOOLEAN
  BY DEF TypeOK, Flow
<1>1. new \in Place
  BY <1>0 DEF Place
<1>2. place' = [place EXCEPT ![p] = new]
  BY DEF Commits
<1> HIDE DEF new
<1>3. place' \in [Places -> Place]
  BY <1>1, <1>2 DEF TypeOK
<1> QED BY <1>3 DEF Commits, TypeOK, CodesOf

LEMMA OpensType ==
    ASSUME TypeOK, CountMatchesLog, NEW f \in Flows, Opens(f)
    PROVE  Unchanged /\ At(f, "idle") /\ Moves(f)
<1> DEFINE Q == Unchanged /\ At(f, "idle") /\ Moves(f)
<1>1. ASSUME NEW c \in 1..minted, Scan(f, c) PROVE Q
  BY <1>1, ScanOpens
<1>2. ASSUME NEW c \in Codes, NEW admin \in BOOLEAN, NEW asked \in Requests, Edit(f, c, admin, asked) PROVE Q
  BY <1>2, EditOpens
<1>3. ASSUME NEW asked \in Requests, Make(f, asked) PROVE Q
  BY <1>3, MakeOpens
<1>4. ASSUME NEW c \in Codes, OpenDrop(f, c) PROVE Q
  BY <1>4, DropOpens
<1>5. ASSUME NEW p \in Places, OpenRemove(f, p) PROVE Q
  BY <1>5, RemoveOpens
<1>6. ASSUME NEW p \in Places, NEW live \in BOOLEAN, NEW silver \in BOOLEAN, Save(f, p, live, silver) PROVE Q
  BY <1>6, SaveOpens
<1> QED BY <1>1, <1>2, <1>3, <1>4, <1>5, <1>6 DEF Opens, Places

LEMMA ProceedType ==
    ASSUME TypeOK, FlowsFit, CountsBehind, NEW f \in Flows, Proceeds(f) \/ Crash(f)
    PROVE  TypeOK' /\ Moves(f)
<1> SUFFICES /\ Moves(f)
             /\ code' \in [Codes -> Code] /\ place' \in [Places -> Place] /\ log' \in [Codes -> 0..MaxScans]
             /\ entry' \in [Codes -> Pages \cup {Empty}] /\ minted' \in 0..MaxCodes
             /\ lost' \subseteq Codes /\ late' \subseteq Codes /\ rushed' \subseteq Listings /\ mix' \in Mixes
  BY MoveType DEF TypeOK
<1>0. /\ code \in [Codes -> Code] /\ place \in [Places -> Place] /\ log \in [Codes -> 0..MaxScans]
      /\ entry \in [Codes -> Pages \cup {Empty}] /\ minted \in 0..MaxCodes
      /\ lost \subseteq Codes /\ late \subseteq Codes /\ rushed \subseteq Listings /\ mix \in Mixes
      /\ flow[f] \in Flow /\ FlowFits(f)
  BY DEF TypeOK, FlowsFit
<1>1. CASE Keep(f)
  <2>1. flow[f].page \in Pages \cup {Empty}
    BY <1>0 DEF Flow
  <2>2. flow[f].code \in Codes
    BY <1>0, <1>1 DEF Keep, At, FlowFits
  <2>3. Moves(f)
    BY <1>1, GotoFields DEF Keep, Steps
  <2> QED BY <1>0, <1>1, <2>1, <2>2, <2>3 DEF Keep, histories
<1>2. CASE Count(f)
  <2> DEFINE c == flow[f].code
             row == [code[c] EXCEPT !.scans = code[c].scans + 1]
  <2>1. Moves(f) /\ c \in Codes
    BY <1>0, <1>2, EndFields DEF Count, At, FlowFits
  <2>2. CASE UNCHANGED <<log, code>>
    BY <1>0, <1>2, <2>1, <2>2 DEF Count, histories
  <2>3. CASE /\ code[c].stored /\ log[c] < MaxScans
             /\ log' = [log EXCEPT ![c] = @ + 1] /\ code' = [code EXCEPT ![c].scans = @ + 1]
    <3>1. code[c] \in Code /\ code[c].scans \in 0..MaxScans /\ log[c] \in 0..MaxScans /\ code[c].scans <= log[c]
      BY <1>0, <2>1, <2>3 DEF Code, CountsBehind
    <3>2. log[c] + 1 \in 0..MaxScans /\ code[c].scans + 1 \in 0..MaxScans
      BY <2>3, <3>1, BoundsAssumption
    <3>3. row \in Code
      BY <3>1, <3>2 DEF Code
    <3>4. code' = [code EXCEPT ![c] = row]
      BY <2>3
    <3> HIDE DEF row, c
    <3>5. code' \in [Codes -> Code] /\ log' \in [Codes -> 0..MaxScans]
      BY <1>0, <2>1, <2>3, <3>2, <3>3, <3>4
    <3> QED BY <1>0, <1>2, <2>1, <3>5 DEF Count, histories
  <2> QED BY <1>2, <2>2, <2>3 DEF Count
<1>3. CASE Write(f)
  <2>1. flow[f].next \in Code /\ flow[f].code \in Codes
    BY <1>0, <1>3 DEF Write, At, FlowFits, Flow
  <2>2. Moves(f)
    BY <1>3, EndFields DEF Write
  <2>3. CASE UNCHANGED <<code, lost, rushed>>
    BY <1>0, <1>3, <2>2, <2>3 DEF Write
  <2>4. CASE ~(UNCHANGED <<code, lost, rushed>>)
    <3>1. /\ code' = [code EXCEPT ![flow[f].code] = flow[f].next] /\ lost' \subseteq lost \cup {flow[f].code}
          /\ Rushed(f, flow[f].next.target)
      BY <1>3, <2>4 DEF Write
    <3>2. rushed' \subseteq Listings
      BY <1>0, <3>1 DEF Rushed
    <3> QED BY <1>0, <1>3, <2>1, <2>2, <3>1, <3>2 DEF Write
  <2> QED BY <2>3, <2>4
<1>4. CASE Insert(f)
  <2>1. flow[f].next \in Code
    BY <1>0 DEF Flow
  <2>2. Moves(f)
    BY <1>4, EndFields DEF Insert
  <2>3. CASE UNCHANGED <<code, minted, rushed>>
    BY <1>0, <1>4, <2>2, <2>3 DEF Insert
  <2>4. CASE ~(UNCHANGED <<code, minted, rushed>>)
    <3>1. /\ minted # MaxCodes /\ minted' = minted + 1
          /\ code' = [code EXCEPT ![minted + 1] = flow[f].next] /\ Rushed(f, flow[f].next.target)
      BY <1>4, <2>4 DEF Insert
    <3>2. minted + 1 \in 0..MaxCodes
      BY <1>0, <3>1, BoundsAssumption
    <3>3. rushed' \subseteq Listings
      BY <1>0, <3>1 DEF Rushed
    <3> QED BY <1>0, <1>4, <2>1, <2>2, <3>1, <3>2, <3>3 DEF Insert
  <2> QED BY <2>3, <2>4
<1>5. CASE Drop(f)
  <2>1. Moves(f) /\ flow[f].code \in Codes
    BY <1>0, <1>5, EndFields DEF Drop, At, FlowFits
  <2>2. \A p \in Places : [place[p] EXCEPT !.link = NoCode] \in Place
    BY <1>0 DEF Place
  <2>3. place' \in [Places -> Place]
    BY <1>0, <1>5, <2>2 DEF Drop
  <2> QED BY <1>0, <1>5, <2>1, <2>3, Blank DEF Drop, histories
<1>6. CASE Lock(f)
  <2>1. flow[f].place \in Places /\ flow[f].was.link \in Codes \cup {NoCode}
    BY <1>0, <1>6 DEF Lock, At, FlowFits, Flow, Place
  <2>2. \/ UNCHANGED <<place, late>> /\ (Ends(f) \/ Goto(f, "find"))
        \/ Commits(f, NoCode) \/ Commits(f, flow[f].was.link)
    BY <1>6 DEF Lock
  <2>3. place' \in [Places -> Place] /\ late' \subseteq Codes /\ Moves(f)
    BY <1>0, <2>1, <2>2, CommitType, EndFields, GotoFields DEF Steps
  <2> QED BY <1>0, <1>6, <2>3 DEF Lock
<1>7. CASE Find(f)
  <2>1. flow[f].place \in Places
    BY <1>0, <1>7 DEF Find, At, FlowFits
  <2>2. \/ UNCHANGED <<place, late>> /\ Goto(f, "check")
        \/ \E link \in Codes \cup {NoCode} : Commits(f, link)
    BY <1>7 DEF Find, CodesOf
  <2>3. place' \in [Places -> Place] /\ late' \subseteq Codes /\ Moves(f)
    BY <1>0, <2>1, <2>2, CommitType, EndFields, GotoFields DEF Steps
  <2> QED BY <1>0, <1>7, <2>3 DEF Find
<1>8. CASE Check(f)
  <2>1. flow[f].place \in Places
    BY <1>0, <1>8 DEF Check, At, FlowFits
  <2>2. \/ UNCHANGED <<place, late>> /\ (Ends(f) \/ Goto(f, "mint"))
        \/ Commits(f, NoCode)
    BY <1>8 DEF Check
  <2>3. place' \in [Places -> Place] /\ late' \subseteq Codes /\ Moves(f)
    BY <1>0, <2>1, <2>2, CommitType, EndFields, GotoFields DEF Steps
  <2> QED BY <1>0, <1>8, <2>3 DEF Check
<1>9. CASE Mint(f)
  <2> DEFINE p == flow[f].place
  <2>1. Moves(f) /\ p \in Places /\ flow[f].live \in BOOLEAN
    BY <1>0, <1>9, EndFields DEF Mint, At, FlowFits, Flow
  <2>2. CASE minted = MaxCodes
    BY <1>0, <1>9, <2>1, <2>2 DEF Mint
  <2>3. CASE minted # MaxCodes
    <3> DEFINE row == [NotMade EXCEPT !.stored = TRUE, !.target = p, !.active = TRUE]
               new == [place[p] EXCEPT !.live = flow[f].live, !.link = minted + 1]
    <3>1. minted + 1 \in Codes /\ minted + 1 \in 0..MaxCodes
      BY <1>0, <2>3, BoundsAssumption DEF Codes
    <3>2. row \in Code
      BY <2>1, Blank DEF Code, Targets
    <3>3. new \in Place
      BY <1>0, <2>1, <3>1 DEF Place
    <3>4. code' = [code EXCEPT ![minted + 1] = row] /\ place' = [place EXCEPT ![p] = new] /\ minted' = minted + 1
      BY <1>9, <2>3 DEF Mint
    <3>5. late' \subseteq Codes /\ rushed' \subseteq Listings
      BY <1>0, <1>9, <2>3 DEF Mint, Rushed, CodesOf
    <3> HIDE DEF row, new
    <3> QED BY <1>0, <1>9, <2>1, <3>1, <3>2, <3>3, <3>4, <3>5 DEF Mint
  <2> QED BY <2>2, <2>3
<1>10. CASE Remove(f)
  <2>1. Moves(f)
    BY <1>10, EndFields DEF Remove
  <2>2. \A c \in Codes : [code[c] EXCEPT !.target = Nowhere] \in Code
    BY <1>0 DEF Code, Targets
  <2>3. code' \in [Codes -> Code] /\ place' \in [Places -> Place]
    BY <1>0, <1>10, <2>2, Blank DEF Remove
  <2> QED BY <1>0, <1>10, <2>1, <2>3 DEF Remove, histories
<1>11. CASE Clear(f)
  <2>1. Moves(f)
    BY <1>11, EndFields DEF Clear
  <2> QED BY <1>0, <1>11, <2>1 DEF Clear
<1>12. CASE Crash(f)
  <2>1. Moves(f)
    BY <1>12, EndFields DEF Crash
  <2> QED BY <1>0, <1>12, <2>1 DEF Crash
<1> QED
  BY <1>1, <1>2, <1>3, <1>4, <1>5, <1>6, <1>7, <1>8, <1>9, <1>10, <1>11, <1>12 DEF Proceeds

LEMMA TypeStep ==
    ASSUME TypeOK, FlowsFit, CountsBehind, CountMatchesLog, [Next]_vars PROVE TypeOK'
<1>1. ASSUME NEW f \in Flows, Opens(f) PROVE TypeOK'
  BY <1>1, OpensType, MoveType DEF TypeOK, Unchanged, histories
<1>2. ASSUME NEW c \in Codes, Expire(c) PROVE TypeOK'
  BY <1>2 DEF Expire, TypeOK
<1>3. CASE UNCHANGED vars
  BY <1>3 DEF TypeOK, vars
<1> QED BY <1>1, <1>2, <1>3, ProceedType DEF Next

-----------------------------------------------------------------------------
\* What flows are about.

LEMMA Histories == ASSUME [Next]_vars PROVE lost \subseteq lost' /\ rushed \subseteq rushed' /\ mix' = mix
<1> DEFINE Q == lost \subseteq lost' /\ rushed \subseteq rushed' /\ mix' = mix
<1>1. ASSUME NEW f \in Flows, Opens(f) PROVE Q
  BY <1>1 DEF Opens, Scan, Edit, Make, OpenDrop, Save, OpenRemove, histories
<1>2. ASSUME NEW f \in Flows, Proceeds(f) \/ Crash(f) PROVE Q
  <2>1. CASE Keep(f) \/ Count(f) \/ Drop(f) \/ Lock(f) \/ Find(f) \/ Check(f) \/ Remove(f) \/ Clear(f) \/ Crash(f)
    BY <2>1 DEF Keep, Count, Drop, Lock, Find, Check, Remove, Clear, Crash, histories
  <2>2. CASE Write(f)
    BY <2>2 DEF Write, Rushed
  <2>3. CASE Insert(f)
    BY <2>3 DEF Insert, Rushed
  <2>4. CASE Mint(f)
    BY <2>4 DEF Mint, Rushed
  <2> QED BY <1>2, <2>1, <2>2, <2>3, <2>4 DEF Proceeds
<1>3. ASSUME NEW c \in Codes, Expire(c) PROVE Q
  BY <1>3 DEF Expire
<1>4. CASE UNCHANGED vars
  BY <1>4 DEF vars, histories
<1> QED BY <1>1, <1>2, <1>3, <1>4 DEF Next

\* A step is one flow's, or none's.
LEMMA OneMoves ==
    ASSUME TypeOK, FlowsFit, CountsBehind, CountMatchesLog, [Next]_vars, NEW g \in Flows
    PROVE  flow'[g] = flow[g] \/ Opens(g) \/ Proceeds(g) \/ Crash(g)
<1>1. ASSUME NEW f \in Flows, Opens(f) \/ Proceeds(f) \/ Crash(f), f # g PROVE flow'[g] = flow[g]
  BY <1>1, OpensType, ProceedType, MoveType DEF TypeOK
<1>2. ASSUME NEW c \in Codes, Expire(c) PROVE flow'[g] = flow[g]
  BY <1>2 DEF Expire
<1> QED BY <1>1, <1>2 DEF Next, vars

LEMMA OpensFit ==
    ASSUME TypeOK, CountMatchesLog, NEW f \in Flows, Opens(f)
    PROVE  FlowFits(f)'
<1>0. lost' = lost /\ mix' = mix
  BY OpensType DEF Unchanged, histories
<1> USE DEF FlowFits, At
<1>1. ASSUME NEW c \in 1..minted, Scan(f, c) PROVE FlowFits(f)'
  BY <1>1, ScanOpens
<1>2. ASSUME NEW c \in Codes, NEW admin \in BOOLEAN, NEW asked \in Requests, Edit(f, c, admin, asked) PROVE FlowFits(f)'
  BY <1>2, EditOpens
<1>3. ASSUME NEW asked \in Requests, Make(f, asked) PROVE FlowFits(f)'
  BY <1>3, MakeOpens
<1>4. ASSUME NEW c \in Codes, OpenDrop(f, c) PROVE FlowFits(f)'
  BY <1>0, <1>4, DropOpens
<1>5. ASSUME NEW p \in Places, OpenRemove(f, p), p \in Articles => mix[f] \cap {"publish", "discard"} # {}
      PROVE  FlowFits(f)'
  BY <1>0, <1>5, RemoveOpens
<1>6. ASSUME NEW p \in Places, NEW live \in BOOLEAN, NEW silver \in BOOLEAN, Save(f, p, live, silver),
             p \in Articles => mix[f] \cap {"publish", "discard"} # {}
      PROVE  FlowFits(f)'
  BY <1>0, <1>6, SaveOpens
<1>7. \A p \in Listings : p \in Places /\ p \notin Articles
  BY PlacesAssumption DEF Places
<1>8. \A p \in Articles : p \in Places
  BY DEF Places
<1> HIDE DEF FlowFits, At
<1> QED BY <1>1, <1>2, <1>3, <1>4, <1>5, <1>6, <1>7, <1>8 DEF Opens

LEMMA ProceedsFit ==
    ASSUME TypeOK, FlowsFit, NEW f \in Flows, Proceeds(f) \/ Crash(f)
    PROVE  FlowFits(f)'
<1> USE DEF FlowFits, At
<1>1. CASE Ends(f) \/ Done(f)
  BY <1>1, EndFields
<1>2. CASE Keep(f)
  BY <1>2, GotoFields DEF Keep, Steps, FlowsFit
<1>3. CASE Lock(f)
  BY <1>1, <1>3, GotoFields, PlacesAssumption DEF Lock, Steps, FlowsFit, Commits, Places
<1>4. CASE Find(f)
  BY <1>1, <1>4, GotoFields DEF Find, Steps, FlowsFit, Commits
<1>5. CASE Check(f)
  BY <1>1, <1>5, GotoFields DEF Check, Steps, FlowsFit, Commits
<1>6. CASE Count(f) \/ Write(f) \/ Insert(f) \/ Drop(f) \/ Mint(f) \/ Remove(f) \/ Clear(f) \/ Crash(f)
  BY <1>1, <1>6 DEF Count, Write, Insert, Drop, Mint, Remove, Clear, Crash
<1> QED BY <1>2, <1>3, <1>4, <1>5, <1>6 DEF Proceeds

LEMMA FlowsStep ==
    ASSUME TypeOK, FlowsFit, CountsBehind, CountMatchesLog, [Next]_vars PROVE FlowsFit'
<1> SUFFICES ASSUME NEW g \in Flows PROVE FlowFits(g)'
  BY DEF FlowsFit
<1>1. CASE flow'[g] = flow[g]
  BY <1>1, Histories DEF FlowsFit, FlowFits, At
<1> QED BY <1>1, OneMoves, OpensFit, ProceedsFit

-----------------------------------------------------------------------------
\* Counts.

\* What a step does to one code: nothing, a scan, a write of a copy, a removal of
\* its place, its deletion, or its making.
Scanned(c) == /\ code[c].stored /\ code' = [code EXCEPT ![c].scans = @ + 1] /\ log' = [log EXCEPT ![c] = @ + 1]
              /\ UNCHANGED <<place, minted, lost>>

Written(f) == /\ At(f, "write") /\ code[flow[f].code].stored
              /\ code' = [code EXCEPT ![flow[f].code] = flow[f].next]
              /\ lost' = IF code[flow[f].code] # flow[f].seen THEN lost \cup {flow[f].code} ELSE lost
              /\ UNCHANGED <<place, log, minted>>

Created(row) == /\ minted < MaxCodes /\ minted' = minted + 1 /\ code' = [code EXCEPT ![minted + 1] = row]
                /\ row.scans = 0 /\ UNCHANGED <<log, lost>>

Deleted(f) == /\ At(f, "drop") /\ code' = [code EXCEPT ![flow[f].code] = NotMade]
              /\ UNCHANGED <<log, minted, lost>>

Emptied(f) == /\ At(f, "remove") /\ UNCHANGED <<log, minted, lost>>
              /\ code' = [c \in Codes |-> IF c \in CodesOf(flow[f].place) THEN [code[c] EXCEPT !.target = Nowhere]
                                          ELSE code[c]]

MintedFor(p) == [NotMade EXCEPT !.stored = TRUE, !.target = p, !.active = TRUE]

Quiet == UNCHANGED <<code, log, minted, lost>>

Commit(f) ==
    /\ flow'[f].at \in {"idle", "clear"}
    /\ \/ Written(f) /\ Rushed(f, flow[f].next.target)
       \/ Deleted(f) \/ Emptied(f)
       \/ At(f, "insert") /\ Created(flow[f].next) /\ Rushed(f, flow[f].next.target)
       \/ At(f, "mint") /\ Created(MintedFor(flow[f].place)) /\ Rushed(f, flow[f].place)

LEMMA CodeSteps ==
    ASSUME TypeOK, FlowsFit, CountMatchesLog, [Next]_vars
    PROVE  Quiet \/ (\E c \in Codes : Scanned(c)) \/ (\E f \in Flows : Commit(f) /\ Proceeds(f))
<1> DEFINE Q == Quiet \/ (\E c \in Codes : Scanned(c)) \/ (\E f \in Flows : Commit(f) /\ Proceeds(f))
<1>1. ASSUME NEW f \in Flows, Opens(f) PROVE Quiet
  BY <1>1, OpensType DEF Unchanged, histories, Quiet
<1>2. ASSUME NEW c \in Codes, Expire(c) PROVE Quiet
  BY <1>2 DEF Expire, Quiet
<1>3. CASE UNCHANGED vars
  BY <1>3 DEF vars, Quiet, histories
<1>4. ASSUME NEW f \in Flows, Crash(f) \/ Keep(f) \/ Lock(f) \/ Find(f) \/ Check(f) \/ Clear(f) PROVE Quiet
  BY <1>4 DEF Crash, Keep, Lock, Find, Check, Clear, Quiet
<1>5. ASSUME NEW f \in Flows, Count(f) PROVE Q
  <2>1. flow[f].code \in Codes
    BY <1>5 DEF Count, At, FlowsFit, FlowFits
  <2>2. Quiet \/ Scanned(flow[f].code)
    BY <1>5 DEF Count, Quiet, Scanned, histories
  <2> QED BY <2>1, <2>2
<1>6. ASSUME NEW f \in Flows, Write(f) PROVE Quiet \/ Commit(f)
  <2>1. CASE ~code[flow[f].code].stored \/ ~Kept(flow[f].next.target)
    BY <1>6, <2>1 DEF Write, Quiet
  <2>2. CASE ~(~code[flow[f].code].stored \/ ~Kept(flow[f].next.target))
    BY <1>6, <2>2, EndFields DEF Write, Commit, Written
  <2> QED BY <2>1, <2>2
<1>7. ASSUME NEW f \in Flows, Insert(f) PROVE Quiet \/ Commit(f)
  <2>1. CASE minted = MaxCodes \/ ~Kept(flow[f].next.target)
    BY <1>7, <2>1 DEF Insert, Quiet
  <2>2. CASE ~(minted = MaxCodes \/ ~Kept(flow[f].next.target))
    <3>1. minted < MaxCodes
      BY <2>2, BoundsAssumption DEF TypeOK
    <3>2. flow[f].next.scans = 0
      BY <1>7 DEF Insert, FlowsFit, FlowFits
    <3> QED BY <1>7, <2>2, <3>1, <3>2, EndFields DEF Insert, Commit, Created
  <2> QED BY <2>1, <2>2
<1>8. ASSUME NEW f \in Flows, Mint(f) PROVE Quiet \/ Commit(f)
  <2>1. CASE minted = MaxCodes
    BY <1>8, <2>1 DEF Mint, Quiet
  <2>2. CASE minted # MaxCodes
    <3> DEFINE row == [NotMade EXCEPT !.stored = TRUE, !.target = flow[f].place, !.active = TRUE]
    <3>1. minted < MaxCodes
      BY <2>2, BoundsAssumption DEF TypeOK
    <3>2. row.scans = 0
      BY DEF NotMade
    <3>3. /\ At(f, "mint") /\ Done(f) /\ minted' = minted + 1 /\ code' = [code EXCEPT ![minted + 1] = row]
          /\ UNCHANGED <<log, lost>> /\ Rushed(f, flow[f].place)
      BY <1>8, <2>2 DEF Mint
    <3> HIDE DEF row
    <3>4. Created(row) /\ flow'[f].at = "clear"
      BY <3>1, <3>2, <3>3, EndFields DEF Created
    <3> QED BY <3>3, <3>4 DEF Commit, row, MintedFor
  <2> QED BY <2>1, <2>2
<1>9. ASSUME NEW f \in Flows, Drop(f) PROVE Commit(f)
  BY <1>9, EndFields DEF Drop, Commit, Deleted, histories
<1>10. ASSUME NEW f \in Flows, Remove(f) PROVE Quiet \/ Commit(f)
  <2>1. CASE ~place[flow[f].place].stored
    BY <1>10, <2>1 DEF Remove, Quiet, histories
  <2>2. CASE place[flow[f].place].stored
    <3>1. flow'[f].at \in {"idle", "clear"}
      BY <1>10, EndFields DEF Remove
    <3>2. Emptied(f)
      BY <1>10, <2>2 DEF Remove, Emptied, histories
    <3> QED BY <3>1, <3>2 DEF Commit
  <2> QED BY <2>1, <2>2
<1> QED BY <1>1, <1>2, <1>3, <1>4, <1>5, <1>6, <1>7, <1>8, <1>9, <1>10 DEF Next, Proceeds

\* Where flows that move arrive, and what they have seen when they are to write.
LEMMA OpensAt ==
    ASSUME TypeOK, CountMatchesLog, NEW f \in Flows, Opens(f)
    PROVE  \/ flow'[f].at \in {"keep", "count", "drop", "remove", "lock"}
           \/ /\ flow'[f].at = "write"
              /\ flow'[f].code \in Codes /\ flow'[f].seen = code[flow'[f].code] /\ flow'[f].seen.stored
              /\ flow'[f].next.target # flow'[f].seen.target => OnlyCode(flow'[f].code, flow'[f].next.target)
           \/ flow'[f].at = "insert" /\ OnlyCode(NoCode, flow'[f].next.target)
<1> DEFINE Q == \/ flow'[f].at \in {"keep", "count", "drop", "remove", "lock"}
                \/ /\ flow'[f].at = "write"
                   /\ flow'[f].code \in Codes /\ flow'[f].seen = code[flow'[f].code] /\ flow'[f].seen.stored
                   /\ flow'[f].next.target # flow'[f].seen.target => OnlyCode(flow'[f].code, flow'[f].next.target)
                \/ flow'[f].at = "insert" /\ OnlyCode(NoCode, flow'[f].next.target)
<1>1. ASSUME NEW c \in 1..minted, Scan(f, c) PROVE Q
  BY <1>1, ScanOpens
<1>2. ASSUME NEW c \in Codes, NEW admin \in BOOLEAN, NEW asked \in Requests, Edit(f, c, admin, asked) PROVE Q
  BY <1>2, EditOpens DEF EditFits
<1>3. ASSUME NEW asked \in Requests, Make(f, asked) PROVE Q
  BY <1>3, MakeOpens
<1>4. ASSUME NEW c \in Codes, OpenDrop(f, c) PROVE Q
  BY <1>4, DropOpens
<1>5. ASSUME NEW p \in Places, OpenRemove(f, p) PROVE Q
  BY <1>5, RemoveOpens
<1>6. ASSUME NEW p \in Places, NEW live \in BOOLEAN, NEW silver \in BOOLEAN, Save(f, p, live, silver) PROVE Q
  BY <1>6, SaveOpens
<1>7. Q
  BY <1>1, <1>2, <1>3, <1>4, <1>5, <1>6 DEF Opens, Places
<1> QED BY <1>7

LEMMA ProceedsAt ==
    ASSUME TypeOK, NEW f \in Flows, Proceeds(f) \/ Crash(f)
    PROVE  \/ flow'[f].at \in {"idle", "clear", "count", "find", "check"}
           \/ /\ flow'[f].at = "mint" /\ flow'[f].place = flow[f].place /\ OnlyCode(NoCode, flow[f].place)
              /\ Quiet /\ rushed' = rushed
<1>1. CASE Ends(f) \/ Done(f)
  BY <1>1, EndFields
<1>2. CASE Keep(f)
  BY <1>2, GotoFields DEF Keep, Steps
<1>3. CASE Lock(f)
  BY <1>1, <1>3, GotoFields DEF Lock, Steps, Commits
<1>4. CASE Find(f)
  BY <1>1, <1>4, GotoFields DEF Find, Steps, Commits
<1>5. CASE Check(f)
  BY <1>1, <1>5, GotoFields DEF Check, Steps, Commits, Quiet
<1>6. CASE Count(f) \/ Write(f) \/ Insert(f) \/ Drop(f) \/ Mint(f) \/ Remove(f) \/ Clear(f) \/ Crash(f)
  BY <1>1, <1>6 DEF Count, Write, Insert, Drop, Mint, Remove, Clear, Crash
<1> QED BY <1>2, <1>3, <1>4, <1>5, <1>6 DEF Proceeds

\* Made codes stay within the bound, and those not made stay blank.
LEMMA CountsStep ==
    ASSUME TypeOK, MadeInOrder, FlowsFit, CountsBehind, CountMatchesLog, [Next]_vars
    PROVE  /\ MadeInOrder' /\ CountMatchesLog'
           /\ \A c \in Codes : log[c] <= log'[c] /\ (code'[c].stored => code'[c].scans <= log'[c])
<1> DEFINE Right(c) == /\ c > minted => ~code[c].stored /\ log[c] = 0
                       /\ c \notin lost /\ code[c].stored => code[c].scans = log[c]
                       /\ code[c].stored => code[c].scans <= log[c]
<1> SUFFICES ASSUME NEW c \in Codes PROVE Right(c)' /\ log[c] <= log'[c]
  BY DEF MadeInOrder, CountMatchesLog
<1>1. Right(c)
  BY DEF MadeInOrder, CountMatchesLog, CountsBehind
<1>2. code[c] \in Code /\ code[c].scans \in Nat /\ log[c] \in Nat /\ minted \in Nat /\ c \in Nat
  <2>1. code[c] \in Code /\ log[c] \in 0..MaxScans /\ minted \in 0..MaxCodes
    BY DEF TypeOK
  <2>2. code[c].scans \in 0..MaxScans
    BY <2>1 DEF Code
  <2> QED BY <2>1, <2>2, BoundsAssumption DEF Codes
<1>3. CASE Quiet
  BY <1>1, <1>2, <1>3 DEF Quiet
<1>4. ASSUME NEW d \in Codes, Scanned(d) PROVE Right(c)' /\ log[c] <= log'[c]
  <2>1. CASE d = c
    <3>1. /\ code'[c].scans = code[c].scans + 1 /\ log'[c] = log[c] + 1 /\ code'[c].stored /\ code[c].stored
          /\ minted' = minted /\ lost' = lost
      BY <1>2, <1>4, <2>1 DEF Scanned, TypeOK, Code
    <3> QED BY <1>1, <1>2, <3>1
  <2>2. CASE d # c
    <3>1. code'[c] = code[c] /\ log'[c] = log[c] /\ minted' = minted /\ lost' = lost
      BY <1>4, <2>2 DEF Scanned, TypeOK
    <3> QED BY <1>1, <1>2, <3>1
  <2> QED BY <2>1, <2>2
<1>5. ASSUME NEW f \in Flows, Written(f) PROVE Right(c)' /\ log[c] <= log'[c]
  <2>0. log'[c] = log[c] /\ minted' = minted
    BY <1>5 DEF Written
  <2>1. CASE flow[f].code = c
    <3>1. /\ code'[c] = flow[f].next /\ code[c].stored
          /\ c \notin lost' => c \notin lost /\ code[c] = flow[f].seen
      BY <1>5, <2>1 DEF Written, TypeOK
    <3>2. EditFits(flow[f].seen, flow[f].next) /\ flow[f].seen.scans <= log[c]
      BY <1>5, <2>1 DEF Written, FlowsFit, FlowFits, CountsBehind
    <3> QED BY <1>1, <1>2, <2>0, <3>1, <3>2 DEF EditFits
  <2>2. CASE flow[f].code # c
    <3>1. code'[c] = code[c] /\ (c \in lost' <=> c \in lost)
      BY <1>5, <2>2 DEF Written, TypeOK
    <3> QED BY <1>1, <1>2, <2>0, <3>1
  <2> QED BY <2>1, <2>2
<1>6. ASSUME NEW f \in Flows, Deleted(f) \/ Emptied(f) PROVE Right(c)' /\ log[c] <= log'[c]
  <2>1. log'[c] = log[c] /\ minted' = minted /\ lost' = lost
    BY <1>6 DEF Deleted, Emptied
  <2>2. code'[c] = NotMade \/ (code'[c].stored = code[c].stored /\ code'[c].scans = code[c].scans)
    BY <1>2, <1>6 DEF Deleted, Emptied, TypeOK, Code
  <2> QED BY <1>1, <1>2, <2>1, <2>2 DEF NotMade
<1>7. ASSUME NEW row, Created(row) PROVE Right(c)' /\ log[c] <= log'[c]
  <2>1. log'[c] = log[c] /\ minted' = minted + 1 /\ lost' = lost /\ row.scans = 0
    BY <1>7 DEF Created
  <2>2. CASE c = minted + 1
    <3>1. code'[c] = row /\ log[c] = 0
      BY <1>1, <1>2, <1>7, <2>2 DEF Created, TypeOK
    <3> QED BY <1>2, <2>1, <2>2, <3>1
  <2>3. CASE c # minted + 1
    <3>1. code'[c] = code[c]
      BY <1>7, <2>3 DEF Created, TypeOK
    <3> QED BY <1>1, <1>2, <2>1, <2>3, <3>1
  <2> QED BY <2>2, <2>3
<1> HIDE DEF Right
<1> QED BY <1>3, <1>4, <1>5, <1>6, <1>7, CodeSteps DEF Commit

LEMMA BehindStep ==
    ASSUME TypeOK, MadeInOrder, FlowsFit, CountsBehind, CountMatchesLog, [Next]_vars
    PROVE  CountsBehind'
<1>1. ASSUME NEW f \in Flows, flow'[f].at = "write" PROVE flow'[f].seen.scans <= log'[flow'[f].code]
  <2>1. CASE flow'[f] = flow[f]
    <3>1. flow[f].code \in Codes /\ flow[f].seen.scans <= log[flow[f].code]
      BY <1>1, <2>1 DEF FlowsFit, FlowFits, CountsBehind, At
    <3>2. log[flow[f].code] <= log'[flow[f].code] /\ log[flow[f].code] \in Nat /\ log'[flow[f].code] \in Nat
      BY <3>1, CountsStep, TypeStep, BoundsAssumption DEF TypeOK
    <3>3. flow[f].seen.scans \in Nat
      BY BoundsAssumption DEF TypeOK, Flow, Code
    <3> QED BY <2>1, <3>1, <3>2, <3>3
  <2>2. CASE Opens(f)
    <3>1. /\ flow'[f].code \in Codes /\ flow'[f].seen = code[flow'[f].code] /\ flow'[f].seen.stored
          /\ log' = log
      BY <1>1, <2>2, OpensAt, OpensType DEF Unchanged
    <3> QED BY <3>1 DEF CountsBehind
  <2> QED BY <1>1, <2>1, <2>2, OneMoves, ProceedsAt
<1> QED BY <1>1, CountsStep DEF CountsBehind, At

-----------------------------------------------------------------------------
\* One code to a listing.

\* A code comes to lead to a listing by a flow that was on its way to give it one.
LEMMA Gains ==
    ASSUME TypeOK, FlowsFit, CountMatchesLog, [Next]_vars, NEW p \in Listings
    PROVE  \/ Counted(p)' \subseteq Counted(p)
           \/ \E f \in Flows, c \in Codes :
                 /\ Proceeds(f) /\ Adds(f, p) /\ (At(f, "write") => c = flow[f].code)
                 /\ Counted(p)' \subseteq Counted(p) \cup {c}
                 /\ flow'[f].at \in {"idle", "clear"}
                 /\ OnItsWay(f, p) => p \in rushed'
<1> DEFINE Gain(f, c) == /\ Adds(f, p) /\ (At(f, "write") => c = flow[f].code)
                         /\ Counted(p)' \subseteq Counted(p) \cup {c}
                         /\ OnItsWay(f, p) => p \in rushed'
           Old(c) == c \in Counted(p)' => c \in Counted(p)
<1>0. lost \subseteq lost' /\ Counted(p)' \subseteq Codes
  BY Histories DEF Counted, CodesOf
<1>1. ASSUME NEW c \in Codes, code'[c].stored => code[c].stored, code'[c].target = p => code[c].target = p
      PROVE  Old(c)
  BY <1>0, <1>1 DEF Counted, CodesOf
<1>2. ASSUME Quiet PROVE \A d \in Codes : Old(d)
  BY <1>0, <1>1, <1>2 DEF Quiet
<1>3. ASSUME NEW c \in Codes, Scanned(c) PROVE \A d \in Codes : Old(d)
  <2>1. \A d \in Codes : code'[d].stored = code[d].stored /\ code'[d].target = code[d].target
    BY <1>3 DEF Scanned, TypeOK, Code
  <2> QED BY <1>1, <2>1
<1>4. ASSUME NEW f \in Flows, Deleted(f) \/ Emptied(f) PROVE \A d \in Codes : Old(d)
  <2>1. \A d \in Codes : \/ code'[d] = NotMade \/ code'[d] = code[d]
                         \/ code'[d] = [code[d] EXCEPT !.target = Nowhere]
    BY <1>4 DEF Deleted, Emptied, TypeOK
  <2>2. \A d \in Codes : code[d] \in Code
    BY DEF TypeOK
  <2>3. Nowhere # p /\ ~NotMade.stored
    BY PlacesAssumption DEF Places, NotMade
  <2>4. \A d \in Codes : [code[d] EXCEPT !.target = Nowhere].target = Nowhere
    BY <2>2 DEF Code
  <2>5. ASSUME NEW d \in Codes PROVE code'[d] = code[d] \/ ~code'[d].stored \/ code'[d].target = Nowhere
    BY <2>1, <2>3, <2>4
  <2>6. \A d \in Codes : d \in Counted(p)' => code'[d].stored /\ code'[d].target = p
    BY DEF Counted, CodesOf
  <2>7. ASSUME NEW d \in Codes, code'[d] = code[d] PROVE Old(d)
    BY <1>1, <2>7
  <2> HIDE DEF Gain
  <2> QED BY <2>3, <2>5, <2>6, <2>7
<1>5. ASSUME NEW f \in Flows, Written(f), Rushed(f, flow[f].next.target)
      PROVE  (\A d \in Codes : Old(d)) \/ Gain(f, flow[f].code)
  <2> DEFINE c == flow[f].code
  <2>0. c \in Codes /\ At(f, "write")
    BY <1>5 DEF Written, FlowsFit, FlowFits, At
  <2>1. \A d \in Codes : d # c => Old(d)
    <3>1. \A d \in Codes : d # c => code'[d] = code[d]
      BY <1>5 DEF Written, TypeOK
    <3> QED BY <1>1, <3>1
  <2>2. code'[c] = flow[f].next /\ (c \notin lost' => code[c] = flow[f].seen)
    BY <1>5, <2>0 DEF Written, TypeOK
  <2>3. CASE flow[f].next.target # p
    BY <2>0, <2>1, <2>2, <2>3 DEF Counted, CodesOf
  <2>4. CASE flow[f].next.target = p /\ flow[f].seen.target = p
    <3>1. Old(c)
      BY <1>0, <1>5, <2>0, <2>2, <2>4 DEF Counted, CodesOf, Written
    <3> QED BY <2>1, <3>1
  <2>5. CASE flow[f].next.target = p /\ flow[f].seen.target # p
    <3>1. Adds(f, p) /\ (OnItsWay(f, p) => p \in rushed')
      BY <1>5, <2>0, <2>5 DEF Adds, Rushed
    <3> QED BY <1>0, <2>1, <3>1
  <2> QED BY <2>3, <2>4, <2>5
<1>6. ASSUME NEW f \in Flows, NEW row, Created(row), Rushed(f, row.target), ~At(f, "write"),
             row.target = p => Adds(f, p)
      PROVE  minted + 1 \in Codes /\ ((\A d \in Codes : Old(d)) \/ Gain(f, minted + 1))
  <2> DEFINE c == minted + 1
  <2>0. c \in Codes
    BY <1>6, BoundsAssumption DEF Created, TypeOK, Codes
  <2>1. \A d \in Codes : d # c => Old(d)
    <3>1. \A d \in Codes : d # c => code'[d] = code[d]
      BY <1>6 DEF Created, TypeOK
    <3> HIDE DEF c
    <3> QED BY <1>1, <3>1
  <2>2. code'[c] = row
    BY <1>6, <2>0 DEF Created, TypeOK
  <2> HIDE DEF c
  <2>3. CASE row.target # p
    BY <2>0, <2>1, <2>2, <2>3 DEF Counted, CodesOf, c
  <2>4. CASE row.target = p
    BY <1>0, <1>6, <2>0, <2>1, <2>4 DEF Rushed, c
  <2> QED BY <2>3, <2>4
<1>7. ASSUME NEW f \in Flows, Commit(f) PROVE (\A d \in Codes : Old(d)) \/ \E c \in Codes : Gain(f, c)
  <2>1. CASE Written(f) /\ Rushed(f, flow[f].next.target)
    <3>1. flow[f].code \in Codes
      BY <2>1 DEF Written, FlowsFit, FlowFits, At
    <3> QED BY <1>5, <2>1, <3>1
  <2>2. CASE Deleted(f) \/ Emptied(f)
    BY <1>4, <2>2
  <2>3. CASE At(f, "insert") /\ Created(flow[f].next) /\ Rushed(f, flow[f].next.target)
    <3>1. ~At(f, "write") /\ (flow[f].next.target = p => Adds(f, p))
      BY <2>3 DEF At, Adds
    <3> QED BY <1>6, <2>3, <3>1
  <2>4. CASE At(f, "mint") /\ Created(MintedFor(flow[f].place)) /\ Rushed(f, flow[f].place)
    <3>1. MintedFor(flow[f].place).target = flow[f].place
      BY DEF MintedFor, NotMade
    <3>2. ~At(f, "write") /\ (flow[f].place = p => Adds(f, p))
      BY <2>4 DEF At, Adds
    <3> QED BY <1>6, <2>4, <3>1, <3>2
  <2> QED BY <1>7, <2>1, <2>2, <2>3, <2>4 DEF Commit
<1>8. CASE \A d \in Codes : Old(d)
  BY <1>0, <1>8
<1>9. ASSUME NEW f \in Flows, Commit(f), Proceeds(f), NEW c \in Codes, Gain(f, c)
      PROVE  /\ Proceeds(f) /\ Adds(f, p) /\ (At(f, "write") => c = flow[f].code)
             /\ Counted(p)' \subseteq Counted(p) \cup {c}
             /\ flow'[f].at \in {"idle", "clear"}
             /\ OnItsWay(f, p) => p \in rushed'
  BY <1>9 DEF Commit
<1>10. \/ \A d \in Codes : Old(d)
       \/ \E f \in Flows, c \in Codes : Commit(f) /\ Proceeds(f) /\ Gain(f, c)
  <2> HIDE DEF Gain, Old
  <2>1. CASE Quiet
    BY <1>2, <2>1
  <2>2. CASE \E c \in Codes : Scanned(c)
    BY <1>3, <2>2
  <2>3. CASE \E f \in Flows : Commit(f) /\ Proceeds(f)
    BY <1>7, <2>3
  <2> QED BY <2>1, <2>2, <2>3, CodeSteps
<1> QED BY <1>8, <1>9, <1>10

LEMMA PlacesStep ==
    ASSUME TypeOK, FlowsFit, CountsBehind, CountMatchesLog, PlacesChecked, OneCodeEach, [Next]_vars
    PROVE  PlacesChecked' /\ OneCodeEach'
<1> SUFFICES ASSUME NEW p \in Listings, p \notin rushed'
             PROVE  /\ \A f \in Flows : Adds(f, p)' => NoneButOwn(f, p)'
                    /\ \A c, d \in Counted(p)' : c = d
  BY DEF PlacesChecked, OneCodeEach
<1>0. p \notin rushed
  BY Histories
<1>1. ASSUME NEW f \in Flows, NEW c \in Codes, Adds(f, p), At(f, "write") => c = flow[f].code
      PROVE  Counted(p) \subseteq {c}
  BY <1>0, <1>1 DEF PlacesChecked, NoneButOwn
<1>2. \A c, d \in Counted(p)' : c = d
  BY <1>0, <1>1, Gains DEF OneCodeEach
<1>3. ASSUME NEW f \in Flows, Adds(f, p)', flow'[f] = flow[f] PROVE NoneButOwn(f, p)'
  <2>1. Adds(f, p) /\ flow[f].at \in {"write", "insert", "mint"} /\ NoneButOwn(f, p)
    BY <1>0, <1>3 DEF Adds, At, PlacesChecked
  <2>2. ASSUME NEW g \in Flows, flow'[g].at \in {"idle", "clear"} PROVE OnItsWay(g, p)
    BY <1>3, <2>1, <2>2 DEF OnItsWay, Adds, At
  <2>3. Counted(p)' \subseteq Counted(p)
    BY <2>2, Gains
  <2> QED BY <1>3, <2>1, <2>3 DEF NoneButOwn, At
<1>4. NoCode \notin Codes /\ CodesOf(p) \subseteq Codes
  BY DEF NoCode, Codes, CodesOf
<1>5. ASSUME NEW f \in Flows, Adds(f, p)', Opens(f) PROVE NoneButOwn(f, p)'
  <2>1. Counted(p)' = Counted(p)
    BY <1>5, OpensType DEF Unchanged, histories, Counted, CodesOf
  <2>2. CASE flow'[f].at = "write"
    BY <1>5, <2>1, <2>2, OpensAt DEF Adds, At, OnlyCode, NoneButOwn, Counted
  <2>3. CASE flow'[f].at = "insert"
    BY <1>4, <1>5, <2>1, <2>3, OpensAt DEF Adds, At, OnlyCode, NoneButOwn, Counted
  <2> QED BY <1>5, <2>2, <2>3, OpensAt DEF Adds, At
<1>6. ASSUME NEW f \in Flows, Adds(f, p)', Proceeds(f) \/ Crash(f) PROVE NoneButOwn(f, p)'
  <2>1. flow'[f].at = "mint" /\ flow'[f].place = p /\ OnlyCode(NoCode, p) /\ Quiet
    BY <1>6, ProceedsAt DEF Adds, At
  <2>2. Counted(p)' = Counted(p)
    BY <2>1 DEF Quiet, Counted, CodesOf
  <2> QED BY <1>4, <2>1, <2>2 DEF OnlyCode, NoneButOwn, Counted, At
<1> QED BY <1>2, <1>3, <1>5, <1>6, OneMoves

-----------------------------------------------------------------------------
\* Destinations.

LEMMA StayStep ==
    ASSUME TypeOK, MadeInOrder, FlowsFit, CountMatchesLog, [Next]_vars, NEW c \in InPrint \ lost'
    PROVE  \/ code'[c].stored /\ code'[c].target = code[c].target
           \/ code[c].target = Nowhere /\ code'[c].target \in Listings
           \/ \E f \in Flows : /\ flow[f].at \in {"write", "drop", "remove"} /\ flow'[f] # flow[f]
                               /\ c \notin flow[f].printed
<1>0. c \in Codes /\ code[c] \in Code /\ code[c].stored /\ (log[c] > 0 \/ code[c].issue) /\ c \notin lost
  BY Histories DEF InPrint, TypeOK
<1>1. CASE code'[c] = code[c]
  BY <1>0, <1>1
<1>2. ASSUME NEW d \in Codes, Scanned(d) PROVE code'[c].stored /\ code'[c].target = code[c].target
  BY <1>0, <1>2 DEF Scanned, TypeOK, Code
<1>3. ASSUME NEW f \in Flows, Written(f), c = flow[f].code
      PROVE  \/ code'[c].stored /\ code'[c].target = code[c].target
             \/ code[c].target = Nowhere /\ code'[c].target \in Listings
  <2>1. code'[c] = flow[f].next /\ code[c] = flow[f].seen
    BY <1>0, <1>3 DEF Written, TypeOK
  <2>2. Committed(code[c])
    BY <1>0 DEF Committed, CountMatchesLog
  <2>3. EditFits(flow[f].seen, flow[f].next)
    BY <1>3 DEF Written, FlowsFit, FlowFits
  <2> QED BY <2>1, <2>2, <2>3 DEF EditFits
<1>4. ASSUME NEW f \in Flows, Deleted(f) \/ Emptied(f), flow'[f].at \in {"idle", "clear"}
      PROVE  /\ flow[f].at \in {"drop", "remove"} /\ flow'[f] # flow[f] /\ c \notin flow[f].printed
  BY <1>0, <1>4 DEF Deleted, Emptied, FlowsFit, FlowFits, At
<1>5. ASSUME NEW row, Created(row) PROVE code'[c] = code[c]
  <2>1. c # minted + 1
    <3>1. minted \in Nat /\ minted + 1 > minted
      BY BoundsAssumption DEF TypeOK
    <3> QED BY <1>0, <3>1 DEF MadeInOrder
  <2> QED BY <1>0, <1>5, <2>1 DEF Created, TypeOK
<1>6. ASSUME NEW f \in Flows, Written(f), c # flow[f].code PROVE code'[c] = code[c]
  BY <1>0, <1>6 DEF Written, TypeOK
<1>7. CASE Quiet
  BY <1>1, <1>7 DEF Quiet
<1>8. CASE \E f \in Flows : Commit(f)
  BY <1>1, <1>3, <1>4, <1>5, <1>6, <1>8 DEF Commit
<1> QED BY <1>2, <1>7, <1>8, CodeSteps

\* A code leads where it led while it and its place are published as before.
LEMMA SameLead ==
    ASSUME NEW c \in Codes,
           code'[c].stored = code[c].stored, code'[c].active = code[c].active, code'[c].target = code[c].target,
           code[c].stored /\ code[c].target \in Places =>
               /\ place'[code[c].target].stored = place[code[c].target].stored
               /\ place'[code[c].target].live = place[code[c].target].live
    PROVE  LeadsTo(code[c])' = LeadsTo(code[c])
BY DEF LeadsTo

\* What a save of a listing that nobody is waiting on leaves in the cache is as
\* right as before it, or was overtaken.
LEMMA CommitFollows ==
    ASSUME TypeOK, NEW f \in Flows, flow[f].place \in Listings, NEW link, Commits(f, link), UNCHANGED code,
           flow'[f].at # "clear", NEW c \in Codes
    PROVE  /\ late \subseteq late'
           /\ LeadsTo(code[c])' = LeadsTo(code[c]) \/ c \in late'
<1> DEFINE p == flow[f].place
<1>1. p \in Places /\ place[p] \in Place
  BY DEF Places, TypeOK
<1>2. flow[f].live = flow[f].was.live
  BY EndFields DEF Commits
<1>3. /\ \A q \in Places : q # p => place'[q] = place[q]
      /\ place'[p].stored = place[p].stored /\ place'[p].live = flow[f].live
  BY <1>1 DEF Commits, TypeOK, Place
<1>4. late' = IF place[p] # flow[f].was THEN late \cup CodesOf(p) ELSE late
  BY DEF Commits
<1>5. CASE place[p] = flow[f].was
  BY <1>2, <1>3, <1>4, <1>5, SameLead
<1>6. CASE place[p] # flow[f].was
  <2>1. CASE c \in CodesOf(p)
    BY <1>4, <1>6, <2>1
  <2>2. CASE c \notin CodesOf(p)
    BY <1>3, <1>4, <1>6, <2>2, SameLead DEF CodesOf
  <2> QED BY <2>1, <2>2
<1> QED BY <1>5, <1>6

LEMMA FollowStep ==
    ASSUME TypeOK, FlowsFit, CountsBehind, CountMatchesLog, ListingCodesFollow, [Next]_vars
    PROVE  ListingCodesFollow'
<1> SUFFICES ASSUME \A f \in Flows : mix[f] \cap {"publish", "discard"} = {}, \A f \in Flows : ~At(f, "clear")',
                    NEW c \in Codes, Stale(c)'
             PROVE  c \in late'
  BY Histories DEF ListingCodesFollow, Explained, At
<1>0. ASSUME \A f \in Flows : ~At(f, "clear"), Stale(c) PROVE c \in late
  BY <1>0 DEF ListingCodesFollow, Explained
<1>1. ASSUME NEW f \in Flows, ~At(f, "clear"), Opens(f) \/ Proceeds(f) \/ Crash(f), NEW g \in Flows
      PROVE  ~At(g, "clear")
  BY <1>1, OpensType, ProceedType, MoveType DEF TypeOK, At
<1>2. CASE UNCHANGED <<code, place, entry, late>> /\ \A f \in Flows : ~At(f, "clear")
  BY <1>0, <1>2 DEF Stale, LeadsTo
<1>3. ASSUME entry' = entry, LeadsTo(code[c])' = LeadsTo(code[c]) \/ c \in late', late \subseteq late',
             \A f \in Flows : ~At(f, "clear")
      PROVE  c \in late'
  BY <1>0, <1>3 DEF Stale
<1>4. ASSUME NEW f \in Flows, Opens(f) PROVE c \in late'
  BY <1>1, <1>2, <1>4, OpensType DEF Unchanged, histories, At
<1>5. ASSUME NEW d \in Codes, Expire(d) PROVE c \in late'
  <2>1. \A f \in Flows : ~At(f, "clear")
    BY <1>5 DEF Expire, At
  <2>2. c # d /\ entry'[c] = entry[c]
    BY <1>5 DEF Expire, Stale, TypeOK
  <2>3. Stale(c)
    BY <1>5, <2>2 DEF Expire, Stale, LeadsTo
  <2> QED BY <1>0, <1>5, <2>1, <2>2, <2>3 DEF Expire
<1>6. CASE UNCHANGED vars
  BY <1>2, <1>6 DEF vars, histories, At
<1>7. ASSUME NEW f \in Flows, Clear(f) PROVE c \in late'
  BY <1>7 DEF Clear, Stale
<1>8. ASSUME NEW f \in Flows, Crash(f) PROVE c \in late'
  <2>1. CASE At(f, "clear")
    BY <1>8, <2>1 DEF Crash, Stale, LeadsTo
  <2>2. CASE ~At(f, "clear")
    BY <1>1, <1>2, <1>8, <2>2 DEF Crash
  <2> QED BY <2>1, <2>2
<1>9. ASSUME NEW f \in Flows, Keep(f) PROVE c \in late'
  <2>1. \A g \in Flows : ~At(g, "clear")
    BY <1>1, <1>9 DEF Keep, At, Proceeds
  <2>2. LeadsTo(code[c])' = LeadsTo(code[c])
    BY <1>9, SameLead DEF Keep
  <2>3. CASE c = flow[f].code
    BY <1>9, <2>2, <2>3 DEF Keep, Stale, TypeOK
  <2>4. CASE c # flow[f].code
    <3>1. entry'[c] = entry[c] /\ (c \in late => c \in late')
      BY <1>9, <2>4 DEF Keep, TypeOK
    <3> QED BY <1>0, <2>1, <2>2, <3>1 DEF Stale
  <2> QED BY <2>3, <2>4
<1>10. ASSUME NEW f \in Flows, Count(f) PROVE c \in late'
  <2>1. \A g \in Flows : ~At(g, "clear")
    BY <1>1, <1>10 DEF Count, At, Proceeds
  <2>2. code'[c].stored = code[c].stored /\ code'[c].active = code[c].active /\ code'[c].target = code[c].target
    BY <1>10 DEF Count, TypeOK, Code
  <2> QED BY <1>3, <1>10, <2>1, <2>2, SameLead DEF Count, histories
<1>11. ASSUME NEW f \in Flows, Write(f) \/ Insert(f) \/ Drop(f) \/ Mint(f) PROVE c \in late'
  <2>1. \A g \in Flows : ~At(g, "clear")
    BY <1>1, <1>11 DEF Write, Insert, Drop, Mint, At, Proceeds
  <2>2. ~Done(f)
    BY EndFields DEF At
  <2>3. UNCHANGED <<code, place, entry, late>>
    BY <1>11, <2>2 DEF Write, Insert, Drop, Mint
  <2> QED BY <1>2, <2>1, <2>3
<1>12. ASSUME NEW f \in Flows, Remove(f) PROVE c \in late'
  <2>1. \A g \in Flows : ~At(g, "clear")
    BY <1>1, <1>12 DEF Remove, At, Proceeds
  <2>2. ~Done(f) /\ flow[f].place \in Listings
    BY <1>12, EndFields DEF At, Remove, FlowsFit, FlowFits, Places
  <2>3. UNCHANGED <<code, place, entry, late>>
    BY <1>12, <2>2 DEF Remove, histories
  <2> QED BY <1>2, <2>1, <2>3
<1>13. ASSUME NEW f \in Flows, Lock(f) \/ Find(f) \/ Check(f) PROVE c \in late'
  <2>1. \A g \in Flows : ~At(g, "clear")
    BY <1>1, <1>13 DEF Lock, Find, Check, At, Proceeds
  <2>2. flow[f].place \in Listings
    BY <1>13 DEF Lock, Find, Check, At, FlowsFit, FlowFits, Places
  <2>3. UNCHANGED <<code, entry>> /\ ((UNCHANGED <<place, late>>) \/ \E link : Commits(f, link))
    BY <1>13 DEF Lock, Find, Check
  <2>4. CASE UNCHANGED <<place, late>>
    BY <1>2, <2>1, <2>3, <2>4
  <2>5. ASSUME NEW link, Commits(f, link) PROVE c \in late'
    BY <1>3, <2>1, <2>2, <2>3, <2>5, CommitFollows DEF At
  <2> QED BY <2>3, <2>4, <2>5
<1> QED
  BY <1>4, <1>5, <1>6, <1>7, <1>8, <1>9, <1>10, <1>11, <1>12, <1>13 DEF Next, Proceeds

-----------------------------------------------------------------------------
\* The theorems.

LEMMA InitInv == Init => IInv
<1> SUFFICES ASSUME Init PROVE IInv
  OBVIOUS
<1>1. 0 \in 0..MaxScans /\ 0 \in 0..MaxCodes
  BY BoundsAssumption
<1>2. \A p \in Places : [stored |-> TRUE, live |-> TRUE, link |-> NoCode] \in Place
  BY DEF Place
<1>3. TypeOK
  BY <1>1, <1>2, Blank DEF Init, TypeOK
<1>4. (\A c \in Codes : ~code[c].stored /\ log[c] = 0 /\ entry[c] = Empty) /\ \A f \in Flows : flow[f].at = "idle"
  BY DEF Init, NotMade, Idle
<1> QED
  BY <1>3, <1>4
  DEF IInv, MadeInOrder, FlowsFit, FlowFits, CountsBehind, CountMatchesLog, PlacesChecked, Adds, At, OneCodeEach,
      Counted, CodesOf, ListingCodesFollow, Stale

LEMMA Step == IInv /\ [Next]_vars => IInv'
BY TypeStep, FlowsStep, CountsStep, BehindStep, PlacesStep, FollowStep DEF IInv

LEMMA Invariant == Spec => []IInv
BY InitInv, Step, PTL DEF Spec

\* Codes, places, the log, the cache and the flows under way keep their shape.
THEOREM TypeCorrect == Spec => []TypeOK
<1>1. IInv => TypeOK
  BY DEF IInv
<1> QED BY <1>1, Invariant, PTL

\* recordScan writes the log and the counter in one statement, and a save puts
\* back the counter it read: but for codes written over unread, the two agree.
THEOREM CountsAgree == Spec => []CountMatchesLog
<1>1. IInv => CountMatchesLog
  BY DEF IInv
<1> QED BY <1>1, Invariant, PTL

\* oneCodePerListing and ensureQrCode never give a listing a second code, unless
\* two were on their way past their checks at once.
THEOREM OneCodeOnly == Spec => []OneCodePerListing
<1>1. ASSUME OneCodeEach PROVE OneCodePerListing
  <2> SUFFICES ASSUME NEW p \in Listings \ rushed PROVE Cardinality(Counted(p)) <= 1
    BY DEF OneCodePerListing, Counted
  <2>1. CASE Counted(p) = {}
    BY <2>1, FS_EmptySet
  <2>2. CASE Counted(p) # {}
    <3>1. PICK c : Counted(p) = {c}
      BY <1>1, <2>2 DEF OneCodeEach
    <3> QED BY <3>1, FS_Singleton
  <2> QED BY <2>1, <2>2
<1>2. IInv => OneCodeEach
  BY DEF IInv
<1> QED BY <1>1, <1>2, Invariant, PTL

\* revalidateQrCodes drops what a write made stale: a reader is sent to the wrong
\* page only for as long as that is about to happen, or where it was overtaken.
THEOREM CodesFollow == Spec => []ListingCodesFollow
<1>1. IInv => ListingCodesFollow
  BY DEF IInv
<1> QED BY <1>1, Invariant, PTL

\* protectPrintedCodes and its like: a code in print is not deleted and keeps its
\* destination, but for what was printed once a change had passed its check.
THEOREM PrintedCodesStay == Spec => PrintedStay
<1>1. IInv /\ [Next]_vars =>
        [\A c \in InPrint \ lost' :
          \/ code'[c].stored /\ code'[c].target = code[c].target
          \/ code[c].target = Nowhere /\ code'[c].target \in Listings
          \/ \E f \in Flows : /\ flow[f].at \in {"write", "drop", "remove"} /\ flow'[f] # flow[f]
                              /\ c \notin flow[f].printed]_vars
  BY StayStep DEF IInv
<1> QED BY <1>1, Invariant, PTL DEF Spec, PrintedStay
=============================================================================
