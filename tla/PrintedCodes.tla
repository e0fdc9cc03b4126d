---------------------------- MODULE PrintedCodes ----------------------------
(***************************************************************************)
(* The codes printed in the magazine, the pages they lead to and the       *)
(* cached redirect.  (hooks/ensureQrCode, hooks/protectPrintedCodes,       *)
(* collections/QrCodes, hooks/revalidateListings, app/g/[code].)           *)
(*                                                                         *)
(* Everything is a flow of several requests: a scan looks its code up and  *)
(* is counted after the reader has gone; a save, a deletion and the making *)
(* of a code each check first and write later; and what a write drops from *)
(* the cache goes as its own request ends.  Rows are written whole, from   *)
(* the copy the save began with.                                           *)
(***************************************************************************)
EXTENDS Integers, FiniteSets

CONSTANTS
    MaxCodes,       \* bound on the codes ever made, numbered in the order they are
    MaxScans,       \* bound on the scans counted of one code
    Listings,       \* pages that get a code of their own
    Articles,       \* and pages that do not
    Home, Nowhere,  \* the home page, and a target that is gone
    Requests,       \* what staff and administrators ask a code to be
    Flows,          \* flows that can be under way at once
    Mixes           \* the kinds of work, of AllKinds, flows are considered for together

Places == Listings \cup Articles
Targets == Places \cup {Home, Nowhere}
Codes == 1..MaxCodes
NoCode == 0

AllKinds == {"scan", "edit", "make", "drop", "save", "publish", "remove", "discard", "crash"}

ASSUME BoundsAssumption == MaxCodes \in Nat /\ MaxScans \in Nat
ASSUME PlacesAssumption ==
    Listings \cap Articles = {} /\ Nowhere \notin Places \cup {Home} /\ Home \notin Places
ASSUME RequestsAssumption ==
    Requests \subseteq [stored : {TRUE}, target : Targets, scans : {0}, issue : BOOLEAN, active : BOOLEAN]
ASSUME MixesAssumption == Mixes \subseteq [Flows -> SUBSET AllKinds]

VARIABLES
    code,           \* the table of codes
    place,          \* listings and articles
    log,            \* how many rows of the scan log each code has
    entry,          \* the cached redirect of each code
    flow,           \* the flows under way
    minted,         \* how many codes have been made
    lost,           \* history: codes a save wrote over without having read them
    late,           \* history: codes whose cached redirect was overtaken
    rushed,         \* history: listings given a code while another was on its way
    mix             \* the kinds of work in this behaviour; it never changes

vars == <<code, place, log, entry, flow, minted, lost, late, rushed, mix>>
histories == <<lost, late, rushed>>

Code == [stored : BOOLEAN, target : Targets, scans : 0..MaxScans, issue : BOOLEAN, active : BOOLEAN]
NotMade == [stored |-> FALSE, target |-> Nowhere, scans |-> 0, issue |-> FALSE, active |-> FALSE]

Place == [stored : BOOLEAN, live : BOOLEAN, link : Codes \cup {NoCode}]

\* Where a reader is sent: to a place, or to the pages for a code nobody knows,
\* one retired, one whose place is unpublished and one whose place is gone.
Pages == Places \cup {Home, "unknown", "retired", "moved", "gone"}
Empty == "empty"

Steps == {"idle", "keep", "count", "write", "insert", "drop", "lock", "find", "check", "mint",
          "remove", "clear"}

\* printed: history, which of the codes the flow looked at were in print.
Flow == [at : Steps, code : Codes \cup {NoCode}, place : Places \cup {Nowhere}, page : Pages \cup {Empty},
         seen : Code, next : Code, was : Place, live : BOOLEAN, silver : BOOLEAN, printed : SUBSET Codes]

NoPlace == [stored |-> FALSE, live |-> FALSE, link |-> NoCode]

Idle == [at |-> "idle", code |-> NoCode, place |-> Nowhere, page |-> Empty, seen |-> NotMade,
         next |-> NotMade, was |-> NoPlace, live |-> FALSE, silver |-> FALSE, printed |-> {}]

TypeOK ==
    /\ code \in [Codes -> Code]
    /\ place \in [Places -> Place]
    /\ log \in [Codes -> 0..MaxScans]
    /\ entry \in [Codes -> Pages \cup {Empty}]
    /\ flow \in [Flows -> Flow]
    /\ minted \in 0..MaxCodes
    /\ lost \subseteq Codes /\ late \subseteq Codes /\ rushed \subseteq Listings
    /\ mix \in Mixes

Init ==
    /\ code = [c \in Codes |-> NotMade]
    /\ place = [p \in Places |-> [stored |-> TRUE, live |-> TRUE, link |-> NoCode]]
    /\ log = [c \in Codes |-> 0]
    /\ entry = [c \in Codes |-> Empty]
    /\ flow = [f \in Flows |-> Idle]
    /\ minted = 0
    /\ lost = {} /\ late = {} /\ rushed = {}
    /\ mix \in Mixes

-----------------------------------------------------------------------------
\* committedReason.  (Mutant: only what is in an issue.)
CommittedByIssue(row) == row.issue

Committed(row) == row.scans > 0 \/ row.issue

\* In print for the world, by the log as much as by the code's own count.
InPrint == {c \in Codes : code[c].stored /\ (log[c] > 0 \/ code[c].issue)}

CodesOf(p) == {c \in Codes : code[c].stored /\ code[c].target = p}

\* lookupCode and resolveDestination.  (Mutant: a target that is gone is not
\* looked for.)
AimsAt(row) ==
    IF ~row.stored THEN "unknown"
    ELSE IF ~row.active THEN "retired"
    ELSE IF row.target \in Places /\ ~place[row.target].live THEN "moved"
    ELSE row.target

LeadsTo(row) ==
    CASE ~row.stored            -> "unknown"
      [] row.stored /\ ~row.active -> "retired"
      [] OTHER                  ->
            IF row.target \notin Places THEN (IF row.target = Home THEN Home ELSE "gone")
            ELSE IF ~place[row.target].stored THEN "gone"
            ELSE IF place[row.target].live THEN row.target ELSE "moved"

At(f, step) == flow[f].at = step

Goto(f, step) == flow' = [flow EXCEPT ![f].at = step]

Ends(f) == flow' = [flow EXCEPT ![f] = Idle]

Starts(f, as) == At(f, "idle") /\ flow' = [flow EXCEPT ![f] = as]

\* Committed, with what it changed still in the cache.
Done(f) == flow' = [flow EXCEPT ![f] = [Idle EXCEPT !.at = "clear"]]

\* A save of a listing's row waits for the one before it to commit.
Locked(p) == \E f \in Flows : flow[f].at \in {"find", "check", "mint"} /\ flow[f].place = p

\* Another code for this listing has passed its check.
OnItsWay(f, p) ==
    \E g \in Flows \ {f} : \/ flow[g].at \in {"write", "insert"} /\ flow[g].next.target = p
                           \/ At(g, "mint") /\ flow[g].place = p

Rushed(f, p) == rushed' = IF p \in Listings /\ OnItsWay(f, p) THEN rushed \cup {p} ELSE rushed

-----------------------------------------------------------------------------
\* A scan: the cached redirect, or a lookup that is then cached, missing codes
\* too.

Scan(f, c) ==
    /\ Starts(f, [Idle EXCEPT !.at = IF entry[c] = Empty THEN "keep" ELSE "count", !.code = c,
                              !.page = IF entry[c] = Empty THEN LeadsTo(code[c]) ELSE entry[c]])
    /\ UNCHANGED <<code, place, log, entry, minted, histories, mix>>

Keep(f) ==
    LET c == flow[f].code
        page == flow[f].page
    IN  /\ At(f, "keep")
        /\ entry' = [entry EXCEPT ![c] = page]
        /\ late' = IF page = LeadsTo(code[c]) THEN late \ {c} ELSE late \cup {c}
        /\ Goto(f, "count")
        /\ UNCHANGED <<code, place, log, minted, lost, rushed, mix>>

\* recordScan: the log and the counter in one statement.  A scan of an unknown
\* or retired code, a robot's or a repeated one is not counted.
Count(f) ==
    LET c == flow[f].code
    IN  /\ At(f, "count")
        /\ \/ /\ flow[f].page \notin {"unknown", "retired"} /\ code[c].stored /\ log[c] < MaxScans
              /\ log' = [log EXCEPT ![c] = @ + 1]
              /\ code' = [code EXCEPT ![c].scans = @ + 1]
           \/ UNCHANGED <<log, code>>
        /\ Ends(f)
        /\ UNCHANGED <<place, entry, minted, histories, mix>>

\* An entry lives an hour.  (Mutant: one that explains itself stays.)
ExpireHits(c) ==
    /\ entry[c] \notin {Empty, "moved", "gone"}
    /\ entry' = [entry EXCEPT ![c] = Empty]
    /\ late' = late \ {c}
    /\ UNCHANGED <<code, place, log, flow, minted, lost, rushed, mix>>

Expire(c) ==
    /\ entry[c] # Empty
    /\ entry' = [entry EXCEPT ![c] = Empty]
    /\ late' = late \ {c}
    /\ UNCHANGED <<code, place, log, flow, minted, lost, rushed, mix>>

\* revalidateQrCodes, as the request that asked for it ends.
Clear(f) ==
    /\ At(f, "clear")
    /\ entry' = [c \in Codes |-> Empty]
    /\ late' = {}
    /\ Ends(f)
    /\ UNCHANGED <<code, place, log, minted, lost, rushed, mix>>

-----------------------------------------------------------------------------
\* Staff make, edit and delete codes.

\* oneCodePerListing.  (Mutant: no check.)
AnyNumber(c, p) == TRUE

OnlyCode(c, p) == p \in Listings => CodesOf(p) \subseteq {c}

\* What of a request the fields let through.  (Mutant: the count can be set.)
EditedCount(row, admin, asked) ==
    [asked EXCEPT !.stored = TRUE, !.scans = 0,
                  !.target = IF ~Committed(row) THEN @ ELSE row.target,
                  !.issue = IF admin \/ ~row.issue THEN @ ELSE row.issue,
                  !.active = IF admin \/ ~Committed(row) THEN @ ELSE row.active]

Edited(row, admin, asked) ==
    [row EXCEPT !.target = IF ~Committed(row) \/ (row.target = Nowhere /\ asked.target \in Listings)
                              THEN asked.target ELSE @,
                !.issue = IF admin \/ ~@ THEN asked.issue ELSE @,
                !.active = IF admin \/ ~Committed(row) THEN asked.active ELSE @]

Edit(f, c, admin, asked) ==
    LET next == Edited(code[c], admin, asked)
    IN  /\ code[c].stored /\ next # code[c]
        /\ next.target # code[c].target => OnlyCode(c, next.target)
        /\ Starts(f, [Idle EXCEPT !.at = "write", !.code = c, !.seen = code[c], !.next = next,
                              !.printed = InPrint \cap {c}])
        /\ UNCHANGED <<code, place, log, entry, minted, histories, mix>>

Kept(p) == p \in Places => place[p].stored

Write(f) ==
    LET c == flow[f].code
        next == flow[f].next
    IN  /\ At(f, "write")
        /\ IF ~code[c].stored \/ ~Kept(next.target)
              THEN Ends(f) /\ UNCHANGED <<code, lost, rushed>>
              ELSE /\ code' = [code EXCEPT ![c] = next]
                   /\ lost' = IF code[c] # flow[f].seen THEN lost \cup {c} ELSE lost
                   /\ Rushed(f, next.target)
                   /\ Done(f)
        /\ UNCHANGED <<place, log, entry, minted, late, mix>>

Make(f, asked) ==
    /\ OnlyCode(NoCode, asked.target)
    /\ Starts(f, [Idle EXCEPT !.at = "insert", !.next = asked])
    /\ UNCHANGED <<code, place, log, entry, minted, histories, mix>>

Insert(f) ==
    LET next == flow[f].next
    IN  /\ At(f, "insert")
        /\ IF minted = MaxCodes \/ ~Kept(next.target)
              THEN Ends(f) /\ UNCHANGED <<code, minted, rushed>>
              ELSE /\ code' = [code EXCEPT ![minted + 1] = next]
                   /\ minted' = minted + 1
                   /\ Rushed(f, next.target)
                   /\ Done(f)
        /\ UNCHANGED <<place, log, entry, lost, late, mix>>

\* protectPrintedCodes, then the deletion; the listing's link goes with the row.
OpenDrop(f, c) ==
    /\ code[c].stored /\ ~Committed(code[c])
    /\ Starts(f, [Idle EXCEPT !.at = "drop", !.code = c, !.printed = InPrint \cap {c}])
    /\ UNCHANGED <<code, place, log, entry, minted, histories, mix>>

Drop(f) ==
    LET c == flow[f].code
        linking == {p \in Places : place[p].link = c}
    IN  /\ At(f, "drop")
        /\ \A p \in linking : ~Locked(p)
        /\ code' = [code EXCEPT ![c] = NotMade]
        /\ place' = [p \in Places |-> IF p \in linking THEN [place[p] EXCEPT !.link = NoCode] ELSE place[p]]
        /\ Done(f)
        /\ UNCHANGED <<log, entry, minted, histories, mix>>

-----------------------------------------------------------------------------
\* Saves of a place; a listing's also sees to its code (ensureQrCode).

Save(f, p, live, silver) ==
    /\ place[p].stored
    /\ Starts(f, [Idle EXCEPT !.at = "lock", !.place = p, !.was = place[p], !.live = live,
                              !.silver = silver])
    /\ UNCHANGED <<code, place, log, entry, minted, histories, mix>>

\* The row as the save leaves it, over whatever another has written meanwhile.
\* What a listing's codes lead to is dropped when the save itself publishes or
\* unpublishes it; an article's is not.  (Mutant: nor a listing's.)
KeepsEntries(f, link) ==
    LET p == flow[f].place
    IN  /\ place' = [place EXCEPT ![p].live = flow[f].live, ![p].link = link]
        /\ late' = IF place[p] # flow[f].was THEN late \cup CodesOf(p) ELSE late
        /\ Ends(f)

Commits(f, link) ==
    LET p == flow[f].place
    IN  /\ place' = [place EXCEPT ![p].live = flow[f].live, ![p].link = link]
        /\ late' = IF place[p] # flow[f].was THEN late \cup CodesOf(p) ELSE late
        /\ IF p \in Listings /\ flow[f].live # flow[f].was.live THEN Done(f) ELSE Ends(f)

Lock(f) ==
    LET p == flow[f].place
        link == flow[f].was.link
    IN  /\ At(f, "lock") /\ ~Locked(p)
        /\ \/ ~place[p].stored /\ Ends(f) /\ UNCHANGED <<place, late>>
           \/ place[p].stored /\ p \in Articles /\ Commits(f, NoCode)
           \/ /\ place[p].stored /\ link # NoCode
              /\ IF code[link].stored THEN Commits(f, link) ELSE Ends(f) /\ UNCHANGED <<place, late>>
           \/ /\ place[p].stored /\ p \in Listings /\ link = NoCode
              /\ Goto(f, "find") /\ UNCHANGED <<place, late>>
        /\ UNCHANGED <<code, log, entry, minted, lost, rushed, mix>>

\* The oldest code made for the listing is adopted; one is made only for a
\* printed tier.
Find(f) ==
    LET p == flow[f].place
    IN  /\ At(f, "find")
        /\ \/ \E c \in CodesOf(p) : (\A d \in CodesOf(p) : c <= d) /\ Commits(f, c)
           \/ CodesOf(p) = {} /\ ~flow[f].silver /\ Commits(f, NoCode)
           \/ CodesOf(p) = {} /\ flow[f].silver /\ Goto(f, "check") /\ UNCHANGED <<place, late>>
        /\ UNCHANGED <<code, log, entry, minted, lost, rushed, mix>>

\* allocateCode may find none; a code made meanwhile refuses the whole save.
Check(f) ==
    LET p == flow[f].place
    IN  /\ At(f, "check")
        /\ \/ minted = MaxCodes /\ Commits(f, NoCode)
           \/ minted < MaxCodes /\ OnlyCode(NoCode, p) /\ Goto(f, "mint") /\ UNCHANGED <<place, late>>
           \/ minted < MaxCodes /\ ~OnlyCode(NoCode, p) /\ Ends(f) /\ UNCHANGED <<place, late>>
        /\ UNCHANGED <<code, log, entry, minted, lost, rushed, mix>>

Mint(f) ==
    LET p == flow[f].place
    IN  /\ At(f, "mint")
        /\ IF minted = MaxCodes
              THEN Ends(f) /\ UNCHANGED <<code, place, minted, late, rushed>>
              ELSE /\ code' = [code EXCEPT ![minted + 1] =
                                 [NotMade EXCEPT !.stored = TRUE, !.target = p, !.active = TRUE]]
                   /\ place' = [place EXCEPT ![p].live = flow[f].live, ![p].link = minted + 1]
                   /\ late' = IF place[p] # flow[f].was THEN late \cup CodesOf(p) ELSE late
                   /\ minted' = minted + 1
                   /\ Rushed(f, p)
                   /\ Done(f)
        /\ UNCHANGED <<log, entry, lost, mix>>

\* protectBusinessWithPrintedCode, protectArticleWithPrintedCode, then the
\* deletion: the codes that led there lead nowhere.
OpenRemove(f, p) ==
    /\ place[p].stored
    /\ \A c \in CodesOf(p) : ~Committed(code[c])
    /\ Starts(f, [Idle EXCEPT !.at = "remove", !.place = p, !.printed = InPrint \cap CodesOf(p)])
    /\ UNCHANGED <<code, place, log, entry, minted, histories, mix>>

Remove(f) ==
    LET p == flow[f].place
    IN  /\ At(f, "remove") /\ ~Locked(p)
        /\ IF ~place[p].stored
              THEN Ends(f) /\ UNCHANGED <<code, place>>
              ELSE /\ place' = [place EXCEPT ![p] = NoPlace]
                   /\ code' = [c \in Codes |-> IF c \in CodesOf(p) THEN [code[c] EXCEPT !.target = Nowhere]
                                               ELSE code[c]]
                   /\ IF p \in Listings THEN Done(f) ELSE Ends(f)
        /\ UNCHANGED <<log, entry, minted, histories, mix>>

Stale(c) == entry[c] # Empty /\ entry[c] # LeadsTo(code[c])

\* The process ends in the middle: nothing of a save under way is kept, and a
\* committed one's entries are not dropped.
Crash(f) ==
    /\ ~At(f, "idle")
    /\ late' = IF At(f, "clear") THEN late \cup {c \in Codes : Stale(c)} ELSE late
    /\ Ends(f)
    /\ UNCHANGED <<code, place, log, entry, minted, lost, rushed, mix>>

-----------------------------------------------------------------------------
Opens(f) ==
    \/ "scan" \in mix[f] /\ \E c \in 1..minted : Scan(f, c)
    \/ "edit" \in mix[f] /\ \E c \in Codes, admin \in BOOLEAN, asked \in Requests : Edit(f, c, admin, asked)
    \/ "make" \in mix[f] /\ \E asked \in Requests : Make(f, asked)
    \/ "drop" \in mix[f] /\ \E c \in Codes : OpenDrop(f, c)
    \/ "save" \in mix[f] /\ \E p \in Listings, live \in BOOLEAN, silver \in BOOLEAN : Save(f, p, live, silver)
    \/ "publish" \in mix[f] /\ \E p \in Articles, live \in BOOLEAN : Save(f, p, live, FALSE)
    \/ "remove" \in mix[f] /\ \E p \in Listings : OpenRemove(f, p)
    \/ "discard" \in mix[f] /\ \E p \in Articles : OpenRemove(f, p)

Proceeds(f) ==
    \/ Keep(f)
    \/ Count(f)
    \/ Write(f)
    \/ Insert(f)
    \/ Drop(f)
    \/ Lock(f)
    \/ Find(f)
    \/ Check(f)
    \/ Mint(f)
    \/ Remove(f)
    \/ Clear(f)

Next ==
    \/ \E f \in Flows : Opens(f) \/ Proceeds(f) \/ ("crash" \in mix[f] /\ Crash(f))
    \/ \E c \in Codes : Expire(c)

Spec == Init /\ [][Next]_vars

\* A request that is not cut off goes on, and a cached entry's hour passes.
FairSpec ==
    /\ Spec
    /\ \A f \in Flows : WF_vars(Proceeds(f))
    /\ \A c \in Codes : WF_vars(Expire(c))

-----------------------------------------------------------------------------
\* A code in print keeps its destination and is never deleted, whatever staff,
\* administrators and deletions of its place do; only an empty one is given a
\* listing again.  Set aside: what went to print, or was made to lead to the place,
\* once the change had passed its check, and counts a save has written over.
PrintedStay ==
    [][\A c \in InPrint \ lost' :
          \/ code'[c].stored /\ code'[c].target = code[c].target
          \/ code[c].target = Nowhere /\ code'[c].target \in Listings
          \/ \E f \in Flows : /\ flow[f].at \in {"write", "drop", "remove"} /\ flow'[f] # flow[f]
                              /\ c \notin flow[f].printed]_vars

\* The counter on a code and the scan log agree (recordScan).
CountMatchesLog == \A c \in Codes \ lost : code[c].stored => code[c].scans = log[c]

\* A listing never has two codes, however often it is saved at once and its code
\* is deleted, edited or left without a link; set aside are the listings for
\* which two codes were on their way past oneCodePerListing at the same time.
OneCodePerListing ==
    \A p \in Listings \ rushed : Cardinality(CodesOf(p) \ lost) <= 1

Explained(c) == c \in late \/ \E f \in Flows : At(f, "clear")

\* Readers are sent where the code leads now, or the entry that sends them
\* elsewhere is about to be dropped, or was overtaken: what was looked up before
\* the change and cached after it, and what a lost process would have dropped.
\* Set aside is what happens to an article, whose entries nothing drops.
ListingCodesFollow ==
    \/ \A c \in Codes : Stale(c) => Explained(c)
    \/ \E f \in Flows : mix[f] \cap {"publish", "discard"} # {}

\* No reader is sent to the wrong page for ever.
ReadersCatchUp == \A c \in Codes : []<>~Stale(c)
=============================================================================
